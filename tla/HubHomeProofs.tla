--------------------------- MODULE HubHomeProofs ---------------------------
(***************************************************************************)
(* Theorems about the home side of Hub: which link comes up, what is asked *)
(* on it, and when it serves; and that the hub implements HomeService, for *)
(* every number of links, phones and requests.                             *)
(***************************************************************************)
EXTENDS HubProofs, HubService

(* The link that serves was accepted; one that comes up is newer.          *)
GensInv ==
  /\ mux <= next_gen
  /\ cand # None => cand = next_gen /\ mux < cand
  /\ (cand = None) <=> (stage = "None")

(* Ids are given out once, and what waits under an id was asked under it.  *)
IdsInv ==
  /\ \A a \in asked : a.id <= next_req
  /\ \A a, b \in asked : a.id = b.id => a = b
  /\ \A i \in ReqIds :
       outstanding[i] # NoWait => \E a \in asked : a.id = i /\ a.wait = outstanding[i]

(* A request that waits has had no reply, nor has one that was never sent. *)
ReplyInv ==
  \A i \in ReqIds :
    /\ replies[i] <= 1
    /\ outstanding[i].kind = "Forwarded" => replies[i] = 0
    /\ i > next_req => replies[i] = 0

(* What a link must have said before it is asked anything.                 *)
ReadyInv ==
  /\ \A a \in asked : {"Registered", "Ready"} \subseteq heard[a.gen]
  /\ stage = "WaitReady" => "Registered" \in heard[cand]
  /\ stage \in {"WaitInitialize", "WaitLoads"} =>
       {"Registered", "Ready"} \subseteq heard[cand]
  /\ mux # None => {"Registered", "Ready"} \subseteq heard[mux]

(* What a link that is coming up was asked: nothing, then its initialize,  *)
(* then the loads that are pending or were answered.                       *)
HandshakeInv ==
  /\ \A a \in asked : a.gen <= next_gen
  /\ stage \in {"WaitRegistered", "WaitReady"} => \A a \in asked : a.gen # cand
  /\ stage = "WaitInitialize" =>
       \E a \in asked : /\ a.gen = cand /\ a.wait = HubInitialize
                        /\ \A b \in asked : b.gen = cand => b = a
  /\ stage = "WaitLoads" =>
       /\ \E a \in asked : a.gen = cand /\ a.wait = HubInitialize
       /\ \A a \in asked : a.gen = cand =>
            \/ /\ a.wait \in {HubInitialize, HubLoad}
               /\ outstanding[a.id] = NoWait
            \/ /\ a.wait = HubLoad
               /\ \E s \in Sessions : pending[s] = a.id
  /\ MuxHandshakeDone

-----------------------------------------------------------------------------
(* Which link comes up.                                                    *)

(* One handler keeps the generations in order.                             *)
LEMMA GensStep == TypeOK /\ GensInv /\ [Next]_vars => GensInv'
<1> SUFFICES ASSUME TypeOK, GensInv, [Next]_vars PROVE GensInv'
  OBVIOUS
<1> USE DEF homeVars, tableVars, phoneVars, requestVars, reverseVars
<1>a. ASSUME UNCHANGED <<mux, cand, stage, next_gen>> PROVE GensInv'
  BY <1>a DEF GensInv
<1>b. ASSUME fail_incoming, UNCHANGED next_gen PROVE GensInv'
  BY <1>b DEF fail_incoming, GensInv, TypeOK
<1>c. ASSUME finish_successor, cand # None, UNCHANGED next_gen PROVE GensInv'
  BY <1>c DEF finish_successor, GensInv, TypeOK
<1>1. CASE on_accepted
  BY <1>1 DEF on_accepted, GensInv, TypeOK, Gens, None
<1>2. ASSUME NEW g \in Gens, NEW ready \in BOOLEAN, NEW version \in Versions,
             on_registered(g, ready, version)
      PROVE  GensInv'
  <2>1. CASE version # LEADER_PROTOCOL_VERSION
    BY <1>2, <2>1, <1>b DEF on_registered
  <2>2. CASE version = LEADER_PROTOCOL_VERSION
    BY <1>2, <2>2 DEF on_registered, GensInv
  <2> QED BY <2>1, <2>2
<1>3. ASSUME NEW g \in Gens, on_leader_ready(g) PROVE GensInv'
  BY <1>3 DEF on_leader_ready, GensInv
<1>4. ASSUME NEW g \in Gens, NEW i \in ReqIds, NEW error \in BOOLEAN,
             on_initialize_result(g, i, error)
      PROVE  GensInv'
  <2>1. Known(g) /\ UNCHANGED next_gen
    BY <1>4 DEF on_initialize_result, Answers
  <2>2. CASE g # cand
    BY <1>4, <2>2, <1>a DEF on_initialize_result
  <2>3. CASE g = cand /\ error
    BY <1>4, <2>3, <1>b DEF on_initialize_result
  <2>4. CASE g = cand /\ ~error
    <3>1. after_follower_initialize(g, i) /\ cand # None
      BY <1>4, <2>1, <2>4 DEF on_initialize_result, Known
    <3>2. \/ finish_successor
          \/ UNCHANGED <<mux, cand, stage>>
          \/ /\ UNCHANGED <<mux, cand>>
             /\ stage = "WaitInitialize" /\ stage' = "WaitLoads"
      BY <3>1 DEF after_follower_initialize
    <3>3. ASSUME UNCHANGED <<mux, cand>>, stage = "WaitInitialize", stage' = "WaitLoads"
          PROVE  GensInv'
      BY <2>1, <3>3 DEF GensInv
    <3> QED BY <2>1, <3>1, <3>2, <3>3, <1>a, <1>c
  <2> QED BY <2>2, <2>3, <2>4
<1>5. ASSUME NEW g \in Gens, NEW i \in ReqIds, on_load_result(g, i)
      PROVE  GensInv'
  <2>1. Known(g) /\ UNCHANGED next_gen
    BY <1>5 DEF on_load_result, Answers
  <2>2. (cand # None /\ finish_successor) \/ UNCHANGED <<mux, cand, stage>>
    BY <1>5, <2>1 DEF on_load_result, after_load_result, Known
  <2> QED BY <2>1, <2>2, <1>a, <1>c
<1>6. ASSUME NEW g \in Gens, on_home_eof(g) PROVE GensInv'
  <2>1. CASE g = mux
    BY <1>6, <2>1 DEF on_home_eof, GensInv, TypeOK, None, Gens
  <2>2. CASE g # mux
    BY <1>6, <2>2, <1>b DEF on_home_eof
  <2> QED BY <2>1, <2>2
<1>7. CASE on_deadline
  BY <1>7, <1>b DEF on_deadline
<1>8. CASE shutdown
  BY <1>8 DEF shutdown, GensInv, TypeOK, None
<1>9. ASSUME NEW g \in Gens, NEW i \in ReqIds, NEW about \in SessionIdIn,
             on_forwarded_result(g, i, about)
      PROVE  GensInv'
  BY <1>9, <1>a DEF on_forwarded_result
<1>10. ASSUME NEW s \in Sessions, NEW interaction \in BOOLEAN,
              on_reverse_request(s, interaction)
       PROVE  GensInv'
  BY <1>10, <1>a DEF on_reverse_request
<1>11. ASSUME NEW p \in Phones, PhoneText(p) \/ on_phone_eof(p) PROVE GensInv'
  BY <1>11, <1>a DEF PhoneText, on_phone_eof, answer_initialize, on_load_request,
    on_close_request, on_other_request, on_phone_reply
<1>12. CASE on_phone_hello \/ UNCHANGED vars
  BY <1>12, <1>a DEF on_phone_hello, vars
<1> QED
  BY <1>1, <1>2, <1>3, <1>4, <1>5, <1>6, <1>7, <1>8, <1>9, <1>10, <1>11, <1>12
  DEF Next, HomeFrame

(* The generations are always in order.                                    *)
LEMMA GensAlways == Spec => []GensInv
<1>1. Init => GensInv
  BY DEF Init, GensInv, None
<1> QED BY <1>1, TypeCorrect, GensStep, PTL DEF Spec

(* The link that comes up is the newest one accepted and newer than the    *)
(* one that serves, however accepts, refusals, ends, deadlines and         *)
(* hand-overs follow each other.                                           *)
THEOREM NewestAlwaysComesUp == Spec => []NewestComesUp
<1>1. GensInv => NewestComesUp
  BY DEF GensInv, NewestComesUp
<1> QED BY <1>1, GensAlways, PTL

-----------------------------------------------------------------------------
(* Refused versions.                                                       *)

(* One handler forgets an old refusal when a candidate registers.          *)
LEMMA RefusalStep == TypeOK /\ RefusalForgotten /\ [Next]_vars => RefusalForgotten'
<1> SUFFICES ASSUME TypeOK, RefusalForgotten, [Next]_vars PROVE RefusalForgotten'
  OBVIOUS
<1> USE DEF homeVars, tableVars, phoneVars, requestVars, reverseVars
<1>a. ASSUME stage' \in {stage, "None"}, UNCHANGED refused_version
      PROVE  RefusalForgotten'
  BY <1>a DEF RefusalForgotten
<1>1. CASE on_accepted
  BY <1>1 DEF on_accepted, RefusalForgotten
<1>2. ASSUME NEW g \in Gens, NEW ready \in BOOLEAN, NEW version \in Versions,
             on_registered(g, ready, version)
      PROVE  RefusalForgotten'
  BY <1>2 DEF on_registered, note_version, fail_incoming, RefusalForgotten
<1>3. ASSUME NEW g \in Gens, on_leader_ready(g) PROVE RefusalForgotten'
  BY <1>3 DEF on_leader_ready, RefusalForgotten
<1>4. ASSUME NEW g \in Gens, NEW i \in ReqIds, NEW error \in BOOLEAN,
             on_initialize_result(g, i, error)
      PROVE  RefusalForgotten'
  <2>1. UNCHANGED refused_version
    BY <1>4 DEF on_initialize_result
  <2>2. \/ stage' \in {stage, "None"}
        \/ stage = "WaitInitialize" /\ stage' = "WaitLoads"
    BY <1>4 DEF on_initialize_result, after_follower_initialize, fail_incoming,
                finish_successor
  <2> QED BY <2>1, <2>2 DEF RefusalForgotten
<1>5. ASSUME NEW g \in Gens, NEW i \in ReqIds, on_load_result(g, i)
      PROVE  RefusalForgotten'
  BY <1>5, <1>a DEF on_load_result, after_load_result, finish_successor
<1>6. ASSUME NEW g \in Gens, on_home_eof(g) PROVE RefusalForgotten'
  BY <1>6, <1>a DEF on_home_eof, fail_incoming
<1>7. CASE on_deadline \/ shutdown
  BY <1>7, <1>a DEF on_deadline, fail_incoming, shutdown
<1>8. ASSUME NEW g \in Gens, NEW i \in ReqIds, NEW about \in SessionIdIn,
             on_forwarded_result(g, i, about)
      PROVE  RefusalForgotten'
  BY <1>8, <1>a DEF on_forwarded_result
<1>9. ASSUME NEW s \in Sessions, NEW interaction \in BOOLEAN,
             on_reverse_request(s, interaction)
      PROVE  RefusalForgotten'
  BY <1>9, <1>a DEF on_reverse_request
<1>10. ASSUME NEW p \in Phones, PhoneText(p) \/ on_phone_eof(p)
       PROVE  RefusalForgotten'
  BY <1>10, <1>a DEF PhoneText, on_phone_eof, answer_initialize, on_load_request,
    on_close_request, on_other_request, on_phone_reply
<1>11. CASE on_phone_hello \/ UNCHANGED vars
  BY <1>11, <1>a DEF on_phone_hello, vars
<1> QED
  BY <1>1, <1>2, <1>3, <1>4, <1>5, <1>6, <1>7, <1>8, <1>9, <1>10, <1>11
  DEF Next, HomeFrame

(* Past its Registered, a candidate's phones are never told of a version   *)
(* that an earlier link was refused for.                                   *)
THEOREM RefusalAlwaysForgotten == Spec => []RefusalForgotten
<1>1. Init => RefusalForgotten
  BY DEF Init, RefusalForgotten
<1> QED BY <1>1, TypeCorrect, RefusalStep, PTL DEF Spec

-----------------------------------------------------------------------------
(* Request ids.                                                            *)

(* Sending a request takes a fresh id.                                     *)
LEMMA SendIds ==
  ASSUME TypeOK, IdsInv, NEW g, NEW method, NEW about, NEW wait,
         send_request(g, method, about, wait)
  PROVE  IdsInv'
<1> DEFINE i == next_req + 1
           new == Ask(g, i, method, about, wait)
<1>1. /\ next_req \in Nat /\ next_req' = next_req + 1
      /\ outstanding' = [outstanding EXCEPT ![i] = wait]
      /\ asked' = asked \cup {new}
  BY DEF send_request, alloc_reqs, TypeOK
<1>2. new.id = i /\ new.wait = wait
  BY DEF Ask
<1>3. \A a \in asked : a.id \in Nat /\ a.id <= next_req
  BY DEF IdsInv, TypeOK, Asks, ReqIds
<1> HIDE DEF new
<1>4. \A a \in asked' : a.id <= next_req'
  BY <1>1, <1>2, <1>3
<1>5. \A a, b \in asked' : a.id = b.id => a = b
  BY <1>1, <1>2, <1>3 DEF IdsInv
<1>6. ASSUME NEW j \in ReqIds, outstanding'[j] # NoWait
      PROVE  \E a \in asked' : a.id = j /\ a.wait = outstanding'[j]
  BY <1>1, <1>2, <1>6 DEF IdsInv, TypeOK
<1> QED BY <1>4, <1>5, <1>6 DEF IdsInv

(* Consuming a wait frees no id for reuse.                                 *)
LEMMA ConsumeIds ==
  ASSUME TypeOK, IdsInv, NEW i \in ReqIds,
         outstanding' = consumed(i), UNCHANGED <<asked, next_req>>
  PROVE  IdsInv'
BY DEF TypeOK, IdsInv, consumed

(* The loads of PendingLoads::start on link g, after its initialize i: one *)
(* per watched session, under the ids ids[s].                              *)
LoadsSent(g, i, watched, n, ids) ==
  /\ watched \subseteq Sessions /\ watched # {}
  /\ next_req' = next_req + n /\ next_req + n <= MaxReq
  /\ ids \in [watched -> (next_req + 1)..(next_req + n)]
  /\ \A s, t \in watched : ids[s] = ids[t] => s = t
  /\ \A j \in (next_req + 1)..(next_req + n) : \E s \in watched : ids[s] = j
  /\ pending' = [s \in Sessions |-> IF s \in watched THEN ids[s] ELSE None]
  /\ asked' = asked \cup {Ask(g, ids[s], "session/load", {s}, HubLoad) :
                            s \in watched}
  /\ outstanding' = [j \in ReqIds |->
                       IF next_req < j /\ j <= next_req + n
                       THEN HubLoad ELSE consumed(i)[j]]
  /\ stage' = "WaitLoads"
  /\ UNCHANGED <<mux, cand, lastNote>>

(* They are what an answered initialize sends while sessions are watched.  *)
LEMMA LoadsFresh ==
  ASSUME TypeOK, NEW g \in Gens, NEW i \in ReqIds,
         after_follower_initialize(g, i), stage = "WaitInitialize",
         {s \in Sessions : watchers[s] # {}} # {}
  PROVE  \E watched, ids : \E n \in Nat : LoadsSent(g, i, watched, n, ids)
<1> DEFINE watched == {s \in Sessions : watchers[s] # {}}
           n == Cardinality(watched)
           range == (next_req + 1)..(next_req + n)
<1>1. n \in Nat
  BY WatchedFinite
<1> HIDE DEF n
<1>2. /\ alloc_loads(n)
      /\ \E ids \in Bijection(watched, range) :
           /\ pending' = [s \in Sessions |->
                            IF s \in watched THEN ids[s] ELSE None]
           /\ asked' = asked \cup {Ask(g, ids[s], "session/load", {s},
                                       HubLoad) : s \in watched}
      /\ outstanding' = [j \in ReqIds |->
                           IF next_req < j /\ j <= next_req + n
                           THEN HubLoad ELSE consumed(i)[j]]
      /\ stage' = "WaitLoads"
      /\ UNCHANGED <<mux, cand, lastNote>>
  BY DEF after_follower_initialize, n
<1>3. PICK ids \in Bijection(watched, range) :
           /\ pending' = [s \in Sessions |->
                            IF s \in watched THEN ids[s] ELSE None]
           /\ asked' = asked \cup {Ask(g, ids[s], "session/load", {s},
                                       HubLoad) : s \in watched}
  BY <1>2
<1>4. /\ ids \in [watched -> range]
      /\ \A s, t \in watched : ids[s] = ids[t] => s = t
      /\ \A j \in range : \E s \in watched : ids[s] = j
  BY DEF Bijection, Injection, Surjection, IsInjective
<1>5. next_req' = next_req + n /\ next_req + n <= MaxReq
  BY <1>2 DEF alloc_loads, alloc_reqs
<1>6. watched \subseteq Sessions /\ watched # {}
  OBVIOUS
<1>7. LoadsSent(g, i, watched, n, ids)
  BY <1>2, <1>3, <1>4, <1>5, <1>6 DEF LoadsSent
<1> QED BY <1>1, <1>7

(* Loading takes fresh ids, one for each session.                          *)
LEMMA LoadIds ==
  ASSUME TypeOK, IdsInv, NEW g, NEW i \in ReqIds, NEW watched, NEW ids,
         NEW n \in Nat, LoadsSent(g, i, watched, n, ids)
  PROVE  IdsInv'
<1> DEFINE new(s) == Ask(g, ids[s], "session/load", {s}, HubLoad)
<1>1. next_req \in Nat /\ next_req' = next_req + n
  BY DEF LoadsSent, TypeOK
<1>2. asked' = asked \cup {new(s) : s \in watched}
  BY DEF LoadsSent
<1>3. \A s \in watched : /\ ids[s] \in Nat
                          /\ next_req < ids[s] /\ ids[s] <= next_req + n
  BY <1>1 DEF LoadsSent
<1>4. \A s : new(s).id = ids[s] /\ new(s).wait = HubLoad
  BY DEF Ask
<1>5. \A s, t \in watched : ids[s] = ids[t] => s = t
  BY DEF LoadsSent
<1>6. \A a \in asked : a.id \in Nat /\ a.id <= next_req
  BY DEF IdsInv, TypeOK, Asks, ReqIds
<1> HIDE DEF new
<1>7. \A a \in asked' : a.id <= next_req'
  BY <1>1, <1>2, <1>3, <1>4, <1>6
<1>8. ASSUME NEW a \in asked', NEW b \in asked', a.id = b.id
      PROVE  a = b
  <2>1. CASE a \in asked /\ b \in asked
    BY <1>8, <2>1 DEF IdsInv
  <2>2. CASE a \notin asked /\ b \notin asked
    BY <1>2, <1>4, <1>5, <1>8, <2>2
  <2>3. CASE a \in asked /\ b \notin asked
    BY <1>1, <1>2, <1>3, <1>4, <1>6, <1>8, <2>3
  <2>4. CASE a \notin asked /\ b \in asked
    BY <1>1, <1>2, <1>3, <1>4, <1>6, <1>8, <2>4
  <2> QED BY <2>1, <2>2, <2>3, <2>4
<1>9. ASSUME NEW j \in ReqIds, outstanding'[j] # NoWait
      PROVE  \E a \in asked' : a.id = j /\ a.wait = outstanding'[j]
  <2>1. CASE next_req < j /\ j <= next_req + n
    <3>1. outstanding'[j] = HubLoad
      BY <2>1 DEF LoadsSent
    <3>2. j \in (next_req + 1)..(next_req + n)
      BY <2>1, <1>1 DEF ReqIds
    <3>3. PICK s \in watched : ids[s] = j
      BY <3>2 DEF LoadsSent
    <3> QED BY <3>1, <3>3, <1>2, <1>4
  <2>2. CASE ~(next_req < j /\ j <= next_req + n)
    <3>1. outstanding'[j] = outstanding[j]
      BY <2>2, <1>9 DEF LoadsSent, consumed, TypeOK
    <3> QED BY <3>1, <1>2, <1>9 DEF IdsInv
  <2> QED BY <2>1, <2>2
<1> QED BY <1>7, <1>8, <1>9 DEF IdsInv

(* A phone's request is sent, or nothing is.                               *)
LEMMA ForwardSends ==
  ASSUME NEW p, NEW o, NEW method, NEW about, forward_request(p, o, method, about)
  PROVE  \/ Away /\ UNCHANGED <<outstanding, next_req, asked, replies>>
         \/ ~Away /\ send_request(mux, method, about, Forwarded(p, o))
BY DEF forward_request, requestVars

(* One handler gives no id out twice.                                      *)
LEMMA IdsStep == TypeOK /\ IdsInv /\ [Next]_vars => IdsInv'
<1> SUFFICES ASSUME TypeOK, IdsInv, [Next]_vars PROVE IdsInv'
  OBVIOUS
<1> USE DEF homeVars, tableVars, phoneVars, requestVars, reverseVars
<1>a. ASSUME UNCHANGED <<asked, outstanding, next_req>> PROVE IdsInv'
  BY <1>a DEF IdsInv
<1>1. ASSUME NEW g \in Gens, NEW ready \in BOOLEAN, NEW version \in Versions,
             on_registered(g, ready, version)
      PROVE  IdsInv'
  BY <1>1, <1>a, SendIds DEF on_registered, send_follower_initialize
<1>2. ASSUME NEW g \in Gens, on_leader_ready(g) PROVE IdsInv'
  BY <1>2, <1>a, SendIds DEF on_leader_ready, send_follower_initialize
<1>3. ASSUME NEW g \in Gens, NEW i \in ReqIds, NEW about \in SessionIdIn,
             on_forwarded_result(g, i, about)
      PROVE  IdsInv'
  BY <1>3, ConsumeIds DEF on_forwarded_result
<1>4. ASSUME NEW g \in Gens, NEW i \in ReqIds, NEW error \in BOOLEAN,
             on_initialize_result(g, i, error)
      PROVE  IdsInv'
  <2>1. \/ after_follower_initialize(g, i)
        \/ outstanding' = consumed(i) /\ UNCHANGED <<next_req, asked>>
    BY <1>4 DEF on_initialize_result
  <2>2. CASE /\ after_follower_initialize(g, i) /\ stage = "WaitInitialize"
             /\ {s \in Sessions : watchers[s] # {}} # {}
    BY <2>2, LoadsFresh, LoadIds
  <2>3. CASE /\ after_follower_initialize(g, i)
             /\ ~ /\ stage = "WaitInitialize"
                  /\ {s \in Sessions : watchers[s] # {}} # {}
    <3>1. outstanding' = consumed(i) /\ UNCHANGED <<next_req, asked>>
      BY <2>3 DEF after_follower_initialize
    <3> QED BY <3>1, ConsumeIds
  <2> QED BY <2>1, <2>2, <2>3, ConsumeIds
<1>5. ASSUME NEW g \in Gens, NEW i \in ReqIds, on_load_result(g, i)
      PROVE  IdsInv'
  BY <1>5, ConsumeIds DEF on_load_result
<1>6. ASSUME NEW s \in Sessions, NEW interaction \in BOOLEAN,
             on_reverse_request(s, interaction)
      PROVE  IdsInv'
  <2>1. /\ next_req' = next_req + 1 /\ next_req \in Nat
        /\ UNCHANGED <<asked, outstanding>>
    BY <1>6 DEF on_reverse_request, alloc_reqs, TypeOK
  <2>2. \A a \in asked : a.id \in Nat
    BY DEF TypeOK, Asks, ReqIds
  <2> QED BY <2>1, <2>2 DEF IdsInv
<1>7. ASSUME NEW p \in Phones, NEW o \in Origins, NEW method, NEW about,
             forward_request(p, o, method, about)
      PROVE  IdsInv'
  BY <1>7, <1>a, ForwardSends, SendIds
<1>8. ASSUME NEW p \in Phones, PhoneText(p) \/ on_phone_eof(p) PROVE IdsInv'
  BY <1>8, <1>a, <1>7 DEF PhoneText, on_phone_eof, answer_initialize,
    on_load_request, on_close_request, on_other_request, on_phone_reply
<1>9. ASSUME NEW g \in Gens, on_home_eof(g) PROVE IdsInv'
  BY <1>9, <1>a DEF on_home_eof
<1>10. CASE on_accepted \/ on_deadline \/ on_phone_hello \/ shutdown \/ UNCHANGED vars
  BY <1>10, <1>a DEF on_accepted, on_deadline, on_phone_hello, shutdown, vars
<1> QED
  BY <1>1, <1>2, <1>3, <1>4, <1>5, <1>6, <1>8, <1>9, <1>10 DEF Next, HomeFrame

(* Ids are always given out once.                                          *)
LEMMA IdsAlways == Spec => []IdsInv
<1>1. Init => IdsInv
  BY DEF Init, IdsInv
<1> QED BY <1>1, TypeCorrect, IdsStep, PTL DEF Spec

(* No two requests to the home ever share an id, whichever links they went *)
(* to and whether a phone, the hub's initialize or PendingLoads sent them; *)
(* and what waits under an id is what was sent under it.                   *)
THEOREM RequestIdsAlwaysUnique == Spec => []RequestIdsUnique
<1>1. IdsInv => RequestIdsUnique
  BY DEF IdsInv, RequestIdsUnique
<1> QED BY <1>1, IdsAlways, PTL

-----------------------------------------------------------------------------
(* Replies.                                                                *)

(* One handler replies to no request twice.                                *)
LEMMA ReplyStep == TypeOK /\ IdsInv /\ ReplyInv /\ [Next]_vars => ReplyInv'
<1> SUFFICES ASSUME TypeOK, IdsInv, ReplyInv, [Next]_vars PROVE ReplyInv'
  OBVIOUS
<1> USE DEF homeVars, tableVars, phoneVars, requestVars, reverseVars
<1>0. HubInitialize.kind # "Forwarded" /\ HubLoad.kind # "Forwarded" /\ NoWait.kind # "Forwarded"
  BY DEF HubInitialize, HubLoad, NoWait
<1>a. ASSUME next_req' \in Nat, next_req <= next_req', UNCHANGED replies,
             \A i \in ReqIds : \/ outstanding'[i] = outstanding[i]
                               \/ outstanding'[i].kind # "Forwarded"
                               \/ i > next_req
      PROVE  ReplyInv'
  BY <1>a DEF ReplyInv, TypeOK, ReqIds
<1>b. ASSUME NEW g, NEW method, NEW about, NEW wait,
             send_request(g, method, about, wait)
      PROVE  ReplyInv'
  <2>1. /\ next_req \in Nat /\ next_req' = next_req + 1
        /\ outstanding' = [outstanding EXCEPT ![next_req + 1] = wait]
        /\ UNCHANGED replies
    BY <1>b DEF send_request, alloc_reqs, TypeOK
  <2>2. \A i \in ReqIds : outstanding'[i] = outstanding[i] \/ i > next_req
    BY <2>1 DEF TypeOK, ReqIds
  <2> QED BY <2>1, <2>2, <1>a
<1>c. ASSUME NEW i \in ReqIds, outstanding' = consumed(i),
             UNCHANGED <<replies, next_req>>
      PROVE  ReplyInv'
  <2>1. \A j \in ReqIds : outstanding'[j] = outstanding[j] \/ outstanding'[j] = NoWait
    BY <1>c DEF consumed, TypeOK
  <2> QED BY <1>c, <2>1, <1>0 DEF ReplyInv
<1>d. ASSUME UNCHANGED <<outstanding, replies, next_req>> PROVE ReplyInv'
  BY <1>d DEF ReplyInv
<1>1. ASSUME NEW g \in Gens, NEW ready \in BOOLEAN, NEW version \in Versions,
             on_registered(g, ready, version)
      PROVE  ReplyInv'
  BY <1>1, <1>b, <1>d DEF on_registered, send_follower_initialize
<1>2. ASSUME NEW g \in Gens, on_leader_ready(g) PROVE ReplyInv'
  BY <1>2, <1>b, <1>d DEF on_leader_ready, send_follower_initialize
<1>3. ASSUME NEW g \in Gens, NEW i \in ReqIds, NEW about \in SessionIdIn,
             on_forwarded_result(g, i, about)
      PROVE  ReplyInv'
  <2>1. /\ outstanding[i].kind = "Forwarded" /\ outstanding' = consumed(i)
        /\ UNCHANGED next_req
    BY <1>3 DEF on_forwarded_result, Answers
  <2>2. CASE g # mux
    BY <1>3, <2>1, <2>2, <1>c DEF on_forwarded_result
  <2>3. CASE g = mux
    <3>1. replies' = [replies EXCEPT ![i] = @ + 1]
      BY <1>3, <2>3 DEF on_forwarded_result
    <3>2. replies[i] = 0 /\ ~(i > next_req)
      <4>1. PICK a \in asked : a.id = i
        BY <2>1, <1>0 DEF IdsInv
      <4> QED BY <2>1, <4>1 DEF IdsInv, ReplyInv, TypeOK, ReqIds
    <3>3. \A j \in ReqIds : IF j = i THEN replies'[j] = 1 /\ outstanding'[j] = NoWait
                            ELSE replies'[j] = replies[j] /\ outstanding'[j] = outstanding[j]
      BY <2>1, <3>1, <3>2 DEF TypeOK, consumed
    <3> QED BY <1>0, <2>1, <3>2, <3>3 DEF ReplyInv
  <2> QED BY <2>2, <2>3
<1>4. ASSUME NEW g \in Gens, NEW i \in ReqIds, NEW error \in BOOLEAN,
             on_initialize_result(g, i, error)
      PROVE  ReplyInv'
  <2>0. UNCHANGED replies
    BY <1>4 DEF on_initialize_result
  <2>1. \/ after_follower_initialize(g, i)
        \/ outstanding' = consumed(i) /\ UNCHANGED next_req
    BY <1>4 DEF on_initialize_result
  <2>2. CASE /\ after_follower_initialize(g, i) /\ stage = "WaitInitialize"
             /\ {s \in Sessions : watchers[s] # {}} # {}
    <3>1. PICK watched, ids : \E n \in Nat : LoadsSent(g, i, watched, n, ids)
      BY <2>2, LoadsFresh
    <3>2. PICK n \in Nat : LoadsSent(g, i, watched, n, ids)
      BY <3>1
    <3>3. next_req \in Nat /\ next_req' = next_req + n
      BY <3>2 DEF LoadsSent, TypeOK
    <3>4. \A j \in ReqIds : outstanding'[j] \in {outstanding[j], HubLoad, NoWait}
      BY <3>2 DEF LoadsSent, consumed, TypeOK
    <3> QED BY <2>0, <3>3, <3>4, <1>0, <1>a
  <2>3. CASE /\ after_follower_initialize(g, i)
             /\ ~ /\ stage = "WaitInitialize"
                  /\ {s \in Sessions : watchers[s] # {}} # {}
    <3>1. outstanding' = consumed(i) /\ UNCHANGED next_req
      BY <2>3 DEF after_follower_initialize
    <3> QED BY <2>0, <3>1, <1>c
  <2> QED BY <2>0, <2>1, <2>2, <2>3, <1>c
<1>5. ASSUME NEW g \in Gens, NEW i \in ReqIds, on_load_result(g, i)
      PROVE  ReplyInv'
  BY <1>5, <1>c DEF on_load_result
<1>6. ASSUME NEW s \in Sessions, NEW interaction \in BOOLEAN,
             on_reverse_request(s, interaction)
      PROVE  ReplyInv'
  <2>1. /\ next_req' = next_req + 1 /\ next_req \in Nat
        /\ UNCHANGED <<replies, outstanding>>
    BY <1>6 DEF on_reverse_request, alloc_reqs, TypeOK
  <2> QED BY <2>1, <1>a
<1>7. ASSUME NEW p \in Phones, NEW o \in Origins, NEW method, NEW about,
             forward_request(p, o, method, about)
      PROVE  ReplyInv'
  BY <1>7, <1>b, <1>d, ForwardSends
<1>8. ASSUME NEW p \in Phones, PhoneText(p) \/ on_phone_eof(p) PROVE ReplyInv'
  BY <1>8, <1>d, <1>7 DEF PhoneText, on_phone_eof, answer_initialize,
    on_load_request, on_close_request, on_other_request, on_phone_reply
<1>9. ASSUME NEW g \in Gens, on_home_eof(g) PROVE ReplyInv'
  BY <1>9, <1>d DEF on_home_eof
<1>10. CASE on_accepted \/ on_deadline \/ on_phone_hello \/ shutdown \/ UNCHANGED vars
  BY <1>10, <1>d DEF on_accepted, on_deadline, on_phone_hello, shutdown, vars
<1> QED
  BY <1>1, <1>2, <1>3, <1>4, <1>5, <1>6, <1>8, <1>9, <1>10 DEF Next, HomeFrame

(* A request that waits was never replied to.                              *)
LEMMA ReplyAlways == Spec => []ReplyInv
<1>1. Init => ReplyInv
  BY DEF Init, ReplyInv, NoWait
<1> QED BY <1>1, TypeCorrect, IdsAlways, ReplyStep, PTL DEF Spec

(* Each request of a phone is answered to it at most once, though the home *)
(* may repeat an answer, and answer on an old link after a hand-over.      *)
THEOREM AtMostOneReply == Spec => []OneReply
<1>1. ReplyInv => OneReply
  BY DEF ReplyInv, OneReply
<1> QED BY <1>1, ReplyAlways, PTL

-----------------------------------------------------------------------------
(* What a link has said before it is asked.                                *)

(* One handler asks nothing of a link whose leader is not ready.           *)
LEMMA ReadyStep == TypeOK /\ GensInv /\ ReadyInv /\ [Next]_vars => ReadyInv'
<1> SUFFICES ASSUME TypeOK, GensInv, ReadyInv, [Next]_vars PROVE ReadyInv'
  OBVIOUS
<1> USE DEF homeVars, tableVars, phoneVars, requestVars, reverseVars
<1> DEFINE Up(g) == {"Registered", "Ready"} \subseteq heard[g]
<1>0. ASSUME NEW g \in Gens, NEW what, Hear(g, what)
      PROVE  /\ \A h \in Gens : heard[h] \subseteq heard'[h]
             /\ what \subseteq heard'[g]
  BY <1>0 DEF Hear, TypeOK
<1>a. \A a \in asked : a.gen \in Gens /\ Up(a.gen)
  BY DEF ReadyInv, TypeOK, Asks
<1>b. ASSUME UNCHANGED <<mux, cand, stage, asked, heard>> PROVE ReadyInv'
  BY <1>b DEF ReadyInv
<1>c. ASSUME fail_incoming, UNCHANGED asked,
             \A h \in Gens : heard[h] \subseteq heard'[h]
      PROVE  ReadyInv'
  BY <1>a, <1>c DEF ReadyInv, fail_incoming, TypeOK
<1>d. ASSUME finish_successor, UNCHANGED <<asked, heard>>, cand # None,
             stage \in {"WaitInitialize", "WaitLoads"}
      PROVE  ReadyInv'
  BY <1>d DEF ReadyInv, finish_successor
<1>e. ASSUME NEW g \in Gens, NEW method, NEW about, NEW wait,
             send_request(g, method, about, wait), UNCHANGED <<mux, cand>>,
             \A h \in Gens : heard[h] \subseteq heard'[h],
             {"Registered", "Ready"} \subseteq heard'[g],
             stage' = stage \/ (g = cand /\ stage' = "WaitInitialize")
      PROVE  ReadyInv'
  <2>1. asked' = asked \cup {Ask(g, next_req + 1, method, about, wait)}
    BY <1>e DEF send_request
  <2>2. \A a \in asked' : {"Registered", "Ready"} \subseteq heard'[a.gen]
    BY <1>a, <1>e, <2>1 DEF Ask
  <2>3. stage = "WaitReady" => "Registered" \in heard[cand] /\ cand \in Gens
    BY DEF ReadyInv, GensInv, TypeOK
  <2>4. stage \in {"WaitInitialize", "WaitLoads"} => Up(cand) /\ cand \in Gens
    BY DEF ReadyInv, GensInv, TypeOK
  <2>5. mux # None => Up(mux) /\ mux \in Gens
    BY DEF ReadyInv, TypeOK
  <2> QED BY <1>e, <2>2, <2>3, <2>4, <2>5 DEF ReadyInv
<1>1. CASE on_accepted
  BY <1>1 DEF on_accepted, ReadyInv
<1>2. ASSUME NEW g \in Gens, NEW ready \in BOOLEAN, NEW version \in Versions,
             on_registered(g, ready, version)
      PROVE  ReadyInv'
  <2>0. /\ \A h \in Gens : heard[h] \subseteq heard'[h]
        /\ g = cand
    BY <1>2, <1>0 DEF on_registered
  <2>1. CASE version # LEADER_PROTOCOL_VERSION
    BY <1>2, <2>0, <2>1, <1>c DEF on_registered
  <2>2. CASE version = LEADER_PROTOCOL_VERSION /\ stage = "WaitRegistered" /\ ready
    <3>1. {"Registered", "Ready"} \subseteq heard'[g]
      BY <1>2, <2>2, <1>0 DEF on_registered
    <3> QED BY <1>2, <2>0, <2>2, <3>1, <1>e
            DEF on_registered, send_follower_initialize
  <2>3. CASE version = LEADER_PROTOCOL_VERSION /\ stage = "WaitRegistered" /\ ~ready
    <3>1. "Registered" \in heard'[cand]
      BY <1>2, <2>0, <2>3, <1>0 DEF on_registered
    <3>2. stage' = "WaitReady" /\ UNCHANGED <<mux, cand, asked>>
      BY <1>2, <2>3 DEF on_registered
    <3> QED BY <2>0, <3>1, <3>2, <1>a DEF ReadyInv, TypeOK
  <2>4. CASE version = LEADER_PROTOCOL_VERSION /\ stage # "WaitRegistered"
    <3>1. UNCHANGED <<mux, cand, stage, asked>>
      BY <1>2, <2>4 DEF on_registered
    <3> QED BY <2>0, <3>1, <1>a DEF ReadyInv, TypeOK
  <2> QED BY <2>1, <2>2, <2>3, <2>4
<1>3. ASSUME NEW g \in Gens, on_leader_ready(g) PROVE ReadyInv'
  <2>0. /\ \A h \in Gens : heard[h] \subseteq heard'[h]
        /\ "Ready" \in heard'[g] /\ g = cand
    BY <1>3, <1>0 DEF on_leader_ready
  <2>1. CASE stage = "WaitReady"
    <3>1. "Registered" \in heard'[g]
      BY <2>0, <2>1 DEF ReadyInv
    <3> QED BY <1>3, <2>0, <2>1, <3>1, <1>e
            DEF on_leader_ready, send_follower_initialize
  <2>2. CASE stage # "WaitReady"
    <3>1. UNCHANGED <<mux, cand, stage, asked>>
      BY <1>3, <2>2 DEF on_leader_ready
    <3> QED BY <2>0, <3>1, <1>a DEF ReadyInv, TypeOK
  <2> QED BY <2>1, <2>2
<1>4. ASSUME NEW g \in Gens, NEW i \in ReqIds, NEW error \in BOOLEAN,
             on_initialize_result(g, i, error)
      PROVE  ReadyInv'
  <2>0. UNCHANGED heard /\ Known(g)
    BY <1>4 DEF on_initialize_result, Answers
  <2>1. CASE g # cand
    BY <1>4, <2>0, <2>1, <1>b DEF on_initialize_result
  <2>2. CASE g = cand /\ error
    BY <1>4, <2>0, <2>2, <1>c DEF on_initialize_result
  <2>3. CASE g = cand /\ ~error
    <3>1. after_follower_initialize(g, i) /\ cand # None
      BY <1>4, <2>0, <2>3 DEF on_initialize_result, Known
    <3>2. CASE stage # "WaitInitialize"
      BY <2>0, <3>1, <3>2, <1>b DEF after_follower_initialize
    <3>3. CASE stage = "WaitInitialize" /\ {s \in Sessions : watchers[s] # {}} = {}
      BY <2>0, <3>1, <3>3, <1>d DEF after_follower_initialize
    <3>4. CASE stage = "WaitInitialize" /\ {s \in Sessions : watchers[s] # {}} # {}
      <4>1. PICK watched, ids : \E n \in Nat : LoadsSent(g, i, watched, n, ids)
        BY <3>1, <3>4, LoadsFresh
      <4>2. /\ asked' = asked \cup {Ask(g, ids[s], "session/load", {s}, HubLoad) : s \in watched}
            /\ stage' = "WaitLoads" /\ UNCHANGED <<mux, cand>>
        BY <4>1 DEF LoadsSent
      <4>3. \A a \in asked' : a \in asked \/ a.gen = g
        BY <4>2 DEF Ask
      <4> QED BY <2>0, <2>3, <3>4, <4>2, <4>3 DEF ReadyInv
    <3> QED BY <3>2, <3>3, <3>4
  <2> QED BY <2>1, <2>2, <2>3
<1>5. ASSUME NEW g \in Gens, NEW i \in ReqIds, on_load_result(g, i)
      PROVE  ReadyInv'
  <2>1. Known(g) /\ UNCHANGED <<asked, heard>>
    BY <1>5 DEF on_load_result, Answers
  <2>2. \/ cand # None /\ stage = "WaitLoads" /\ finish_successor
        \/ UNCHANGED <<mux, cand, stage>>
    BY <1>5, <2>1 DEF on_load_result, after_load_result, Known
  <2> QED BY <2>1, <2>2, <1>b, <1>d
<1>6. ASSUME NEW g \in Gens, on_home_eof(g) PROVE ReadyInv'
  <2>0. \A h \in Gens : heard[h] \subseteq heard'[h]
    BY <1>6, <1>0 DEF on_home_eof
  <2>1. CASE g = mux
    <3>1. mux' = None /\ UNCHANGED <<cand, stage, asked>>
      BY <1>6, <2>1 DEF on_home_eof
    <3>2. stage # "None" => cand \in Gens
      BY DEF GensInv, TypeOK
    <3> QED BY <2>0, <3>1, <3>2, <1>a DEF ReadyInv
  <2>2. CASE g # mux
    BY <1>6, <2>0, <2>2, <1>c DEF on_home_eof
  <2> QED BY <2>1, <2>2
<1>7. CASE on_deadline
  BY <1>7, <1>c DEF on_deadline
<1>8. CASE shutdown
  BY <1>8 DEF shutdown, ReadyInv
<1>9. ASSUME NEW p \in Phones, NEW o \in Origins, NEW method, NEW about,
             forward_request(p, o, method, about), UNCHANGED <<mux, cand, stage, heard>>
      PROVE  ReadyInv'
  <2>1. ~Away => mux \in Gens /\ Up(mux)
    BY DEF Away, ReadyInv, TypeOK
  <2> QED BY <1>9, <2>1, <1>b, <1>e, ForwardSends
<1>10. ASSUME NEW p \in Phones, PhoneText(p) \/ on_phone_eof(p) PROVE ReadyInv'
  BY <1>10, <1>b, <1>9 DEF PhoneText, on_phone_eof, answer_initialize,
    on_load_request, on_close_request, on_other_request, on_phone_reply
<1>11. ASSUME NEW g \in Gens, NEW i \in ReqIds, NEW about \in SessionIdIn,
              on_forwarded_result(g, i, about)
       PROVE  ReadyInv'
  BY <1>11, <1>b DEF on_forwarded_result
<1>12. ASSUME NEW s \in Sessions, NEW interaction \in BOOLEAN,
              on_reverse_request(s, interaction)
       PROVE  ReadyInv'
  BY <1>12, <1>b DEF on_reverse_request
<1>13. CASE on_phone_hello \/ UNCHANGED vars
  BY <1>13, <1>b DEF on_phone_hello, vars
<1> QED
  BY <1>1, <1>2, <1>3, <1>4, <1>5, <1>6, <1>7, <1>8, <1>10, <1>11, <1>12, <1>13
  DEF Next, HomeFrame

(* No request ever goes on a link before its leader registered with our    *)
(* version and said it was ready, in whichever order and however often the *)
(* link repeats the two.                                                   *)
THEOREM NoAcpEverBeforeReady == Spec => []NoAcpBeforeReady
<1>1. Init => ReadyInv
  BY DEF Init, ReadyInv
<1>2. ReadyInv => NoAcpBeforeReady
  BY DEF ReadyInv, NoAcpBeforeReady
<1> QED BY <1>1, <1>2, TypeCorrect, GensAlways, ReadyStep, PTL DEF Spec

-----------------------------------------------------------------------------
(* The handshake of a link.                                                *)

(* One handler serves phones from no link that has an initialize or a load *)
(* to answer.                                                              *)
LEMMA HandshakeStep ==
  TypeOK /\ GensInv /\ IdsInv /\ HandshakeInv /\ [Next]_vars => HandshakeInv'
<1> SUFFICES ASSUME TypeOK, GensInv, IdsInv, HandshakeInv, [Next]_vars
             PROVE  HandshakeInv'
  OBVIOUS
<1> USE DEF homeVars, tableVars, phoneVars, requestVars, reverseVars
<1>0. /\ next_gen \in Nat /\ next_req \in Nat
      /\ \A a \in asked : /\ a.id \in ReqIds /\ a.id <= next_req
                          /\ a.gen \in Nat /\ a.gen <= next_gen
  BY DEF TypeOK, Asks, Gens, IdsInv, HandshakeInv
<1>1. HubInitialize # HubLoad
  BY DEF HubInitialize, HubLoad
<1>a. ASSUME UNCHANGED <<asked, next_gen>>, mux' \in {mux, None},
             \A j \in ReqIds : outstanding'[j] \in {outstanding[j], NoWait},
             UNCHANGED <<cand, stage, pending>> \/ stage' = "None"
      PROVE  HandshakeInv'
  <2>1. MuxHandshakeDone'
    BY <1>0, <1>a DEF HandshakeInv, MuxHandshakeDone
  <2>2. CASE UNCHANGED <<cand, stage, pending>>
    BY <1>0, <1>a, <2>1, <2>2 DEF HandshakeInv
  <2>3. CASE stage' = "None"
    BY <1>a, <2>1, <2>3 DEF HandshakeInv
  <2> QED BY <1>a, <2>2, <2>3
<1>b. ASSUME NEW i \in ReqIds, outstanding' = consumed(i)
      PROVE  \A j \in ReqIds : outstanding'[j] \in {outstanding[j], NoWait}
  BY <1>b DEF consumed, TypeOK
<1>c. ASSUME NEW g, NEW method, NEW about, NEW wait,
             send_request(g, method, about, wait)
      PROVE  /\ asked' = asked \cup {Ask(g, next_req + 1, method, about, wait)}
             /\ \A a \in asked : outstanding'[a.id] = outstanding[a.id]
  BY <1>c, <1>0 DEF send_request, TypeOK
<1>d. ASSUME NEW g \in Gens, g = cand, stage \in {"WaitRegistered", "WaitReady"},
             send_request(g, "initialize", {}, HubInitialize),
             stage' = "WaitInitialize", UNCHANGED <<mux, cand, pending, next_gen>>
      PROVE  HandshakeInv'
  <2> DEFINE new == Ask(g, next_req + 1, "initialize", {}, HubInitialize)
  <2>1. /\ asked' = asked \cup {new}
        /\ \A a \in asked : outstanding'[a.id] = outstanding[a.id]
    BY <1>c, <1>d
  <2>2. new.gen = cand /\ new.wait = HubInitialize /\ cand <= next_gen /\ mux # cand
    BY <1>d DEF Ask, GensInv, TypeOK, Gens, None
  <2> HIDE DEF new
  <2>3. \A a \in asked' : a.gen <= next_gen'
    BY <1>0, <1>d, <2>1, <2>2
  <2>4. \A b \in asked' : b.gen = cand => b = new
    BY <1>d, <2>1, <2>2 DEF HandshakeInv
  <2>5. MuxHandshakeDone'
    BY <1>d, <2>1, <2>2 DEF HandshakeInv, MuxHandshakeDone
  <2> QED BY <1>d, <2>1, <2>2, <2>3, <2>4, <2>5 DEF HandshakeInv
<1>e. ASSUME finish_successor, UNCHANGED <<asked, next_gen>>,
             \E a \in asked : a.gen = cand /\ a.wait = HubInitialize,
             \A a \in asked : a.gen = cand => outstanding'[a.id] = NoWait
      PROVE  HandshakeInv'
  BY <1>e, <1>0 DEF finish_successor, HandshakeInv, MuxHandshakeDone
<1>2. CASE on_accepted
  <2>1. /\ cand' = next_gen + 1 /\ next_gen' = next_gen + 1
        /\ stage' = "WaitRegistered" /\ UNCHANGED <<mux, asked, outstanding>>
    BY <1>2 DEF on_accepted
  <2>2. \A a \in asked : a.gen <= next_gen' /\ a.gen # cand'
    BY <1>0, <2>1
  <2>3. MuxHandshakeDone'
    BY <2>1 DEF HandshakeInv, MuxHandshakeDone
  <2> QED BY <2>1, <2>2, <2>3 DEF HandshakeInv
<1>3. ASSUME NEW g \in Gens, NEW ready \in BOOLEAN, NEW version \in Versions,
             on_registered(g, ready, version)
      PROVE  HandshakeInv'
  <2>1. CASE version # LEADER_PROTOCOL_VERSION
    BY <1>3, <2>1, <1>a DEF on_registered, fail_incoming
  <2>2. CASE version = LEADER_PROTOCOL_VERSION /\ stage = "WaitRegistered" /\ ready
    BY <1>3, <2>2, <1>d DEF on_registered, send_follower_initialize
  <2>3. CASE version = LEADER_PROTOCOL_VERSION /\ stage = "WaitRegistered" /\ ~ready
    <3>1. /\ stage' = "WaitReady"
          /\ UNCHANGED <<mux, cand, pending, asked, outstanding, next_gen>>
      BY <1>3, <2>3 DEF on_registered
    <3> QED BY <2>3, <3>1 DEF HandshakeInv, MuxHandshakeDone
  <2>4. CASE version = LEADER_PROTOCOL_VERSION /\ stage # "WaitRegistered"
    BY <1>3, <2>4, <1>a DEF on_registered
  <2> QED BY <2>1, <2>2, <2>3, <2>4
<1>4. ASSUME NEW g \in Gens, on_leader_ready(g) PROVE HandshakeInv'
  <2>1. CASE stage = "WaitReady"
    BY <1>4, <2>1, <1>d DEF on_leader_ready, send_follower_initialize
  <2>2. CASE stage # "WaitReady"
    BY <1>4, <2>2, <1>a DEF on_leader_ready
  <2> QED BY <2>1, <2>2
<1>5. ASSUME NEW g \in Gens, NEW i \in ReqIds, NEW about \in SessionIdIn,
             on_forwarded_result(g, i, about)
      PROVE  HandshakeInv'
  BY <1>5, <1>a, <1>b DEF on_forwarded_result
<1>6. ASSUME NEW g \in Gens, NEW i \in ReqIds, NEW error \in BOOLEAN,
             on_initialize_result(g, i, error)
      PROVE  HandshakeInv'
  <2>0. UNCHANGED next_gen /\ \E a \in asked : a.gen = g /\ a.id = i
    BY <1>6 DEF on_initialize_result, Answers
  <2>1. CASE g # cand
    BY <1>6, <2>1, <1>a, <1>b DEF on_initialize_result
  <2>2. CASE g = cand /\ error
    BY <1>6, <2>2, <1>a, <1>b DEF on_initialize_result, fail_incoming
  <2>3. CASE g = cand /\ ~error /\ stage # "WaitInitialize"
    BY <1>6, <2>3, <1>a, <1>b DEF on_initialize_result, after_follower_initialize
  <2>4. CASE g = cand /\ ~error /\ stage = "WaitInitialize"
    <3>1. after_follower_initialize(g, i)
      BY <1>6, <2>4 DEF on_initialize_result
    <3>2. PICK first \in asked : /\ first.gen = cand /\ first.wait = HubInitialize
                                 /\ first.id = i
                                 /\ \A b \in asked : b.gen = cand => b = first
      BY <2>0, <2>4 DEF HandshakeInv
    <3>3. CASE {s \in Sessions : watchers[s] # {}} = {}
      <4>1. /\ finish_successor /\ outstanding' = consumed(i) /\ UNCHANGED asked
        BY <2>4, <3>1, <3>3 DEF after_follower_initialize
      <4>2. outstanding'[i] = NoWait
        BY <4>1 DEF consumed, TypeOK
      <4> QED BY <2>0, <3>2, <4>1, <4>2, <1>e
    <3>4. CASE {s \in Sessions : watchers[s] # {}} # {}
      <4>1. PICK watched, ids : \E n \in Nat : LoadsSent(g, i, watched, n, ids)
        BY <2>4, <3>1, <3>4, LoadsFresh
      <4>2. PICK n \in Nat : LoadsSent(g, i, watched, n, ids)
        BY <4>1
      <4> DEFINE new(s) == Ask(g, ids[s], "session/load", {s}, HubLoad)
      <4>3. /\ asked' = asked \cup {new(s) : s \in watched}
            /\ stage' = "WaitLoads" /\ UNCHANGED <<mux, cand>>
            /\ \A s \in watched : s \in Sessions /\ pending'[s] = ids[s]
        BY <4>2 DEF LoadsSent
      <4>4. \A s : new(s).gen = g /\ new(s).id = ids[s] /\ new(s).wait = HubLoad
        BY DEF Ask
      <4> HIDE DEF new
      <4>5. \A a \in asked : outstanding'[a.id] \in {outstanding[a.id], NoWait}
        BY <1>0, <4>2 DEF LoadsSent, consumed, TypeOK, ReqIds
      <4>6. outstanding'[i] = NoWait
        BY <1>0, <3>2, <4>2 DEF LoadsSent, consumed, TypeOK, ReqIds
      <4>7. \A a \in asked' : a.gen <= next_gen'
        BY <1>0, <2>0, <2>4, <4>3, <4>4 DEF GensInv, TypeOK, Gens, None
      <4>8. \A a \in asked' : a.gen = cand =>
              \/ a.wait \in {HubInitialize, HubLoad} /\ outstanding'[a.id] = NoWait
              \/ a.wait = HubLoad /\ \E s \in Sessions : pending'[s] = a.id
        BY <3>2, <4>3, <4>4, <4>6
      <4>9. MuxHandshakeDone'
        <5>1. g # mux
          BY <2>4 DEF GensInv, TypeOK, Gens, None
        <5> QED BY <4>3, <4>4, <4>5, <5>1 DEF HandshakeInv, MuxHandshakeDone
      <4> QED BY <3>2, <4>3, <4>7, <4>8, <4>9 DEF HandshakeInv
    <3> QED BY <3>3, <3>4
  <2> QED BY <2>1, <2>2, <2>3, <2>4
<1>7. ASSUME NEW g \in Gens, NEW i \in ReqIds, on_load_result(g, i)
      PROVE  HandshakeInv'
  <2>0. UNCHANGED <<next_gen, asked>> /\ outstanding' = consumed(i)
    BY <1>7 DEF on_load_result
  <2>1. CASE g # cand \/ stage # "WaitLoads"
    BY <1>7, <2>0, <2>1, <1>a, <1>b DEF on_load_result, after_load_result
  <2>2. CASE g = cand /\ stage = "WaitLoads"
    <3> DEFINE left == [s \in Sessions |-> IF pending[s] = i THEN None ELSE pending[s]]
    <3>1. after_load_result(i)
      BY <1>7, <2>2 DEF on_load_result
    <3>2. outstanding'[i] = NoWait /\ \A j \in ReqIds : outstanding'[j] \in {outstanding[j], NoWait}
      BY <2>0 DEF consumed, TypeOK
    <3>3. ASSUME NEW a \in asked, a.gen = cand
          PROVE  /\ a.wait \in {HubInitialize, HubLoad}
                 /\ \/ outstanding'[a.id] = NoWait
                    \/ a.wait = HubLoad /\ \E s \in Sessions : left[s] = a.id
      <4>1. CASE outstanding[a.id] = NoWait
        BY <1>0, <2>2, <3>2, <3>3, <4>1 DEF HandshakeInv
      <4>2. CASE outstanding[a.id] # NoWait
        BY <1>0, <2>2, <3>2, <3>3, <4>2 DEF HandshakeInv
      <4> QED BY <4>1, <4>2
    <3>4. CASE left = NoLoads
      <4>1. finish_successor
        BY <2>2, <3>1, <3>4 DEF after_load_result
      <4>2. \A s \in Sessions : left[s] = None
        BY <3>4 DEF NoLoads
      <4>3. \A a \in asked : a.gen = cand => outstanding'[a.id] = NoWait
        BY <1>0, <3>3, <4>2 DEF None, ReqIds
      <4>4. \E a \in asked : a.gen = cand /\ a.wait = HubInitialize
        BY <2>2 DEF HandshakeInv
      <4> QED BY <2>0, <4>1, <4>3, <4>4, <1>e
    <3>5. CASE left # NoLoads
      <4>1. pending' = left /\ UNCHANGED <<mux, cand, stage>>
        BY <2>2, <3>1, <3>5 DEF after_load_result
      <4>2. MuxHandshakeDone'
        BY <1>0, <2>0, <3>2, <4>1 DEF HandshakeInv, MuxHandshakeDone
      <4> QED BY <2>0, <2>2, <3>3, <4>1, <4>2 DEF HandshakeInv
    <3> QED BY <3>4, <3>5
  <2> QED BY <2>1, <2>2
<1>8. ASSUME NEW g \in Gens, on_home_eof(g) PROVE HandshakeInv'
  BY <1>8, <1>a DEF on_home_eof, fail_incoming
<1>9. CASE on_deadline \/ shutdown \/ on_phone_hello \/ UNCHANGED vars
  BY <1>9, <1>a DEF on_deadline, fail_incoming, shutdown, on_phone_hello, vars
<1>10. ASSUME NEW s \in Sessions, NEW interaction \in BOOLEAN,
              on_reverse_request(s, interaction)
       PROVE  HandshakeInv'
  BY <1>10, <1>a DEF on_reverse_request
<1>11. ASSUME NEW p \in Phones, NEW o \in Origins, NEW method, NEW about,
              forward_request(p, o, method, about),
              UNCHANGED <<mux, cand, stage, pending, next_gen>>
       PROVE  HandshakeInv'
  <2>1. CASE Away
    BY <1>11, <2>1, <1>a, ForwardSends
  <2>2. CASE ~Away
    <3> DEFINE new == Ask(mux, next_req + 1, method, about, Forwarded(p, o))
    <3>1. /\ asked' = asked \cup {new}
          /\ \A a \in asked : outstanding'[a.id] = outstanding[a.id]
      BY <1>11, <2>2, <1>c, ForwardSends
    <3>2. new.gen = mux /\ new.wait \notin {HubInitialize, HubLoad}
      BY DEF Ask, Forwarded, HubInitialize, HubLoad
    <3>3. mux <= next_gen /\ mux # None /\ (stage # "None" => mux # cand)
      BY <2>2 DEF Away, GensInv, TypeOK, Gens, None
    <3> HIDE DEF new
    <3>4. MuxHandshakeDone'
      BY <1>11, <3>1, <3>2 DEF HandshakeInv, MuxHandshakeDone
    <3>5. \A a \in asked' : a.gen <= next_gen'
      BY <1>0, <1>11, <3>1, <3>2, <3>3
    <3> QED BY <1>11, <3>1, <3>2, <3>3, <3>4, <3>5 DEF HandshakeInv
  <2> QED BY <2>1, <2>2
<1>12. ASSUME NEW p \in Phones, PhoneText(p) \/ on_phone_eof(p) PROVE HandshakeInv'
  BY <1>12, <1>a, <1>11 DEF PhoneText, on_phone_eof, answer_initialize,
    on_load_request, on_close_request, on_other_request, on_phone_reply
<1> QED
  BY <1>2, <1>3, <1>4, <1>5, <1>6, <1>7, <1>8, <1>9, <1>10, <1>12
  DEF Next, HomeFrame

(* A link's handshake is in step with its stage.                           *)
LEMMA HandshakeAlways == Spec => []HandshakeInv
<1>1. Init => HandshakeInv
  BY DEF Init, HandshakeInv, MuxHandshakeDone
<1> QED BY <1>1, TypeCorrect, GensAlways, IdsAlways, HandshakeStep, PTL DEF Spec

(* A link that serves phones has had its initialize and all the loads sent *)
(* on it answered, though answers come in any order, are repeated, or      *)
(* belong to a link that was dropped.                                      *)
THEOREM MuxHandshakeAlwaysDone == Spec => []MuxHandshakeDone
<1>1. HandshakeInv => MuxHandshakeDone
  BY DEF HandshakeInv
<1> QED BY <1>1, HandshakeAlways, PTL

-----------------------------------------------------------------------------
(* Who gives up the serving link, and to whom.                             *)

(* The serving link changes in three ways: the hub stops, the link ended,  *)
(* or a candidate whose handshake is over takes its place.                 *)
LEMMA MuxChanges ==
  ASSUME TypeOK, [Next]_vars, mux' # mux
  PROVE  \/ stopped'
         \/ mux # None /\ "Ended" \in heard'[mux]
         \/ /\ finish_successor /\ cand # None
            /\ stage \in {"WaitInitialize", "WaitLoads"}
            /\ UNCHANGED asked
<1> USE DEF homeVars, tableVars, phoneVars, requestVars, reverseVars
<1> DEFINE Takes == /\ finish_successor /\ cand # None
                    /\ stage \in {"WaitInitialize", "WaitLoads"}
                    /\ UNCHANGED asked
<1>1. ASSUME NEW g \in Gens, on_home_eof(g)
      PROVE  mux # None /\ "Ended" \in heard'[mux]
  BY <1>1 DEF on_home_eof, fail_incoming, Hear, Known, TypeOK
<1>2. ASSUME NEW g \in Gens, NEW i \in ReqIds, NEW error \in BOOLEAN,
             on_initialize_result(g, i, error)
      PROVE  Takes
  <2>1. Known(g) /\ g = cand /\ after_follower_initialize(g, i)
    BY <1>2 DEF on_initialize_result, Answers, fail_incoming
  <2> QED BY <2>1 DEF after_follower_initialize, Known
<1>3. ASSUME NEW g \in Gens, NEW i \in ReqIds, on_load_result(g, i)
      PROVE  Takes
  <2>1. Known(g) /\ g = cand /\ after_load_result(i) /\ UNCHANGED asked
    BY <1>3 DEF on_load_result, Answers
  <2> QED BY <2>1 DEF after_load_result, Known
<1>4. CASE shutdown
  BY <1>4 DEF shutdown
<1>5. ~(on_accepted \/ on_deadline \/ on_phone_hello \/ UNCHANGED vars)
  BY DEF on_accepted, on_deadline, fail_incoming, on_phone_hello, vars
<1>6. \A p \in Phones : ~(PhoneText(p) \/ on_phone_eof(p))
  BY DEF PhoneText, on_phone_eof, answer_initialize, on_load_request,
    on_close_request, on_other_request, on_phone_reply
<1>7. ASSUME NEW g \in Gens, HomeFrame(g)
      PROVE  \/ \E i \in ReqIds, error \in BOOLEAN : on_initialize_result(g, i, error)
             \/ \E i \in ReqIds : on_load_result(g, i)
  BY <1>7 DEF HomeFrame, on_registered, fail_incoming, on_leader_ready,
    on_forwarded_result, on_reverse_request
<1> QED BY <1>1, <1>2, <1>3, <1>4, <1>5, <1>6, <1>7 DEF Next

(* A step that takes the serving link away.                                *)
GivenUp ==
  mux # None /\ mux' # mux =>
    \/ stopped'
    \/ "Ended" \in heard'[mux]
    \/ /\ mux' = cand
       /\ \A a \in asked : a.gen = cand => outstanding'[a.id] = NoWait

(* The phones lose a serving link only because it ended, because the hub   *)
(* stops, or to a candidate with nothing left to answer: no deadline,      *)
(* refusal or failure of a candidate costs them their home.                *)
THEOREM IncumbentAlwaysStable == Spec => IncumbentStable
<1>1. /\ TypeOK /\ GensInv /\ IdsInv /\ HandshakeInv /\ HandshakeInv'
      /\ [Next]_vars
      => [GivenUp]_vars
  <2> SUFFICES ASSUME TypeOK, HandshakeInv, HandshakeInv', [Next]_vars,
                      mux # None, mux' # mux, ~stopped', "Ended" \notin heard'[mux]
               PROVE  /\ mux' = cand
                      /\ \A a \in asked : a.gen = cand => outstanding'[a.id] = NoWait
    BY DEF GivenUp
  <2>1. /\ mux' = cand /\ cand # None /\ UNCHANGED asked
        /\ stage \in {"WaitInitialize", "WaitLoads"}
    BY MuxChanges DEF finish_successor
  <2>2. \A a \in asked : a.gen = cand => a.wait \in {HubInitialize, HubLoad}
    BY <2>1 DEF HandshakeInv
  <2> QED BY <2>1, <2>2 DEF HandshakeInv, MuxHandshakeDone
<1> QED
  BY <1>1, TypeCorrect, GensAlways, IdsAlways, HandshakeAlways, PTL
  DEF Spec, IncumbentStable, GivenUp

-----------------------------------------------------------------------------
(* The hub implements HomeService.                                         *)

(* What the refinement needs of a state of the hub.                        *)
HubInv ==
  /\ TypeOK /\ PhonesCounted /\ NoticeInv
  /\ GensInv /\ IdsInv /\ ReplyInv /\ HandshakeInv

(* The hub's invariants hold together.                                     *)
LEMMA HubInvAlways == Spec => []HubInv
<1>1. Spec => []NoticeInv
  <2>1. Init => NoticeInv
    BY DEF Init, NoticeInv
  <2> QED BY <2>1, TypeCorrect, PhonesAlwaysCounted, AwayNoticeStep, PTL DEF Spec
<1> QED
  BY <1>1, TypeCorrect, PhonesAlwaysCounted, GensAlways, IdsAlways, ReplyAlways,
     HandshakeAlways, PTL
  DEF HubInv

-----------------------------------------------------------------------------
(* The status of one request.                                              *)

(* The requests of phones among the asks A under id i.                     *)
ForwardedIn(A, i) == {a \in A : a.id = i /\ a.wait.kind = "Forwarded"}

(* requestBar at one id, as a function of what it depends on: the asks,    *)
(* the replies r and the wait w under the id, and the link m that serves.  *)
Status(A, i, r, m, w) ==
  CASE ForwardedIn(A, i) = {} -> "None"
    [] ForwardedIn(A, i) # {} /\ r > 0 -> "Answered"
    [] ForwardedIn(A, i) # {} /\ r = 0 ->
         IF \E a \in ForwardedIn(A, i) : a.gen = m /\ w = a.wait
         THEN "Waiting" ELSE "Lost"

(* requestBar is Status at every id, before and after a step.              *)
LEMMA RequestStatus ==
  /\ requestBar = [i \in ReqIds |-> Status(asked, i, replies[i], mux, outstanding[i])]
  /\ requestBar' = [i \in ReqIds |-> Status(asked', i, replies'[i], mux', outstanding'[i])]
BY DEF requestBar, Status, ForwardedIn

(* The four values of a status.                                            *)
LEMMA StatusCases ==
  ASSUME NEW A, NEW i, NEW r \in Nat, NEW m, NEW w
  PROVE  /\ ForwardedIn(A, i) = {} => Status(A, i, r, m, w) = "None"
         /\ ForwardedIn(A, i) # {} /\ r > 0 => Status(A, i, r, m, w) = "Answered"
         /\ ForwardedIn(A, i) # {} /\ r = 0
              /\ (\E a \in ForwardedIn(A, i) : a.gen = m /\ w = a.wait)
              => Status(A, i, r, m, w) = "Waiting"
         /\ ForwardedIn(A, i) # {} /\ r = 0
              /\ ~(\E a \in ForwardedIn(A, i) : a.gen = m /\ w = a.wait)
              => Status(A, i, r, m, w) = "Lost"
<1> DEFINE F == ForwardedIn(A, i)
<1> HIDE DEF F
<1>1. Status(A, i, r, m, w) =
        CASE F = {} -> "None"
          [] F # {} /\ r > 0 -> "Answered"
          [] F # {} /\ r = 0 ->
               IF \E a \in F : a.gen = m /\ w = a.wait THEN "Waiting" ELSE "Lost"
  BY DEF Status, F
<1> QED BY <1>1 DEF F

-----------------------------------------------------------------------------
(* What phones see.                                                        *)

Attached == {p \in Phones : phones[p] = "Ready"}

(* Every initialized phone knows whether anybody serves.                   *)
LEMMA ViewTold ==
  /\ TypeOK /\ NoticeInv => viewBar = Service!Told(Attached, mux)
  /\ TypeOK' /\ NoticeInv' => viewBar' = Service!Told(Attached', mux')
<1>1. ASSUME TypeOK, NoticeInv, NEW p \in Attached PROVE lastNote[p] = (mux = None)
  BY <1>1, Zenon DEF TypeOK, NoticeInv, Attached, Away
<1>2. ASSUME TypeOK', NoticeInv', NEW p \in Attached' PROVE lastNote'[p] = (mux' = None)
  BY <1>2, Zenon DEF TypeOK, NoticeInv, Attached, Away
<1> QED
  BY <1>1, <1>2 DEF viewBar, Attached, Service!Told, Service!Nobody, None

-----------------------------------------------------------------------------
(* What a step does to the requests.                                       *)

(* A request keeps its status when nothing about it changes, or when it is *)
(* no phone's request before and after.                                    *)
LEMMA RequestsQuiet ==
  ASSUME TypeOK, TypeOK', UNCHANGED mux,
         \A i \in ReqIds :
           \/ /\ ForwardedIn(asked', i) = ForwardedIn(asked, i)
              /\ replies'[i] = replies[i] /\ outstanding'[i] = outstanding[i]
           \/ ForwardedIn(asked', i) = {} /\ ForwardedIn(asked, i) = {}
  PROVE  UNCHANGED requestBar
<1>1. ASSUME NEW i \in ReqIds
      PROVE  Status(asked', i, replies'[i], mux', outstanding'[i])
               = Status(asked, i, replies[i], mux, outstanding[i])
  BY StatusCases DEF Status, TypeOK
<1> QED BY <1>1, RequestStatus

(* The serving link is left for one no phone's request went to: what       *)
(* waited is lost.                                                         *)
LEMMA RequestsLost ==
  ASSUME TypeOK, TypeOK', UNCHANGED <<asked, replies>>,
         \A a \in asked : a.wait.kind = "Forwarded" => a.gen # mux'
  PROVE  requestBar' = Service!Lost
<1>1. ASSUME NEW i \in ReqIds
      PROVE  requestBar'[i] = IF requestBar[i] = "Waiting" THEN "Lost"
                              ELSE requestBar[i]
  <2>0. /\ requestBar[i] = Status(asked, i, replies[i], mux, outstanding[i])
        /\ requestBar'[i] = Status(asked, i, replies[i], mux', outstanding'[i])
        /\ replies[i] \in Nat
    BY RequestStatus DEF TypeOK
  <2>1. ~\E a \in ForwardedIn(asked, i) : a.gen = mux' /\ outstanding'[i] = a.wait
    BY DEF ForwardedIn
  <2> QED BY <2>0, <2>1, StatusCases
<1> QED BY <1>1, RequestStatus DEF Service!Lost

(* A phone's request is sent.                                              *)
LEMMA RequestAsked ==
  ASSUME HubInv, TypeOK', UNCHANGED mux, mux # None,
         NEW p \in Phones, NEW o \in Origins, NEW method, NEW about,
         send_request(mux, method, about, Forwarded(p, o))
  PROVE  /\ next_req + 1 \in ReqIds
         /\ requestBar[next_req + 1] = "None"
         /\ requestBar' = [requestBar EXCEPT ![next_req + 1] = "Waiting"]
<1> DEFINE n == next_req + 1
           new == Ask(mux, n, method, about, Forwarded(p, o))
<1>1. /\ next_req \in Nat /\ n <= MaxReq /\ UNCHANGED replies
      /\ outstanding' = [outstanding EXCEPT ![n] = Forwarded(p, o)]
      /\ asked' = asked \cup {new}
  BY DEF send_request, alloc_reqs, HubInv, TypeOK
<1>2. n \in ReqIds
  BY <1>1, Bounds DEF ReqIds
<1>3. new.gen = mux /\ new.id = n /\ new.wait = Forwarded(p, o)
  BY DEF Ask
<1>4. Forwarded(p, o).kind = "Forwarded"
  BY DEF Forwarded
<1>5. \A a \in asked : a.id # n
  BY <1>1 DEF HubInv, IdsInv, TypeOK, Asks, ReqIds
<1>6. replies[n] = 0 /\ outstanding'[n] = Forwarded(p, o)
  BY <1>1, <1>2 DEF HubInv, ReplyInv, TypeOK
<1> HIDE DEF new, n
<1>7. ForwardedIn(asked, n) = {} /\ ForwardedIn(asked', n) = {new}
  BY <1>1, <1>3, <1>4, <1>5 DEF ForwardedIn
<1>8. requestBar[n] = "None" /\ requestBar'[n] = "Waiting"
  <2>1. Status(asked, n, replies[n], mux, outstanding[n]) = "None"
    BY <1>6, <1>7, StatusCases
  <2>2. Status(asked', n, replies'[n], mux', outstanding'[n]) = "Waiting"
    <3>1. \E a \in ForwardedIn(asked', n) : a.gen = mux' /\ outstanding'[n] = a.wait
      BY <1>3, <1>6, <1>7
    <3>2. ForwardedIn(asked', n) # {} /\ replies'[n] = 0
      BY <1>1, <1>6, <1>7
    <3> QED BY <3>1, <3>2, StatusCases
  <2> QED BY <1>2, <2>1, <2>2, RequestStatus
<1>9. ASSUME NEW i \in ReqIds, i # n PROVE requestBar'[i] = requestBar[i]
  <2>1. ForwardedIn(asked', i) = ForwardedIn(asked, i)
    BY <1>1, <1>3, <1>9 DEF ForwardedIn
  <2>2. outstanding'[i] = outstanding[i]
    BY <1>1, <1>9 DEF HubInv, TypeOK
  <2>3. Status(asked', i, replies'[i], mux', outstanding'[i])
          = Status(asked, i, replies[i], mux, outstanding[i])
    BY <1>1, <2>1, <2>2 DEF Status
  <2> QED BY <2>3, RequestStatus
<1> QED BY <1>2, <1>8, <1>9, RequestStatus DEF n

(* The serving link answers a phone's request.                             *)
LEMMA RequestAnswered ==
  ASSUME HubInv, TypeOK', NEW i \in ReqIds, NEW about,
         on_forwarded_result(mux, i, about)
  PROVE  /\ requestBar[i] = "Waiting"
         /\ requestBar' = [requestBar EXCEPT ![i] = "Answered"]
<1>1. /\ outstanding[i].kind = "Forwarded"
      /\ outstanding' = consumed(i) /\ replies' = [replies EXCEPT ![i] = @ + 1]
      /\ UNCHANGED <<mux, asked>>
  BY DEF on_forwarded_result, Answers, homeVars
<1>2. PICK a \in asked : a.gen = mux /\ a.id = i
  BY DEF on_forwarded_result, Answers
<1>3. a.wait = outstanding[i]
  BY <1>1, <1>2 DEF HubInv, IdsInv, NoWait
<1>4. replies[i] = 0 /\ replies'[i] = 1
  BY <1>1 DEF HubInv, ReplyInv, TypeOK
<1>5. a \in ForwardedIn(asked, i)
  BY <1>1, <1>2, <1>3 DEF ForwardedIn
<1>6. requestBar[i] = "Waiting" /\ requestBar'[i] = "Answered"
  BY <1>1, <1>2, <1>3, <1>4, <1>5, StatusCases, RequestStatus
<1>7. ASSUME NEW j \in ReqIds, j # i PROVE requestBar'[j] = requestBar[j]
  <2>1. outstanding'[j] = outstanding[j] /\ replies'[j] = replies[j]
    BY <1>1, <1>7 DEF consumed, HubInv, TypeOK
  <2> QED BY <1>1, <2>1, RequestStatus
<1> QED BY <1>6, <1>7, RequestStatus

(* An id the hub waits on for itself is no phone's.                        *)
LEMMA OwnRequest ==
  ASSUME HubInv, NEW i \in ReqIds,
         outstanding[i].kind \in {"HubInitialize", "HubLoad"}
  PROVE  ForwardedIn(asked, i) = {}
<1>1. PICK a \in asked : a.id = i /\ a.wait = outstanding[i]
  BY DEF HubInv, IdsInv, NoWait
<1> QED BY <1>1 DEF HubInv, IdsInv, ForwardedIn

(* Consuming such a wait changes no phone's request.                       *)
LEMMA OwnConsumed ==
  ASSUME HubInv, TypeOK', NEW i \in ReqIds,
         outstanding[i].kind \in {"HubInitialize", "HubLoad"},
         outstanding' = consumed(i), UNCHANGED <<mux, asked, replies>>
  PROVE  UNCHANGED requestBar
<1>1. \A j \in ReqIds : j # i => outstanding'[j] = outstanding[j]
  BY DEF consumed, HubInv, TypeOK
<1> QED BY <1>1, OwnRequest, RequestsQuiet DEF HubInv

(* Neither does sending a request of the hub's own.                        *)
LEMMA OwnSent ==
  ASSUME HubInv, TypeOK', UNCHANGED mux,
         NEW g, send_request(g, "initialize", {}, HubInitialize)
  PROVE  UNCHANGED requestBar
<1> DEFINE n == next_req + 1
           new == Ask(g, n, "initialize", {}, HubInitialize)
<1>1. /\ outstanding' = [outstanding EXCEPT ![n] = HubInitialize]
      /\ asked' = asked \cup {new} /\ UNCHANGED replies
  BY DEF send_request
<1>2. new.wait.kind = "HubInitialize"
  BY DEF Ask, HubInitialize
<1> HIDE DEF new
<1>3. \A i : ForwardedIn(asked', i) = ForwardedIn(asked, i)
  BY <1>1, <1>2 DEF ForwardedIn
<1>4. ForwardedIn(asked, n) = {}
  BY DEF ForwardedIn, HubInv, IdsInv, TypeOK, Asks, ReqIds
<1>5. \A i \in ReqIds : i # n => outstanding'[i] = outstanding[i]
  BY <1>1 DEF HubInv, TypeOK
<1> HIDE DEF n
<1> QED BY <1>1, <1>3, <1>4, <1>5, RequestsQuiet DEF HubInv

(* Nor do the loads of a candidate.                                        *)
LEMMA OwnLoads ==
  ASSUME HubInv, TypeOK', UNCHANGED replies, NEW g, NEW i \in ReqIds,
         outstanding[i].kind = "HubInitialize",
         NEW watched, NEW ids, NEW n \in Nat, LoadsSent(g, i, watched, n, ids)
  PROVE  UNCHANGED requestBar
<1> DEFINE new(s) == Ask(g, ids[s], "session/load", {s}, HubLoad)
<1>1. asked' = asked \cup {new(s) : s \in watched} /\ UNCHANGED mux
  BY DEF LoadsSent
<1>2. \A s : new(s).wait.kind = "HubLoad"
  BY DEF Ask, HubLoad
<1> HIDE DEF new
<1>3. \A j : ForwardedIn(asked', j) = ForwardedIn(asked, j)
  BY <1>1, <1>2 DEF ForwardedIn
<1>4. ASSUME NEW j \in ReqIds
      PROVE  outstanding'[j] = outstanding[j] \/ ForwardedIn(asked, j) = {}
  <2>1. CASE j > next_req
    <3>1. \A a \in asked : a.id \in Nat /\ a.id <= next_req
      BY DEF HubInv, IdsInv, TypeOK, Asks, ReqIds
    <3>2. \A a \in asked : a.id # j
      BY <2>1, <3>1 DEF HubInv, TypeOK, ReqIds
    <3> QED BY <3>2 DEF ForwardedIn
  <2>2. CASE ~(j > next_req) /\ j # i
    BY <2>2 DEF LoadsSent, consumed, HubInv, TypeOK, ReqIds
  <2>3. CASE j = i
    BY <2>3, OwnRequest
  <2> QED BY <2>1, <2>2, <2>3
<1> QED BY <1>1, <1>3, <1>4, RequestsQuiet DEF HubInv

-----------------------------------------------------------------------------
(* The refinement.                                                         *)

(* The phones that are attached are those with a view.                     *)
LEMMA ViewDomain == TypeOK /\ NoticeInv => DOMAIN viewBar = Attached
BY DEF viewBar, Attached

(* Every handler is a step of HomeService, or changes nothing it shows.    *)
LEMMA ServiceStep ==
  HubInv /\ HubInv' /\ [Next]_vars => [Service!Next]_(Service!serviceVars)
<1> SUFFICES ASSUME HubInv, HubInv', [Next]_vars
             PROVE  Service!Next \/ UNCHANGED Service!serviceVars
  OBVIOUS
<1> DEFINE Goal == Service!Next \/ UNCHANGED Service!serviceVars
<1> USE DEF homeVars, tableVars, phoneVars, requestVars, reverseVars
<1>0. TypeOK /\ TypeOK' /\ Service!Nobody = None
  BY DEF HubInv, Service!Nobody, None
<1>v. /\ viewBar = Service!Told(Attached, mux) /\ DOMAIN viewBar = Attached
      /\ viewBar' = Service!Told(Attached', mux')
  BY ViewTold, ViewDomain DEF HubInv
<1>r. ASSUME UNCHANGED <<mux, asked, replies, outstanding>>
      PROVE  UNCHANGED requestBar
  BY <1>r DEF requestBar
<1>p. ASSUME UNCHANGED phones PROVE UNCHANGED Attached
  BY <1>p DEF Attached
<1>q. ASSUME UNCHANGED <<mux, cand, requestBar, Attached>>
      PROVE  Goal
  BY <1>q, <1>v DEF Service!serviceVars
<1>f. ASSUME fail_incoming, cand # None, UNCHANGED <<phones, requestBar>>
      PROVE  Goal
  <2>1. Service!Abandon
    BY <1>0, <1>f, <1>p, <1>v DEF fail_incoming, Service!Abandon
  <2> QED BY <2>1 DEF Service!Next
<1>t. ASSUME finish_successor, cand # None, UNCHANGED <<phones, asked, replies>>,
             stage \in {"WaitInitialize", "WaitLoads"}
      PROVE  Goal
  <2>1. \A a \in asked : a.gen = cand => a.wait \in {HubInitialize, HubLoad}
    BY <1>t DEF HubInv, HandshakeInv
  <2>2. mux' = cand /\ cand' = None
    BY <1>t DEF finish_successor
  <2>3. \A a \in asked : a.wait.kind = "Forwarded" => a.gen # mux'
    BY <2>1, <2>2 DEF HubInitialize, HubLoad
  <2>4. requestBar' = Service!Lost
    BY <1>0, <1>t, <2>3, RequestsLost
  <2>5. Service!TakeOver
    BY <1>0, <1>p, <1>t, <1>v, <2>2, <2>4 DEF Service!TakeOver
  <2> QED BY <2>5 DEF Service!Next
<1>1. CASE on_accepted
  <2>1. next_gen + 1 \in Gens /\ next_gen + 1 > mux /\ next_gen + 1 > cand
    BY <1>1, Bounds DEF on_accepted, HubInv, GensInv, TypeOK, Gens, None
  <2>2. Service!Accept(next_gen + 1)
    BY <1>1, <1>p, <1>r, <1>v, <2>1 DEF on_accepted, Service!Accept
  <2> QED BY <2>1, <2>2 DEF Service!Next
<1>2. ASSUME NEW g \in Gens, NEW ready \in BOOLEAN, NEW version \in Versions,
             on_registered(g, ready, version)
      PROVE  Goal
  <2>0. g = cand /\ cand # None
    BY <1>2 DEF on_registered, Gens, None
  <2>1. CASE version # LEADER_PROTOCOL_VERSION
    <3>1. fail_incoming /\ UNCHANGED <<phones, asked, replies, outstanding>>
      BY <1>2, <2>1 DEF on_registered
    <3>2. UNCHANGED requestBar
      BY <3>1, <1>r DEF fail_incoming
    <3> QED BY <2>0, <3>1, <3>2, <1>f
  <2>2. CASE version = LEADER_PROTOCOL_VERSION /\ stage = "WaitRegistered" /\ ready
    <3>1. /\ send_request(g, "initialize", {}, HubInitialize)
          /\ UNCHANGED <<mux, cand, phones>>
      BY <1>2, <2>2 DEF on_registered, send_follower_initialize
    <3> QED BY <3>1, <1>0, <1>p, <1>q, OwnSent
  <2>3. CASE version = LEADER_PROTOCOL_VERSION /\ ~(stage = "WaitRegistered" /\ ready)
    <3>1. UNCHANGED <<mux, cand, phones, asked, replies, outstanding>>
      BY <1>2, <2>3 DEF on_registered
    <3> QED BY <3>1, <1>p, <1>q, <1>r
  <2> QED BY <2>1, <2>2, <2>3
<1>3. ASSUME NEW g \in Gens, on_leader_ready(g) PROVE Goal
  <2>1. CASE stage = "WaitReady"
    <3>1. /\ send_request(g, "initialize", {}, HubInitialize)
          /\ UNCHANGED <<mux, cand, phones>>
      BY <1>3, <2>1 DEF on_leader_ready, send_follower_initialize
    <3> QED BY <3>1, <1>0, <1>p, <1>q, OwnSent
  <2>2. CASE stage # "WaitReady"
    <3>1. UNCHANGED <<mux, cand, phones, asked, replies, outstanding>>
      BY <1>3, <2>2 DEF on_leader_ready
    <3> QED BY <3>1, <1>p, <1>q, <1>r
  <2> QED BY <2>1, <2>2
<1>4. ASSUME NEW g \in Gens, NEW i \in ReqIds, NEW about \in SessionIdIn,
             on_forwarded_result(g, i, about)
      PROVE  Goal
  <2>1. /\ Known(g) /\ outstanding[i].kind = "Forwarded"
        /\ \E a \in asked : a.gen = g /\ a.id = i
    BY <1>4 DEF on_forwarded_result, Answers
  <2>2. g = mux
    <3> SUFFICES ASSUME g # mux PROVE FALSE
      OBVIOUS
    <3>1. PICK a \in asked : a.gen = cand /\ a.id = i
      BY <2>1 DEF Known
    <3>2. a.wait = outstanding[i]
      BY <2>1, <3>1 DEF HubInv, IdsInv, NoWait
    <3>3. stage # "None" /\ stage \in Stages
      BY <2>1 DEF Known, HubInv, GensInv, TypeOK
    <3>4. a.wait \in {HubInitialize, HubLoad}
      BY <3>1, <3>3 DEF HubInv, HandshakeInv, Stages
    <3> QED BY <2>1, <3>2, <3>4 DEF HubInitialize, HubLoad
  <2>3. /\ requestBar[i] = "Waiting"
        /\ requestBar' = [requestBar EXCEPT ![i] = "Answered"]
    BY <1>0, <1>4, <2>2, RequestAnswered
  <2>4. Service!Answer(i)
    BY <1>4, <1>p, <1>v, <2>3 DEF on_forwarded_result, Service!Answer
  <2> QED BY <2>4 DEF Service!Next
<1>5. ASSUME NEW g \in Gens, NEW i \in ReqIds, NEW error \in BOOLEAN,
             on_initialize_result(g, i, error)
      PROVE  Goal
  <2>0. /\ Known(g) /\ outstanding[i].kind = "HubInitialize"
        /\ UNCHANGED <<phones, replies>>
    BY <1>5 DEF on_initialize_result, Answers
  <2>1. CASE g # cand
    <3>1. outstanding' = consumed(i) /\ UNCHANGED <<mux, cand, asked>>
      BY <1>5, <2>1 DEF on_initialize_result
    <3> QED BY <2>0, <3>1, <1>0, <1>p, <1>q, OwnConsumed
  <2>2. CASE g = cand /\ error
    <3>1. fail_incoming /\ outstanding' = consumed(i) /\ UNCHANGED asked
      BY <1>5, <2>2 DEF on_initialize_result
    <3>2. UNCHANGED requestBar
      BY <2>0, <3>1, <1>0, OwnConsumed DEF fail_incoming
    <3> QED BY <2>0, <2>2, <3>1, <3>2, <1>f DEF Known
  <2>3. CASE g = cand /\ ~error
    <3>1. after_follower_initialize(g, i) /\ cand # None
      BY <1>5, <2>0, <2>3 DEF on_initialize_result, Known
    <3>2. CASE stage # "WaitInitialize"
      <4>1. outstanding' = consumed(i) /\ UNCHANGED <<mux, cand, asked>>
        BY <3>1, <3>2 DEF after_follower_initialize
      <4> QED BY <2>0, <4>1, <1>0, <1>p, <1>q, OwnConsumed
    <3>3. CASE stage = "WaitInitialize" /\ {s \in Sessions : watchers[s] # {}} = {}
      BY <2>0, <3>1, <3>3, <1>t DEF after_follower_initialize
    <3>4. CASE stage = "WaitInitialize" /\ {s \in Sessions : watchers[s] # {}} # {}
      <4>1. PICK watched, ids : \E n \in Nat : LoadsSent(g, i, watched, n, ids)
        BY <1>0, <3>1, <3>4, LoadsFresh
      <4>2. UNCHANGED requestBar
        BY <1>0, <2>0, <4>1, OwnLoads
      <4>3. UNCHANGED <<mux, cand>>
        BY <4>1 DEF LoadsSent
      <4> QED BY <2>0, <4>2, <4>3, <1>p, <1>q
    <3> QED BY <3>2, <3>3, <3>4
  <2> QED BY <2>1, <2>2, <2>3
<1>6. ASSUME NEW g \in Gens, NEW i \in ReqIds, on_load_result(g, i)
      PROVE  Goal
  <2>0. /\ Known(g) /\ outstanding[i].kind = "HubLoad"
        /\ outstanding' = consumed(i) /\ UNCHANGED <<phones, replies, asked>>
    BY <1>6 DEF on_load_result, Answers
  <2>1. \/ cand # None /\ stage = "WaitLoads" /\ finish_successor
        \/ UNCHANGED <<mux, cand>>
    BY <1>6, <2>0 DEF on_load_result, after_load_result, Known
  <2>2. CASE UNCHANGED <<mux, cand>>
    BY <2>0, <2>2, <1>0, <1>p, <1>q, OwnConsumed
  <2> QED BY <2>0, <2>1, <2>2, <1>t
<1>7. ASSUME NEW s \in Sessions, NEW interaction \in BOOLEAN,
             on_reverse_request(s, interaction)
      PROVE  Goal
  <2>1. UNCHANGED <<mux, cand, phones, asked, replies, outstanding>>
    BY <1>7 DEF on_reverse_request
  <2> QED BY <2>1, <1>p, <1>q, <1>r
<1>8. ASSUME NEW g \in Gens, on_home_eof(g) PROVE Goal
  <2>0. Known(g) /\ UNCHANGED <<phones, asked, replies, outstanding>>
    BY <1>8 DEF on_home_eof
  <2>1. CASE g = mux
    <3>1. mux' = None /\ mux # None /\ UNCHANGED cand
      BY <1>8, <2>0, <2>1 DEF on_home_eof, Known
    <3>2. \A a \in asked : a.gen # mux'
      BY <3>1 DEF HubInv, TypeOK, Asks, Gens, None
    <3>3. Service!Lose
      BY <1>0, <1>p, <1>v, <2>0, <3>1, <3>2, RequestsLost DEF Service!Lose
    <3> QED BY <3>3 DEF Service!Next
  <2>2. CASE g # mux
    <3>1. fail_incoming /\ cand # None
      BY <1>8, <2>0, <2>2 DEF on_home_eof, Known
    <3>2. UNCHANGED requestBar
      BY <2>0, <3>1, <1>r DEF fail_incoming
    <3> QED BY <2>0, <3>1, <3>2, <1>f
  <2> QED BY <2>1, <2>2
<1>9. CASE on_deadline
  <2>1. fail_incoming /\ cand # None /\ UNCHANGED <<phones, asked, replies, outstanding>>
    BY <1>9 DEF on_deadline, has_deadline, HubInv, GensInv
  <2>2. UNCHANGED requestBar
    BY <2>1, <1>r DEF fail_incoming
  <2> QED BY <2>1, <2>2, <1>f
<1>10. CASE on_phone_hello
  <2>1. UNCHANGED <<mux, cand, asked, replies, outstanding>>
    BY <1>10 DEF on_phone_hello
  <2>2. UNCHANGED Attached
    BY <1>10 DEF on_phone_hello, Attached, HubInv, PhonesCounted, TypeOK, Phones
  <2> QED BY <2>1, <2>2, <1>q, <1>r
<1>11. ASSUME NEW p \in Phones, answer_initialize(p) PROVE Goal
  <2>1. UNCHANGED <<mux, cand, asked, replies, outstanding>>
    BY <1>11 DEF answer_initialize
  <2>2. Attached' = Attached \cup {p}
    BY <1>11 DEF answer_initialize, Attached, HubInv, TypeOK
  <2>3. CASE p \in Attached
    BY <2>1, <2>2, <2>3, <1>q, <1>r
  <2>4. CASE p \notin Attached
    <3>1. Service!Attach(p)
      BY <2>1, <2>2, <2>4, <1>r, <1>v DEF Service!Attach
    <3> QED BY <3>1 DEF Service!Next
  <2> QED BY <2>3, <2>4
<1>12. ASSUME NEW p \in Phones, NEW o \in Origins, NEW method, NEW about,
              forward_request(p, o, method, about), UNCHANGED <<mux, cand, phones>>
       PROVE  Goal
  <2>1. CASE Away
    BY <1>12, <2>1, <1>p, <1>q, <1>r, ForwardSends
  <2>2. CASE ~Away
    <3>1. mux # None /\ send_request(mux, method, about, Forwarded(p, o))
      BY <1>12, <2>2, ForwardSends DEF Away
    <3>2. /\ next_req + 1 \in ReqIds
          /\ requestBar[next_req + 1] = "None"
          /\ requestBar' = [requestBar EXCEPT ![next_req + 1] = "Waiting"]
      BY <1>0, <1>12, <3>1, RequestAsked
    <3>3. Service!Ask(next_req + 1)
      BY <1>0, <1>12, <1>p, <1>v, <3>1, <3>2 DEF Service!Ask
    <3> QED BY <3>2, <3>3 DEF Service!Next
  <2> QED BY <2>1, <2>2
<1>13. ASSUME NEW p \in Phones, NEW o \in Origins, NEW about \in SessionIdIn,
              on_load_request(p, o, about) \/ on_close_request(p, o, about)
       PROVE  Goal
  BY <1>13, <1>12 DEF on_load_request, on_close_request
<1>14. ASSUME NEW p \in Phones, NEW o \in Origins,
              NEW method \in {"session/prompt", "other"},
              on_other_request(p, o, method)
       PROVE  Goal
  BY <1>14, <1>12 DEF on_other_request
<1>15. ASSUME NEW e, on_phone_reply(e) PROVE Goal
  <2>1. UNCHANGED <<mux, cand, phones, asked, replies, outstanding>>
    BY <1>15 DEF on_phone_reply
  <2> QED BY <2>1, <1>p, <1>q, <1>r
<1>16. ASSUME NEW p \in Phones, on_phone_eof(p) PROVE Goal
  <2>1. UNCHANGED <<mux, cand, asked, replies, outstanding>>
    BY <1>16 DEF on_phone_eof
  <2>2. Attached' = Attached \ {p}
    BY <1>16 DEF on_phone_eof, Attached, HubInv, TypeOK
  <2>3. CASE p \notin Attached
    BY <2>1, <2>2, <2>3, <1>q, <1>r
  <2>4. CASE p \in Attached
    <3>1. Service!Leave(p)
      BY <2>1, <2>2, <2>4, <1>r, <1>v DEF Service!Leave
    <3> QED BY <3>1 DEF Service!Next
  <2> QED BY <2>3, <2>4
<1>17. CASE shutdown
  <2>1. mux' = None /\ cand' = None /\ UNCHANGED <<asked, replies, outstanding>>
    BY <1>17 DEF shutdown
  <2>2. Attached' = {}
    BY <1>17 DEF shutdown, Attached
  <2>3. \A a \in asked : a.gen # mux'
    BY <2>1 DEF HubInv, TypeOK, Asks, Gens, None
  <2>4. Service!Stop
    BY <1>0, <1>v, <2>1, <2>2, <2>3, RequestsLost DEF Service!Stop
  <2> QED BY <2>4 DEF Service!Next
<1>18. CASE UNCHANGED vars
  <2>1. UNCHANGED <<mux, cand, phones, asked, replies, outstanding>>
    BY <1>18 DEF vars
  <2> QED BY <2>1, <1>p, <1>q, <1>r
<1> QED
  BY <1>1, <1>2, <1>3, <1>4, <1>5, <1>6, <1>7, <1>8, <1>9, <1>10, <1>11, <1>13,
     <1>14, <1>15, <1>16, <1>17, <1>18
  DEF Next, HomeFrame, PhoneText

(* The hub implements what topside promises its phones: in every           *)
(* interleaving each of its handlers is one step of HomeService or none,   *)
(* so requests go to the link that serves, are answered at most once and   *)
(* are lost only with that link, and phones know whether anybody serves.   *)
THEOREM HubImplementsService == Spec => ImplementsService
<1>1. Init => Service!Init
  <2> SUFFICES ASSUME Init PROVE Service!Init
    OBVIOUS
  <2>1. viewBar = [p \in {} |-> TRUE]
    BY DEF Init, viewBar
  <2>2. requestBar = [i \in ReqIds |-> "None"]
    BY DEF Init, requestBar
  <2> QED BY <2>1, <2>2 DEF Init, Service!Init, Service!Nobody, None
<1> QED BY <1>1, HubInvAlways, ServiceStep, PTL DEF Spec, ImplementsService, Service!Spec

=============================================================================
