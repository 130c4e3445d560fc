----------------------------- MODULE HubProofs -----------------------------
(***************************************************************************)
(* Theorems about Hub, for every number of links, phones, sessions and     *)
(* request ids.                                                            *)
(***************************************************************************)
EXTENDS Hub, FiniteSetTheorems, TLAPS

(* The bounds are naturals.                                                *)
LEMMA Bounds ==
  /\ MaxGen \in Nat /\ MaxPhone \in Nat /\ MaxReq \in Nat /\ MaxReverse \in Nat
  /\ LEADER_PROTOCOL_VERSION \in Versions
  /\ IsFiniteSet(Sessions)
BY ConstantsAssumption

(* The sessions somebody watches are finitely many.                        *)
LEMMA WatchedFinite ==
  ASSUME NEW S, S \subseteq Sessions
  PROVE  Cardinality(S) \in Nat
BY FS_Subset, FS_CardinalityType, Bounds

(* So are the phones.                                                      *)
LEMMA PhonesFinite ==
  ASSUME NEW S, S \subseteq Phones
  PROVE  Cardinality(S) \in Nat
<1>1. IsFiniteSet(Phones)
  BY FS_Interval, Bounds DEF Phones
<1> QED BY <1>1, FS_Subset, FS_CardinalityType

(* Sending a request keeps the request tables typed.                       *)
LEMMA SendTyped ==
  ASSUME TypeOK, NEW g \in Gens, NEW method \in Methods,
         NEW about \in SUBSET Sessions, NEW wait \in Waits \ {NoWait},
         send_request(g, method, about, wait)
  PROVE  /\ outstanding' \in [ReqIds -> Waits]
         /\ next_req' \in 0..MaxReq
         /\ asked' \subseteq Asks
         /\ replies' \in [ReqIds -> Nat]
<1>1. next_req + 1 \in ReqIds
  BY Bounds DEF TypeOK, send_request, alloc_reqs, ReqIds
<1>2. Ask(g, next_req + 1, method, about, wait) \in Asks
  BY <1>1 DEF Ask, Asks
<1>3. next_req' \in 0..MaxReq
  BY Bounds DEF TypeOK, send_request, alloc_reqs
<1> QED BY <1>1, <1>2, <1>3 DEF TypeOK, send_request

(* Watching keeps the session tables typed.                                *)
LEMMA WatchTyped ==
  ASSUME TypeOK, NEW p \in Phones, NEW about, watch(p, about)
  PROVE  /\ watchers' \in [Sessions -> SUBSET Phones]
         /\ driver' \in [Sessions -> Phones \cup {None}]
BY DEF TypeOK, watch

(* A wait that was removed.                                                *)
LEMMA ConsumedTyped ==
  ASSUME TypeOK, NEW i \in ReqIds
  PROVE  consumed(i) \in [ReqIds -> Waits]
BY DEF TypeOK, consumed, Waits

(* Dropping the candidate keeps the home slot typed.                       *)
LEMMA FailTyped ==
  ASSUME TypeOK, fail_incoming
  PROVE  /\ mux' \in Gens \cup {None}
         /\ cand' \in Gens \cup {None}
         /\ stage' \in Stages
         /\ pending' \in [Sessions -> ReqIds \cup {None}]
BY DEF TypeOK, fail_incoming, NoLoads, Stages

(* A broadcast leaves a flag for every phone.                              *)
LEMMA BroadcastTyped ==
  ASSUME TypeOK, NEW away \in BOOLEAN, broadcast_away(away)
  PROVE  lastNote' \in [Phones -> BOOLEAN]
BY DEF TypeOK, broadcast_away

(* A finished successor leaves the home slot and the notes typed.          *)
LEMMA FinishTyped ==
  ASSUME TypeOK, finish_successor
  PROVE  /\ mux' \in Gens \cup {None}
         /\ cand' \in Gens \cup {None}
         /\ stage' \in Stages
         /\ pending' \in [Sessions -> ReqIds \cup {None}]
         /\ lastNote' \in [Phones -> BOOLEAN]
<1>1. lastNote' \in [Phones -> BOOLEAN]
  <2>1. CASE Away
    BY <2>1, BroadcastTyped DEF finish_successor
  <2>2. CASE ~Away
    BY <2>2 DEF finish_successor, TypeOK
  <2> QED BY <2>1, <2>2
<1> QED BY <1>1 DEF TypeOK, finish_successor, NoLoads, Stages

(* So does what a link has told the hub.                                   *)
LEMMA HearTyped ==
  ASSUME TypeOK, NEW g \in Gens,
         NEW what \in SUBSET {"Registered", "Ready", "Ended"}, Hear(g, what)
  PROVE  heard' \in [Gens -> SUBSET {"Registered", "Ready", "Ended"}]
BY DEF TypeOK, Hear

(* The candidate's initialize result, when the candidate then loads the    *)
(* watched sessions.                                                       *)
LEMMA AfterInitializeTyped ==
  ASSUME TypeOK, NEW g \in Gens, NEW i \in ReqIds,
         after_follower_initialize(g, i)
  PROVE  /\ mux' \in Gens \cup {None}
         /\ cand' \in Gens \cup {None}
         /\ stage' \in Stages
         /\ pending' \in [Sessions -> ReqIds \cup {None}]
         /\ lastNote' \in [Phones -> BOOLEAN]
         /\ outstanding' \in [ReqIds -> Waits]
         /\ next_req' \in 0..MaxReq
         /\ asked' \subseteq Asks
<1> DEFINE watched == {s \in Sessions : watchers[s] # {}}
           n == Cardinality(watched)
           rest == consumed(i)
<1>0. rest \in [ReqIds -> Waits]
  BY ConsumedTyped
<1>1. n \in Nat
  BY WatchedFinite
<1> HIDE DEF n, rest
<1>2. CASE stage # "WaitInitialize"
  BY <1>2, <1>0 DEF after_follower_initialize, TypeOK, homeVars, rest
<1>3. CASE stage = "WaitInitialize" /\ watched = {}
  BY <1>3, <1>0, FinishTyped DEF after_follower_initialize, TypeOK, rest
<1>4. CASE stage = "WaitInitialize" /\ watched # {}
  <2>1. /\ alloc_loads(n)
        /\ \E ids \in Bijection(watched, (next_req + 1)..(next_req + n)) :
             /\ pending' = [s \in Sessions |->
                              IF s \in watched THEN ids[s] ELSE None]
             /\ asked' = asked \cup {Ask(g, ids[s], "session/load", {s},
                                         HubLoad) : s \in watched}
        /\ outstanding' = [j \in ReqIds |->
                             IF next_req < j /\ j <= next_req + n
                             THEN HubLoad ELSE rest[j]]
        /\ stage' = "WaitLoads"
        /\ UNCHANGED <<mux, cand, lastNote>>
    BY <1>4 DEF after_follower_initialize, n, rest
  <2>2. next_req' \in 0..MaxReq /\ (next_req + 1)..(next_req + n) \subseteq ReqIds
    BY <2>1, <1>1, Bounds DEF TypeOK, alloc_loads, alloc_reqs, ReqIds
  <2>3. PICK ids \in Bijection(watched, (next_req + 1)..(next_req + n)) :
             /\ pending' = [s \in Sessions |->
                              IF s \in watched THEN ids[s] ELSE None]
             /\ asked' = asked \cup {Ask(g, ids[s], "session/load", {s},
                                         HubLoad) : s \in watched}
    BY <2>1
  <2>a. ids \in [watched -> ReqIds]
    <3>1. ids \in [watched -> (next_req + 1)..(next_req + n)]
      BY DEF Bijection, Injection
    <3> QED BY <3>1, <2>2
  <2>4. pending' \in [Sessions -> ReqIds \cup {None}]
    BY <2>3, <2>a
  <2>5. ASSUME NEW s \in watched
        PROVE  Ask(g, ids[s], "session/load", {s}, HubLoad) \in Asks
    <3>1. HubLoad \in Waits \ {NoWait}
      BY DEF HubLoad, NoWait, Waits
    <3>2. ids[s] \in ReqIds /\ {s} \in SUBSET Sessions
      BY <2>a
    <3> QED BY <3>1, <3>2 DEF Ask, Asks, Methods
  <2>6. asked' \subseteq Asks
    BY <2>3, <2>5 DEF TypeOK
  <2>7. outstanding' \in [ReqIds -> Waits]
    BY <2>1, <1>0 DEF Waits
  <2> QED BY <2>1, <2>2, <2>4, <2>6, <2>7 DEF TypeOK, Stages
<1> QED BY <1>2, <1>3, <1>4

(* Forwarding a phone's request, or answering it with the away error.      *)
LEMMA ForwardTyped ==
  ASSUME TypeOK, NEW p \in Phones, NEW o \in Origins, NEW method \in Methods,
         NEW about \in SUBSET Sessions, forward_request(p, o, method, about)
  PROVE  /\ outstanding' \in [ReqIds -> Waits]
         /\ next_req' \in 0..MaxReq
         /\ asked' \subseteq Asks
         /\ replies' \in [ReqIds -> Nat]
<1>1. CASE Away
  BY <1>1 DEF forward_request, requestVars, TypeOK
<1>2. CASE ~Away
  <2>1. mux \in Gens
    BY <1>2 DEF Away, TypeOK
  <2>2. Forwarded(p, o) \in Waits \ {NoWait}
    BY DEF Forwarded, NoWait, Waits, ForwardedWaits
  <2>3. send_request(mux, method, about, Forwarded(p, o))
    BY <1>2 DEF forward_request
  <2> QED BY <2>1, <2>2, <2>3, SendTyped
<1> QED BY <1>1, <1>2

(* Every variable keeps its type through every handler.                    *)
LEMMA TypeStep == TypeOK /\ [Next]_vars => TypeOK'
<1> SUFFICES ASSUME TypeOK, [Next]_vars PROVE TypeOK'
  OBVIOUS
<1> USE DEF homeVars, tableVars, phoneVars, requestVars, reverseVars
<1>0. HubInitialize \in Waits \ {NoWait} /\ NoWait \in Waits
  BY DEF HubInitialize, NoWait, Waits
<1>1. CASE on_accepted
  BY <1>1, Bounds DEF on_accepted, TypeOK, Gens, NoLoads, Stages
<1>2. ASSUME NEW g \in Gens, NEW ready \in BOOLEAN, NEW version \in Versions,
             on_registered(g, ready, version)
      PROVE  TypeOK'
  <2>1. heard' \in [Gens -> SUBSET {"Registered", "Ready", "Ended"}]
    BY <1>2, HearTyped DEF on_registered
  <2>2. refused_version' \in SUBSET Versions
    BY <1>2 DEF on_registered, note_version
  <2>3. CASE version # LEADER_PROTOCOL_VERSION
    BY <1>2, <2>1, <2>2, <2>3, FailTyped DEF on_registered, TypeOK
  <2>4. CASE version = LEADER_PROTOCOL_VERSION /\ stage = "WaitRegistered" /\ ready
    <3>1. send_request(g, "initialize", {}, HubInitialize)
      BY <1>2, <2>4 DEF on_registered, send_follower_initialize
    <3>2. /\ outstanding' \in [ReqIds -> Waits]
          /\ next_req' \in 0..MaxReq
          /\ asked' \subseteq Asks
          /\ replies' \in [ReqIds -> Nat]
      BY <3>1, <1>0, SendTyped DEF Methods
    <3> QED BY <1>2, <2>1, <2>2, <2>4, <3>2 DEF on_registered, TypeOK, Stages
  <2>5. CASE version = LEADER_PROTOCOL_VERSION /\ ~(stage = "WaitRegistered" /\ ready)
    BY <1>2, <2>1, <2>2, <2>5 DEF on_registered, TypeOK, Stages
  <2> QED BY <2>3, <2>4, <2>5
<1>3. ASSUME NEW g \in Gens, on_leader_ready(g) PROVE TypeOK'
  <2>1. heard' \in [Gens -> SUBSET {"Registered", "Ready", "Ended"}]
    BY <1>3, HearTyped DEF on_leader_ready
  <2>2. CASE stage = "WaitReady"
    <3>1. send_request(g, "initialize", {}, HubInitialize)
      BY <1>3, <2>2 DEF on_leader_ready, send_follower_initialize
    <3>2. /\ outstanding' \in [ReqIds -> Waits]
          /\ next_req' \in 0..MaxReq
          /\ asked' \subseteq Asks
          /\ replies' \in [ReqIds -> Nat]
      BY <3>1, <1>0, SendTyped DEF Methods
    <3> QED BY <1>3, <2>1, <2>2, <3>2 DEF on_leader_ready, TypeOK, Stages
  <2>3. CASE stage # "WaitReady"
    BY <1>3, <2>1, <2>3 DEF on_leader_ready, TypeOK
  <2> QED BY <2>2, <2>3
<1>4. ASSUME NEW g \in Gens, NEW i \in ReqIds, NEW about \in SessionIdIn,
             on_forwarded_result(g, i, about)
      PROVE  TypeOK'
  <2>1. outstanding' \in [ReqIds -> Waits]
    BY <1>4, ConsumedTyped DEF on_forwarded_result
  <2>2. CASE g # mux
    BY <1>4, <2>1, <2>2 DEF on_forwarded_result, TypeOK
  <2>3. CASE g = mux
    <3>1. outstanding[i].phone \in Phones
      BY <1>4 DEF on_forwarded_result, Answers, TypeOK, Waits, ForwardedWaits,
                  NoWait, HubInitialize, HubLoad
    <3>2. /\ watchers' \in [Sessions -> SUBSET Phones]
          /\ driver' \in [Sessions -> Phones \cup {None}]
      BY <1>4, <2>3, <3>1, WatchTyped DEF on_forwarded_result
    <3>3. replies' \in [ReqIds -> Nat]
      BY <1>4, <2>3 DEF on_forwarded_result, TypeOK
    <3> QED BY <1>4, <2>1, <3>2, <3>3 DEF on_forwarded_result, TypeOK
  <2> QED BY <2>2, <2>3
<1>5. ASSUME NEW g \in Gens, NEW i \in ReqIds, NEW error \in BOOLEAN,
             on_initialize_result(g, i, error)
      PROVE  TypeOK'
  <2>0. consumed(i) \in [ReqIds -> Waits]
    BY ConsumedTyped
  <2>1. CASE g # cand
    BY <1>5, <2>0, <2>1 DEF on_initialize_result, TypeOK
  <2>2. CASE g = cand /\ error
    BY <1>5, <2>0, <2>2, FailTyped DEF on_initialize_result, TypeOK
  <2>3. CASE g = cand /\ ~error
    <3>1. after_follower_initialize(g, i)
      BY <1>5, <2>3 DEF on_initialize_result
    <3> QED BY <1>5, <3>1, AfterInitializeTyped DEF on_initialize_result, TypeOK
  <2> QED BY <2>1, <2>2, <2>3
<1>6. ASSUME NEW g \in Gens, NEW i \in ReqIds, on_load_result(g, i)
      PROVE  TypeOK'
  <2>1. outstanding' \in [ReqIds -> Waits]
    BY <1>6, ConsumedTyped DEF on_load_result
  <2>2. CASE g # cand
    BY <1>6, <2>1, <2>2 DEF on_load_result, TypeOK
  <2>3. CASE g = cand
    <3>1. after_load_result(i)
      BY <1>6, <2>3 DEF on_load_result
    <3>2. /\ mux' \in Gens \cup {None}
          /\ cand' \in Gens \cup {None}
          /\ stage' \in Stages
          /\ pending' \in [Sessions -> ReqIds \cup {None}]
          /\ lastNote' \in [Phones -> BOOLEAN]
      BY <3>1, FinishTyped DEF after_load_result, TypeOK
    <3> QED BY <1>6, <2>1, <3>2 DEF on_load_result, TypeOK
  <2> QED BY <2>2, <2>3
<1>7. ASSUME NEW s \in Sessions, NEW interaction \in BOOLEAN,
             on_reverse_request(s, interaction)
      PROVE  TypeOK'
  <2> DEFINE targets == IF interaction THEN watchers[s] ELSE {driver[s]} \ {None}
             n == Cardinality(targets)
             key == next_req + 1
  <2>1. targets \subseteq Phones
    BY DEF TypeOK
  <2>2. n \in Nat
    BY <2>1, PhonesFinite
  <2> HIDE DEF n
  <2>3. /\ alloc_reqs(1)
        /\ reverse_seq + n <= MaxReverse
        /\ reverse_seq' = reverse_seq + n
        /\ claims' = [claims EXCEPT ![key] = "Open"]
        /\ \E rids \in Bijection(targets, (reverse_seq + 1)..(reverse_seq + n)) :
             reverse' = reverse \cup {[phone |-> p, rid |-> rids[p],
                                       claim |-> key] : p \in targets}
    BY <1>7 DEF on_reverse_request, n
  <2>4. next_req' \in 0..MaxReq /\ key \in ReqIds
    BY <2>3, Bounds DEF alloc_reqs, TypeOK, ReqIds
  <2>5. /\ reverse_seq' \in 0..MaxReverse
        /\ (reverse_seq + 1)..(reverse_seq + n) \subseteq Rids
    BY <2>2, <2>3, Bounds DEF TypeOK, Rids
  <2>6. PICK rids \in Bijection(targets, (reverse_seq + 1)..(reverse_seq + n)) :
             reverse' = reverse \cup {[phone |-> p, rid |-> rids[p],
                                       claim |-> key] : p \in targets}
    BY <2>3
  <2>7. rids \in [targets -> Rids]
    <3>1. rids \in [targets -> (reverse_seq + 1)..(reverse_seq + n)]
      BY DEF Bijection, Injection
    <3> QED BY <3>1, <2>5
  <2>8. reverse' \subseteq [phone : Phones, rid : Rids, claim : ReqIds]
    BY <2>1, <2>4, <2>6, <2>7 DEF TypeOK
  <2>9. claims' \in [ReqIds -> {"None", "Open", "Taken"}]
    BY <2>3, <2>4 DEF TypeOK
  <2> QED BY <1>7, <2>4, <2>5, <2>8, <2>9 DEF on_reverse_request, TypeOK
<1>8. ASSUME NEW g \in Gens, on_home_eof(g) PROVE TypeOK'
  <2>1. heard' \in [Gens -> SUBSET {"Registered", "Ready", "Ended"}]
    BY <1>8, HearTyped DEF on_home_eof
  <2>2. CASE g = mux
    BY <1>8, <2>1, <2>2, BroadcastTyped DEF on_home_eof, TypeOK
  <2>3. CASE g # mux
    BY <1>8, <2>1, <2>3, FailTyped DEF on_home_eof, TypeOK
  <2> QED BY <2>2, <2>3
<1>9. CASE on_deadline
  BY <1>9, FailTyped DEF on_deadline, TypeOK
<1>10. CASE on_phone_hello
  <2>1. next_phone' \in 0..MaxPhone
    BY <1>10, Bounds DEF on_phone_hello, TypeOK
  <2>2. phones' \in [Phones -> {"None", "Connected", "Ready"}]
    BY <1>10 DEF on_phone_hello, TypeOK
  <2> QED BY <1>10, <2>1, <2>2 DEF on_phone_hello, TypeOK
<1>11. ASSUME NEW p \in Phones, answer_initialize(p) PROVE TypeOK'
  BY <1>11 DEF answer_initialize, TypeOK, Away
<1>12. ASSUME NEW p \in Phones, NEW o \in Origins, NEW about \in SessionIdIn,
              on_load_request(p, o, about)
       PROVE  TypeOK'
  <2>1. about \in SUBSET Sessions
    BY DEF SessionIdIn
  <2>2. /\ watchers' \in [Sessions -> SUBSET Phones]
        /\ driver' \in [Sessions -> Phones \cup {None}]
    BY <1>12, WatchTyped DEF on_load_request
  <2>3. forward_request(p, o, "session/load", about)
    BY <1>12 DEF on_load_request
  <2> QED BY <1>12, <2>1, <2>2, <2>3, ForwardTyped DEF on_load_request, TypeOK, Methods
<1>13. ASSUME NEW p \in Phones, NEW o \in Origins, NEW about \in SessionIdIn,
              on_close_request(p, o, about)
       PROVE  TypeOK'
  <2>1. about \in SUBSET Sessions
    BY DEF SessionIdIn
  <2>2. /\ watchers' \in [Sessions -> SUBSET Phones]
        /\ driver' \in [Sessions -> Phones \cup {None}]
    BY <1>13 DEF on_close_request, unwatch, TypeOK
  <2>3. forward_request(p, o, "session/close", about)
    BY <1>13 DEF on_close_request
  <2> QED BY <1>13, <2>1, <2>2, <2>3, ForwardTyped DEF on_close_request, TypeOK, Methods
<1>14. ASSUME NEW p \in Phones, NEW o \in Origins,
              NEW method \in {"session/prompt", "other"},
              on_other_request(p, o, method)
       PROVE  TypeOK'
  <2>1. forward_request(p, o, method, {}) /\ method \in Methods
    BY <1>14 DEF on_other_request, Methods
  <2> QED BY <1>14, <2>1, ForwardTyped DEF on_other_request, TypeOK
<1>15. ASSUME NEW e, on_phone_reply(e) PROVE TypeOK'
  <2>1. e.claim \in ReqIds
    BY <1>15 DEF on_phone_reply, TypeOK
  <2>2. claims' \in [ReqIds -> {"None", "Open", "Taken"}]
    BY <1>15, <2>1 DEF on_phone_reply, take, TypeOK
  <2>3. answers' \in [ReqIds -> Nat]
    BY <1>15, <2>1 DEF on_phone_reply, TypeOK
  <2> QED BY <1>15, <2>2, <2>3 DEF on_phone_reply, TypeOK
<1>16. ASSUME NEW p \in Phones, on_phone_eof(p) PROVE TypeOK'
  BY <1>16 DEF on_phone_eof, forget_asks, TypeOK
<1>17. CASE shutdown
  BY <1>17 DEF shutdown, TypeOK, NoLoads, Stages
<1>18. CASE UNCHANGED vars
  BY <1>18 DEF vars, TypeOK
<1> QED
  BY <1>1, <1>2, <1>3, <1>4, <1>5, <1>6, <1>7, <1>8, <1>9, <1>10, <1>11, <1>12,
     <1>13, <1>14, <1>15, <1>16, <1>17, <1>18
  DEF Next, HomeFrame, PhoneText

(* The hub starts well typed.                                              *)
LEMMA InitTyped == Init => TypeOK
<1> SUFFICES ASSUME Init PROVE TypeOK
  OBVIOUS
<1>1. /\ next_phone \in 0..MaxPhone /\ next_req \in 0..MaxReq
      /\ next_gen \in 0..MaxGen /\ reverse_seq \in 0..MaxReverse
  BY Bounds DEF Init
<1>2. outstanding \in [ReqIds -> Waits]
  BY DEF Init, Waits
<1>3. /\ pending \in [Sessions -> ReqIds \cup {None}]
      /\ stage \in Stages
  BY DEF Init, NoLoads, Stages
<1>4. /\ replies \in [ReqIds -> Nat] /\ answers \in [ReqIds -> Nat]
      /\ lastNote \in [Phones -> BOOLEAN]
  BY DEF Init
<1> QED BY <1>1, <1>2, <1>3, <1>4 DEF Init, TypeOK

(* Type correctness of the hub: in particular ids stay in the range their  *)
(* counters cover, and what waits under an id is a well-formed Wait.       *)
THEOREM TypeCorrect == Spec => []TypeOK
BY InitTyped, TypeStep, PTL DEF Spec

-----------------------------------------------------------------------------
(* Phone ids are given out in order and never again.                       *)

PhonesCounted == \A p \in Phones : phones[p] # "None" => p <= next_phone

(* One handler keeps phone ids below the counter.                          *)
LEMMA PhonesCountedStep == TypeOK /\ PhonesCounted /\ [Next]_vars => PhonesCounted'
<1> SUFFICES ASSUME TypeOK, PhonesCounted, [Next]_vars
             PROVE  PhonesCounted'
  OBVIOUS
<1> USE DEF homeVars, tableVars, phoneVars, requestVars, reverseVars
<1>a. ASSUME UNCHANGED <<phones, next_phone>> PROVE PhonesCounted'
  BY <1>a DEF PhonesCounted
<1>1. CASE on_phone_hello
  BY <1>1 DEF on_phone_hello, PhonesCounted, TypeOK, Phones
<1>2. ASSUME NEW p \in Phones, answer_initialize(p) PROVE PhonesCounted'
  BY <1>2 DEF answer_initialize, PhonesCounted, TypeOK
<1>3. ASSUME NEW p \in Phones, on_phone_eof(p) PROVE PhonesCounted'
  BY <1>3 DEF on_phone_eof, PhonesCounted, TypeOK
<1>4. CASE shutdown
  BY <1>4 DEF shutdown, PhonesCounted
<1>5. CASE on_accepted \/ on_deadline \/ UNCHANGED vars
  BY <1>5, <1>a DEF on_accepted, on_deadline, vars
<1>6. ASSUME NEW g \in Gens, HomeFrame(g) \/ on_home_eof(g) PROVE PhonesCounted'
  BY <1>6, <1>a DEF HomeFrame, on_home_eof, on_registered, on_leader_ready,
    on_forwarded_result, on_initialize_result, on_load_result, on_reverse_request
<1>7. ASSUME NEW p \in Phones, PhoneText(p), ~answer_initialize(p)
      PROVE  PhonesCounted'
  BY <1>7, <1>a DEF PhoneText, on_load_request, on_close_request,
    on_other_request, on_phone_reply
<1> QED BY <1>1, <1>2, <1>3, <1>4, <1>5, <1>6, <1>7 DEF Next

(* on_phone_hello never hands out the id of a phone that is attached.      *)
LEMMA PhonesAlwaysCounted == Spec => []PhonesCounted
<1>1. Init => PhonesCounted
  BY DEF Init, PhonesCounted
<1> QED BY <1>1, TypeCorrect, PhonesCountedStep, PTL DEF Spec

-----------------------------------------------------------------------------
(* The away notices.                                                       *)

(* AwayNoticeCurrent is not inductive by itself: a phone that attaches and *)
(* only then initializes must not carry an old note into a present home.   *)
NoticeInv ==
  \A p \in Phones : lastNote[p] <=> (phones[p] = "Ready" /\ Away)

(* One handler keeps the notices current.                                  *)
LEMMA AwayNoticeStep ==
  TypeOK /\ PhonesCounted /\ NoticeInv /\ [Next]_vars => NoticeInv'
<1> SUFFICES ASSUME TypeOK, PhonesCounted, NoticeInv, [Next]_vars
             PROVE  NoticeInv'
  OBVIOUS
<1> USE DEF homeVars, tableVars, phoneVars, requestVars, reverseVars
<1>a. ASSUME finish_successor, cand # None, UNCHANGED phones
      PROVE  NoticeInv'
  BY <1>a DEF finish_successor, broadcast_away, NoticeInv, Away, TypeOK
<1>b. ASSUME UNCHANGED <<mux, phones, lastNote>> PROVE NoticeInv'
  BY <1>b DEF NoticeInv, Away
<1>1. CASE on_accepted
  BY <1>1, <1>b DEF on_accepted
<1>2. ASSUME NEW g \in Gens, NEW ready \in BOOLEAN, NEW version \in Versions,
             on_registered(g, ready, version)
      PROVE  NoticeInv'
  BY <1>2, <1>b DEF on_registered, fail_incoming
<1>3. ASSUME NEW g \in Gens, on_leader_ready(g) PROVE NoticeInv'
  BY <1>3, <1>b DEF on_leader_ready
<1>4. ASSUME NEW g \in Gens, NEW i \in ReqIds, NEW about \in SessionIdIn,
             on_forwarded_result(g, i, about)
      PROVE  NoticeInv'
  BY <1>4, <1>b DEF on_forwarded_result
<1>5. ASSUME NEW g \in Gens, NEW i \in ReqIds, NEW error \in BOOLEAN,
             on_initialize_result(g, i, error)
      PROVE  NoticeInv'
  <2>1. Known(g) /\ UNCHANGED phones
    BY <1>5 DEF on_initialize_result, Answers
  <2>2. CASE g # cand \/ error
    BY <1>5, <2>1, <2>2, <1>b DEF on_initialize_result, fail_incoming
  <2>3. CASE g = cand /\ ~error
    <3>1. after_follower_initialize(g, i) /\ cand # None
      BY <1>5, <2>1, <2>3 DEF on_initialize_result, Known
    <3>2. finish_successor \/ UNCHANGED <<mux, lastNote>>
      BY <3>1 DEF after_follower_initialize
    <3> QED BY <2>1, <3>1, <3>2, <1>a, <1>b
  <2> QED BY <2>2, <2>3
<1>6. ASSUME NEW g \in Gens, NEW i \in ReqIds, on_load_result(g, i)
      PROVE  NoticeInv'
  <2>1. Known(g) /\ UNCHANGED phones
    BY <1>6 DEF on_load_result, Answers
  <2>2. (cand # None /\ finish_successor) \/ UNCHANGED <<mux, lastNote>>
    BY <1>6, <2>1 DEF on_load_result, after_load_result, Known
  <2> QED BY <2>1, <2>2, <1>a, <1>b
<1>7. ASSUME NEW s \in Sessions, NEW interaction \in BOOLEAN,
             on_reverse_request(s, interaction)
      PROVE  NoticeInv'
  BY <1>7, <1>b DEF on_reverse_request
<1>8. ASSUME NEW g \in Gens, on_home_eof(g) PROVE NoticeInv'
  <2>1. CASE g = mux
    BY <1>8, <2>1 DEF on_home_eof, broadcast_away, NoticeInv, Away
  <2>2. CASE g # mux
    BY <1>8, <2>2, <1>b DEF on_home_eof, fail_incoming
  <2> QED BY <2>1, <2>2
<1>9. CASE on_deadline
  BY <1>9, <1>b DEF on_deadline, fail_incoming
<1>10. CASE on_phone_hello
  BY <1>10 DEF on_phone_hello, NoticeInv, PhonesCounted, Away, TypeOK
<1>11. ASSUME NEW p \in Phones, answer_initialize(p) PROVE NoticeInv'
  <2>1. ASSUME NEW q \in Phones
        PROVE  lastNote'[q] <=> (phones'[q] = "Ready" /\ mux = None)
    <3>1. CASE q # p
      BY <1>11, <3>1 DEF answer_initialize, NoticeInv, Away, TypeOK
    <3>2. CASE q = p /\ mux = None
      BY <1>11, <3>2 DEF answer_initialize, Away, TypeOK
    <3>3. CASE q = p /\ mux # None
      BY <1>11, <3>3 DEF answer_initialize, NoticeInv, Away, TypeOK
    <3> QED BY <3>1, <3>2, <3>3
  <2> QED BY <1>11, <2>1 DEF answer_initialize, NoticeInv, Away
<1>12. ASSUME NEW p \in Phones, NEW o \in Origins, NEW about \in SessionIdIn,
              on_load_request(p, o, about) \/ on_close_request(p, o, about)
       PROVE  NoticeInv'
  BY <1>12, <1>b DEF on_load_request, on_close_request
<1>13. ASSUME NEW p \in Phones, NEW o \in Origins,
              NEW method \in {"session/prompt", "other"},
              on_other_request(p, o, method)
       PROVE  NoticeInv'
  BY <1>13, <1>b DEF on_other_request
<1>14. ASSUME NEW e, on_phone_reply(e) PROVE NoticeInv'
  BY <1>14, <1>b DEF on_phone_reply
<1>15. ASSUME NEW p \in Phones, on_phone_eof(p) PROVE NoticeInv'
  BY <1>15 DEF on_phone_eof, NoticeInv, Away, TypeOK
<1>16. CASE shutdown
  BY <1>16 DEF shutdown, NoticeInv
<1>17. CASE UNCHANGED vars
  BY <1>17, <1>b DEF vars
<1> QED
  BY <1>1, <1>2, <1>3, <1>4, <1>5, <1>6, <1>7, <1>8, <1>9, <1>10, <1>11, <1>12,
     <1>13, <1>14, <1>15, <1>16, <1>17
  DEF Next, HomeFrame, PhoneText

(* The last host_away note an initialized phone got always says whether    *)
(* the hub has a home, whatever links and phones come and go: broadcasts   *)
(* on loss and return, and the note inside initialize, together miss no    *)
(* case.                                                                   *)
THEOREM AwayNoticeAlwaysCurrent == Spec => []AwayNoticeCurrent
<1>1. Init => NoticeInv
  BY DEF Init, NoticeInv
<1>2. NoticeInv => AwayNoticeCurrent
  BY DEF NoticeInv, AwayNoticeCurrent
<1> QED BY <1>1, <1>2, TypeCorrect, PhonesAlwaysCounted, AwayNoticeStep, PTL DEF Spec

-----------------------------------------------------------------------------
(* The watch and driver tables.                                            *)

(* One handler keeps the tables in agreement.                              *)
LEMMA SessionTablesStep ==
  TypeOK /\ PhonesCounted /\ SessionTables /\ [Next]_vars => SessionTables'
<1> SUFFICES ASSUME TypeOK, PhonesCounted, SessionTables, [Next]_vars,
                    ~stopped, ~stopped'
             PROVE  SessionTables'
  BY DEF SessionTables, Next, vars
<1> USE DEF homeVars, tableVars, phoneVars, requestVars, reverseVars
<1>a. ASSUME UNCHANGED <<phones, watchers, driver>> PROVE SessionTables'
  BY <1>a DEF SessionTables
<1>b. ASSUME NEW p \in Phones, NEW about, watch(p, about), UNCHANGED phones
      PROVE  SessionTables'
  BY <1>b DEF watch, SessionTables, TypeOK, None, Phones
<1>1. CASE on_phone_hello
  <2>1. ASSUME NEW s \in Sessions, NEW p \in watchers[s]
        PROVE  phones'[p] = "Ready"
    <3>1. p \in Phones /\ p <= next_phone /\ phones[p] = "Ready"
      BY DEF TypeOK, PhonesCounted, SessionTables
    <3> QED BY <1>1, <3>1 DEF on_phone_hello, TypeOK
  <2> QED BY <1>1, <2>1 DEF on_phone_hello, SessionTables
<1>2. ASSUME NEW p \in Phones, answer_initialize(p) PROVE SessionTables'
  BY <1>2 DEF answer_initialize, SessionTables, TypeOK
<1>3. ASSUME NEW p \in Phones, NEW o \in Origins, NEW about \in SessionIdIn,
             on_load_request(p, o, about)
      PROVE  SessionTables'
  BY <1>3, <1>b DEF on_load_request
<1>4. ASSUME NEW p \in Phones, NEW o \in Origins, NEW about \in SessionIdIn,
             on_close_request(p, o, about)
      PROVE  SessionTables'
  BY <1>4 DEF on_close_request, unwatch, SessionTables, TypeOK
<1>5. ASSUME NEW p \in Phones, NEW o \in Origins,
             NEW method \in {"session/prompt", "other"},
             on_other_request(p, o, method)
      PROVE  SessionTables'
  BY <1>5, <1>a DEF on_other_request
<1>6. ASSUME NEW e, on_phone_reply(e) PROVE SessionTables'
  BY <1>6, <1>a DEF on_phone_reply
<1>7. ASSUME NEW p \in Phones, on_phone_eof(p) PROVE SessionTables'
  BY <1>7 DEF on_phone_eof, SessionTables, TypeOK
<1>8. ASSUME NEW g \in Gens, NEW i \in ReqIds, NEW about \in SessionIdIn,
             on_forwarded_result(g, i, about)
      PROVE  SessionTables'
  <2>1. outstanding[i].phone \in Phones
    BY <1>8 DEF on_forwarded_result, Answers, TypeOK, Waits, ForwardedWaits,
                NoWait, HubInitialize, HubLoad
  <2> QED BY <1>8, <2>1, <1>a, <1>b DEF on_forwarded_result
<1>9. ASSUME NEW g \in Gens, HomeFrame(g) \/ on_home_eof(g),
             \A i \in ReqIds, about \in SessionIdIn : ~on_forwarded_result(g, i, about)
      PROVE  SessionTables'
  BY <1>9, <1>a DEF HomeFrame, on_home_eof, on_registered, on_leader_ready,
    on_initialize_result, on_load_result, on_reverse_request
<1>10. CASE on_accepted \/ on_deadline \/ UNCHANGED vars
  BY <1>10, <1>a DEF on_accepted, on_deadline, vars
<1>11. CASE shutdown
  BY <1>11 DEF shutdown
<1> QED
  BY <1>1, <1>2, <1>3, <1>4, <1>5, <1>6, <1>7, <1>8, <1>9, <1>10, <1>11
  DEF Next, PhoneText

(* Only attached, initialized phones watch, and a session has one of its   *)
(* watchers as driver exactly while someone watches it: no close, hang-up  *)
(* or late result leaves a dangling entry.                                 *)
THEOREM SessionTablesAgree == Spec => []SessionTables
<1>1. Init => SessionTables
  BY DEF Init, SessionTables
<1> QED BY <1>1, TypeCorrect, PhonesAlwaysCounted, SessionTablesStep, PTL DEF Spec

-----------------------------------------------------------------------------
(* First answer wins.                                                      *)

(* An open claim has not been answered, and claims and answers exist only  *)
(* under ids already given out, so a fresh claim starts unanswered.        *)
ClaimInv ==
  \A i \in ReqIds :
    /\ answers[i] <= 1
    /\ claims[i] = "Open" => answers[i] = 0
    /\ i > next_req => claims[i] = "None" /\ answers[i] = 0

(* One handler answers no claim twice.                                     *)
LEMMA ClaimStep == TypeOK /\ ClaimInv /\ [Next]_vars => ClaimInv'
<1> SUFFICES ASSUME TypeOK, ClaimInv, [Next]_vars PROVE ClaimInv'
  OBVIOUS
<1> USE DEF homeVars, tableVars, phoneVars, requestVars, reverseVars
<1>a. ASSUME next_req' \in Nat, next_req <= next_req', UNCHANGED <<claims, answers>>
      PROVE  ClaimInv'
  BY <1>a DEF ClaimInv, TypeOK, ReqIds
<1>c. ASSUME UNCHANGED <<next_req, claims, answers>> PROVE ClaimInv'
  BY <1>c DEF ClaimInv
<1>b. ASSUME NEW g, NEW method, NEW about, NEW wait,
             send_request(g, method, about, wait) \/ UNCHANGED requestVars
      PROVE  next_req' \in Nat /\ next_req <= next_req'
  BY <1>b DEF send_request, alloc_reqs, TypeOK
<1>1. ASSUME NEW s \in Sessions, NEW interaction \in BOOLEAN,
             on_reverse_request(s, interaction)
      PROVE  ClaimInv'
  BY <1>1 DEF on_reverse_request, alloc_reqs, ClaimInv, TypeOK, ReqIds
<1>2. ASSUME NEW e, on_phone_reply(e) PROVE ClaimInv'
  <2>1. e.claim \in ReqIds
    BY <1>2 DEF on_phone_reply, TypeOK
  <2>2. ASSUME NEW i \in ReqIds
        PROVE  /\ answers'[i] <= 1
               /\ claims'[i] = "Open" => answers'[i] = 0
               /\ i > next_req' => claims'[i] = "None" /\ answers'[i] = 0
    <3>1. CASE i # e.claim
      BY <1>2, <2>1, <3>1 DEF on_phone_reply, ClaimInv, TypeOK
    <3>2. CASE i = e.claim /\ claims[i] = "Open"
      <4>1. claims'[i] = "Taken" /\ answers'[i] \in {answers[i], answers[i] + 1}
        BY <1>2, <3>2 DEF on_phone_reply, take, TypeOK
      <4>2. answers[i] = 0 /\ ~(i > next_req')
        BY <1>2, <3>2 DEF on_phone_reply, ClaimInv
      <4> QED BY <4>1, <4>2
    <3>3. CASE i = e.claim /\ claims[i] # "Open"
      <4>1. claims'[i] = claims[i] /\ answers'[i] = answers[i]
        BY <1>2, <3>3 DEF on_phone_reply, take, TypeOK
      <4> QED BY <1>2, <4>1 DEF on_phone_reply, ClaimInv
    <3> QED BY <3>1, <3>2, <3>3
  <2> QED BY <2>2 DEF ClaimInv
<1>3. ASSUME NEW g \in Gens, NEW i \in ReqIds, NEW error \in BOOLEAN,
             on_initialize_result(g, i, error)
      PROVE  ClaimInv'
  <2>1. Cardinality({s \in Sessions : watchers[s] # {}}) \in Nat
    BY WatchedFinite
  <2>2. next_req' \in Nat /\ next_req <= next_req'
    BY <1>3, <2>1 DEF on_initialize_result, after_follower_initialize,
                      alloc_loads, alloc_reqs, TypeOK
  <2> QED BY <1>3, <2>2, <1>a DEF on_initialize_result
<1>4. ASSUME NEW g \in Gens, NEW ready \in BOOLEAN, NEW version \in Versions,
             on_registered(g, ready, version)
      PROVE  ClaimInv'
  BY <1>4, <1>a, <1>b DEF on_registered, send_follower_initialize
<1>9. ASSUME NEW g \in Gens, on_leader_ready(g) PROVE ClaimInv'
  BY <1>9, <1>a, <1>b DEF on_leader_ready, send_follower_initialize
<1>5. ASSUME NEW p \in Phones, NEW o \in Origins, NEW about \in SUBSET Sessions,
             NEW method \in Methods,
             \/ on_load_request(p, o, about)
             \/ on_close_request(p, o, about)
             \/ on_other_request(p, o, method)
      PROVE  ClaimInv'
  BY <1>5, <1>a, <1>b DEF on_load_request, on_close_request, on_other_request,
                          forward_request
<1>6. ASSUME NEW g \in Gens, NEW i \in ReqIds, NEW about \in SessionIdIn,
             on_forwarded_result(g, i, about) \/ on_load_result(g, i)
      PROVE  ClaimInv'
  BY <1>6, <1>c DEF on_forwarded_result, on_load_result
<1>10. ASSUME NEW g \in Gens, on_home_eof(g) PROVE ClaimInv'
  BY <1>10, <1>c DEF on_home_eof
<1>7. ASSUME NEW p \in Phones, answer_initialize(p) \/ on_phone_eof(p)
      PROVE  ClaimInv'
  BY <1>7, <1>c DEF answer_initialize, on_phone_eof
<1>8. CASE on_accepted \/ on_deadline \/ on_phone_hello \/ shutdown \/ UNCHANGED vars
  BY <1>8, <1>c DEF on_accepted, on_deadline, on_phone_hello, shutdown, vars
<1> QED
  <2>1. {} \in SessionIdIn /\ SessionIdIn \subseteq SUBSET Sessions
    BY DEF SessionIdIn
  <2>2. {"session/prompt", "other"} \subseteq Methods
    BY DEF Methods
  <2>3. ASSUME NEW g \in Gens, HomeFrame(g) \/ on_home_eof(g) PROVE ClaimInv'
    BY <2>3, <1>1, <1>3, <1>4, <1>6, <1>9, <1>10, <2>1 DEF HomeFrame
  <2>4. ASSUME NEW p \in Phones, PhoneText(p) PROVE ClaimInv'
    BY <2>4, <1>2, <1>5, <1>7, <2>1, <2>2 DEF PhoneText
  <2> QED BY <2>3, <2>4, <1>7, <1>8 DEF Next

(* However many phones were asked, each reverse request of the home is     *)
(* answered at most once.                                                  *)
THEOREM FirstAnswerWins == Spec => []OneAnswer
<1>1. Init => ClaimInv
  BY DEF Init, ClaimInv
<1>2. ClaimInv => OneAnswer
  BY DEF ClaimInv, OneAnswer
<1> QED BY <1>1, <1>2, TypeCorrect, ClaimStep, PTL DEF Spec

-----------------------------------------------------------------------------
(* What phones may still answer.                                           *)

(* ReverseBacked with the reason that aq ids are unique: none is above the *)
(* counter they are taken from.                                            *)
ReverseInv ==
  ~stopped =>
    \A e \in reverse :
      /\ phones[e.phone] = "Ready"
      /\ claims[e.claim] # "None"
      /\ e.rid <= reverse_seq
      /\ \A f \in reverse : e.rid = f.rid => e = f

(* One handler keeps every ask backed by a phone and a claim.              *)
LEMMA ReverseStep ==
  TypeOK /\ PhonesCounted /\ SessionTables /\ ReverseInv /\ [Next]_vars => ReverseInv'
<1> SUFFICES ASSUME TypeOK, PhonesCounted, SessionTables, ReverseInv, [Next]_vars,
                    ~stopped, ~stopped'
             PROVE  ReverseInv'
  BY DEF ReverseInv, Next, vars
<1> USE DEF homeVars, tableVars, phoneVars, requestVars, reverseVars
<1>a. ASSUME UNCHANGED <<phones, reverse, claims, reverse_seq>> PROVE ReverseInv'
  BY <1>a DEF ReverseInv
<1>1. ASSUME NEW s \in Sessions, NEW interaction \in BOOLEAN,
             on_reverse_request(s, interaction)
      PROVE  ReverseInv'
  <2> DEFINE targets == IF interaction THEN watchers[s] ELSE {driver[s]} \ {None}
             n == Cardinality(targets)
             key == next_req + 1
             range == (reverse_seq + 1)..(reverse_seq + n)
  <2>1. targets \subseteq Phones /\ \A p \in targets : phones[p] = "Ready"
    BY DEF TypeOK, SessionTables
  <2>2. n \in Nat
    BY <2>1, PhonesFinite
  <2> HIDE DEF n, targets
  <2>3. /\ alloc_reqs(1)
        /\ reverse_seq' = reverse_seq + n
        /\ claims' = [claims EXCEPT ![key] = "Open"]
        /\ \E rids \in Bijection(targets, range) :
             reverse' = reverse \cup {[phone |-> p, rid |-> rids[p],
                                       claim |-> key] : p \in targets}
        /\ UNCHANGED phones
    BY <1>1 DEF on_reverse_request, n, targets
  <2>4. PICK rids \in Bijection(targets, range) :
             reverse' = reverse \cup {[phone |-> p, rid |-> rids[p],
                                       claim |-> key] : p \in targets}
    BY <2>3
  <2>5. /\ rids \in [targets -> range]
        /\ \A p, q \in targets : rids[p] = rids[q] => p = q
    BY DEF Bijection, Injection, IsInjective
  <2>6. /\ reverse_seq \in Nat /\ key \in ReqIds
        /\ \A e \in reverse : e.rid \in Nat /\ e.claim \in ReqIds
    BY <2>3, Bounds DEF TypeOK, Rids, ReqIds, alloc_reqs
  <2>7. \A i \in ReqIds : claims'[i] \in {claims[i], "Open"}
    BY <2>3 DEF TypeOK
  <2>8. claims'[key] = "Open"
    BY <2>3, <2>6 DEF TypeOK
  <2> HIDE DEF key
  <2> DEFINE new(p) == [phone |-> p, rid |-> rids[p], claim |-> key]
  <2>9. \A p \in targets : /\ rids[p] \in Nat
                           /\ reverse_seq < rids[p] /\ rids[p] <= reverse_seq'
    BY <2>2, <2>3, <2>5, <2>6
  <2>10. \A e \in reverse' : \/ e \in reverse
                             \/ \E p \in targets : e = new(p)
    BY <2>4
  <2>11. ASSUME NEW e \in reverse'
         PROVE  /\ phones'[e.phone] = "Ready"
                /\ claims'[e.claim] # "None"
                /\ e.rid <= reverse_seq'
    <3>1. CASE e \in reverse
      BY <2>2, <2>3, <2>6, <2>7, <3>1 DEF ReverseInv
    <3>2. ASSUME NEW p \in targets, e = new(p)
          PROVE  /\ phones'[e.phone] = "Ready"
                 /\ claims'[e.claim] # "None"
                 /\ e.rid <= reverse_seq'
      BY <2>1, <2>3, <2>8, <2>9, <3>2
    <3> QED BY <2>10, <3>1, <3>2
  <2>12. ASSUME NEW e \in reverse', NEW f \in reverse', e.rid = f.rid
         PROVE  e = f
    <3>1. CASE e \in reverse /\ f \in reverse
      BY <2>12, <3>1 DEF ReverseInv
    <3>2. CASE e \in reverse /\ f \notin reverse
      BY <2>6, <2>9, <2>10, <2>12, <3>2 DEF ReverseInv
    <3>3. CASE e \notin reverse /\ f \in reverse
      BY <2>6, <2>9, <2>10, <2>12, <3>3 DEF ReverseInv
    <3>4. CASE e \notin reverse /\ f \notin reverse
      BY <2>5, <2>10, <2>12, <3>4
    <3> QED BY <3>1, <3>2, <3>3, <3>4
  <2> QED BY <2>11, <2>12 DEF ReverseInv
<1>2. ASSUME NEW e, on_phone_reply(e) PROVE ReverseInv'
  <2>1. /\ reverse' \subseteq reverse /\ UNCHANGED <<phones, reverse_seq>>
        /\ claims' = [claims EXCEPT ![e.claim] = take(@)]
    BY <1>2 DEF on_phone_reply
  <2>2. \A i \in ReqIds : claims[i] # "None" => claims'[i] # "None"
    BY <2>1 DEF take, TypeOK
  <2>3. \A f \in reverse : f.claim \in ReqIds
    BY DEF TypeOK
  <2> QED BY <2>1, <2>2, <2>3 DEF ReverseInv
<1>3. ASSUME NEW p \in Phones, on_phone_eof(p) PROVE ReverseInv'
  BY <1>3 DEF on_phone_eof, forget_asks, ReverseInv, TypeOK
<1>4. CASE on_phone_hello
  <2>1. /\ phones' = [phones EXCEPT ![next_phone + 1] = "Connected"]
        /\ UNCHANGED <<reverse, claims, reverse_seq>>
    BY <1>4 DEF on_phone_hello
  <2>2. ASSUME NEW e \in reverse PROVE phones'[e.phone] = phones[e.phone]
    <3>1. e.phone \in Phones /\ e.phone <= next_phone
      BY DEF ReverseInv, PhonesCounted, TypeOK
    <3> QED BY <2>1, <3>1 DEF TypeOK
  <2> QED BY <2>1, <2>2 DEF ReverseInv
<1>5. ASSUME NEW p \in Phones, answer_initialize(p) PROVE ReverseInv'
  BY <1>5 DEF answer_initialize, ReverseInv, TypeOK
<1>6. ASSUME NEW p \in Phones, NEW o \in Origins, NEW about \in SessionIdIn,
             on_load_request(p, o, about) \/ on_close_request(p, o, about)
      PROVE  ReverseInv'
  BY <1>6, <1>a DEF on_load_request, on_close_request
<1>7. ASSUME NEW p \in Phones, NEW o \in Origins,
             NEW method \in {"session/prompt", "other"},
             on_other_request(p, o, method)
      PROVE  ReverseInv'
  BY <1>7, <1>a DEF on_other_request
<1>8. ASSUME NEW g \in Gens, HomeFrame(g) \/ on_home_eof(g),
             \A s \in Sessions, interaction \in BOOLEAN : ~on_reverse_request(s, interaction)
      PROVE  ReverseInv'
  BY <1>8, <1>a DEF HomeFrame, on_home_eof, on_registered, on_leader_ready,
    on_forwarded_result, on_initialize_result, on_load_result
<1>9. CASE on_accepted \/ on_deadline \/ UNCHANGED vars
  BY <1>9, <1>a DEF on_accepted, on_deadline, vars
<1>10. CASE shutdown
  BY <1>10 DEF shutdown
<1> QED
  BY <1>1, <1>2, <1>3, <1>4, <1>5, <1>6, <1>7, <1>8, <1>9, <1>10
  DEF Next, PhoneText

(* Every ask the hub still expects an answer to belongs to a phone that is *)
(* attached and to a claim that exists, and no other phone was given its   *)
(* aq id: phones that leave take their asks with them.                     *)
THEOREM ReverseAlwaysBacked == Spec => []ReverseBacked
<1>1. Init => ReverseInv
  BY DEF Init, ReverseInv
<1>2. ReverseInv => ReverseBacked
  BY DEF ReverseInv, ReverseBacked
<1> QED
  BY <1>1, <1>2, TypeCorrect, PhonesAlwaysCounted, SessionTablesAgree, ReverseStep, PTL
  DEF Spec

-----------------------------------------------------------------------------
(* Who drives a session.                                                   *)

(* A step that changes a driver.                                           *)
DriverHandedOn ==
  \A s \in Sessions :
    driver[s] # None /\ driver'[s] # driver[s] => driver[s] \notin watchers'[s]

(* The driver of a session is never replaced while it watches: not by a    *)
(* phone that loads the same session, nor by the close or the end of       *)
(* another one.                                                            *)
THEOREM DriverAlwaysStable == Spec => DriverStable
<1>1. TypeOK /\ [Next]_vars => [DriverHandedOn]_vars
  <2> SUFFICES ASSUME TypeOK, Next PROVE DriverHandedOn
    OBVIOUS
  <2> USE DEF homeVars, tableVars, phoneVars, requestVars, reverseVars
  <2>a. ASSUME UNCHANGED driver PROVE DriverHandedOn
    BY <2>a DEF DriverHandedOn
  <2>b. ASSUME NEW p, NEW about, watch(p, about) PROVE DriverHandedOn
    BY <2>b DEF watch, DriverHandedOn
  <2>1. ASSUME NEW g \in Gens, HomeFrame(g) \/ on_home_eof(g) PROVE DriverHandedOn
    BY <2>1, <2>a, <2>b DEF HomeFrame, on_home_eof, on_registered, on_leader_ready,
      on_forwarded_result, on_initialize_result, on_load_result, on_reverse_request
  <2>2. ASSUME NEW p \in Phones, NEW o \in Origins, NEW about \in SessionIdIn,
               on_close_request(p, o, about)
        PROVE  DriverHandedOn
    BY <2>2 DEF on_close_request, unwatch, DriverHandedOn, TypeOK
  <2>3. ASSUME NEW p \in Phones, on_phone_eof(p) PROVE DriverHandedOn
    BY <2>3 DEF on_phone_eof, DriverHandedOn, TypeOK
  <2>4. ASSUME NEW p \in Phones, PhoneText(p) PROVE DriverHandedOn
    BY <2>4, <2>2, <2>a, <2>b DEF PhoneText, answer_initialize, on_load_request,
      on_other_request, on_phone_reply
  <2>5. CASE on_accepted \/ on_deadline \/ on_phone_hello \/ shutdown
    BY <2>5, <2>a DEF on_accepted, on_deadline, on_phone_hello, shutdown
  <2> QED BY <2>1, <2>3, <2>4, <2>5 DEF Next
<1> QED BY <1>1, TypeCorrect, PTL DEF Spec, DriverStable, DriverHandedOn

=============================================================================
