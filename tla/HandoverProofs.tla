--------------------------- MODULE HandoverProofs ---------------------------
(***************************************************************************)
(* Theorems about the hub and its leader while one snorkel replaces        *)
(* another, for every number of links, sessions, requests and updates.     *)
(***************************************************************************)
EXTENDS HubHomeProofs, Handover

(* What is known of the hub, here as in module HubHomeProofs.              *)
HubKept == TypeOK /\ GensInv /\ IdsInv /\ HandshakeInv /\ ~stopped

(* What travels on a link to the hub.                                      *)
LeaderMessage ==
  [kind : {"Registered"}] \cup [kind : {"Result"}, id : ReqIds]
    \cup [kind : {"Update"}, session : Sessions, n : Nat]

LeaderTypes ==
  /\ wire \in [Gens -> Seq(LeaderMessage)]
  /\ subs \in [Gens -> SUBSET Sessions]
  /\ since \in [Gens -> [Sessions -> Nat]]
  /\ emitted \in [Sessions -> Nat]
  /\ got \in [Phones -> [Sessions -> Seq(Nat)]]
  /\ joined \in [Phones -> [Sessions -> Nat]]
  /\ gone \subseteq Gens

(* The leader and the hub agree on what was taken: an answer the hub has,  *)
(* or will have, is to a request the leader took; a request it took has    *)
(* subscribed its link; and a link the leader lost is one the hub dropped. *)
LeaderInv ==
  /\ \A i \in done : \E a \in asked : a.id = i
  /\ \A a \in asked : a.id \in done => a.about \subseteq subs[a.gen]
  /\ \A a \in asked : Known(a.gen) /\ outstanding[a.id] = NoWait => a.id \in done
  /\ \A g \in Gens : \A k \in 1..Len(wire[g]) :
       wire[g][k].kind = "Result" => wire[g][k].id \in done
  /\ \A g \in gone : g <= next_gen /\ ~Known(g)

(* A link that waits for loads waits for one at least, and each is on its  *)
(* way or being asked.                                                     *)
PendingInv ==
  stage = "WaitLoads" =>
    /\ pending # NoLoads
    /\ \A s \in Sessions : pending[s] # None =>
         /\ outstanding[pending[s]] = HubLoad
         /\ \E a \in asked : a.gen = cand /\ a.id = pending[s]

(* A link is subscribed only to what it was asked for; its initialize      *)
(* names no session.                                                       *)
AboutInv ==
  /\ \A a \in asked : a.wait = HubInitialize => a.about = {}
  /\ \A g \in Gens : \A s \in subs[g] : \E a \in asked : a.gen = g /\ s \in a.about

(* Message e is in stream q; and it is there behind every result.          *)
In(q, e) == \E k \in 1..Len(q) : q[k] = e
Behind(q, e) ==
  \E k \in 1..Len(q) : q[k] = e /\ \A j \in (k + 1)..Len(q) : q[j].kind # "Result"

(* The answer to a request the leader took is on its way until the hub     *)
(* has it.                                                                 *)
OnItsWayInv ==
  \A a \in asked :
    Known(a.gen) /\ a.id \in done /\ outstanding[a.id] # NoWait =>
      In(wire[a.gen], Result(a.id))

(* The updates the leader owes to link g's phones.                         *)
Owed(g, s) == (since[g][s] + 1)..emitted[s]

(* An update owed on the serving link is in its stream, or was passed on   *)
(* to those who watched when it was sent.                                  *)
MuxInv ==
  mux # None =>
    \A s \in subs[mux] : \A n \in Owed(mux, s) :
      \/ In(wire[mux], Update(s, n))
      \/ \A p \in watchers[s] : n > joined[p][s] => In(got[p][s], n)

(* The leader took everything link g was asked.                            *)
AllTaken(g) == \A a \in asked : a.gen = g => a.id \in done

(* Once all that a link coming up was asked is taken, every update owed on *)
(* it is in its stream, behind the last answer the hub waits for: the hub  *)
(* meets none of them before that link serves.                             *)
CandInv ==
  cand # None /\ AllTaken(cand) =>
    \A s \in subs[cand] : \A n \in Owed(cand, s) : Behind(wire[cand], Update(s, n))

-----------------------------------------------------------------------------
(* The hub's steps.                                                        *)

(* Each step is one of module Hub, or leaves the hub alone.                *)
LEMMA HubSteps ==
  ASSUME TypeOK, ~stopped, [HandoverNext]_allVars
  PROVE  [Next]_vars /\ ~stopped'
<1> USE DEF homeVars, tableVars, phoneVars, requestVars, reverseVars
<1>0. \A a \in asked : a.id \in ReqIds
  BY DEF TypeOK, Asks
<1>1. CASE Accepts
  BY <1>1 DEF Accepts, on_accepted, Next
<1>2. CASE PhoneSteps
  <2>1. CASE on_phone_hello
    BY <2>1 DEF on_phone_hello, Next
  <2>2. ASSUME NEW p \in Phones, answer_initialize(p) PROVE [Next]_vars /\ ~stopped'
    BY <2>2 DEF answer_initialize, Next, PhoneText
  <2>3. ASSUME NEW p \in Phones, NEW o \in Origins, NEW s \in Sessions,
               on_load_request(p, o, {s})
        PROVE  [Next]_vars /\ ~stopped'
    <3>1. {s} \in SessionIdIn
      BY DEF SessionIdIn
    <3>2. PhoneText(p)
      BY <2>3, <3>1 DEF PhoneText
    <3>3. ~stopped'
      BY <2>3 DEF on_load_request
    <3> QED BY <3>2, <3>3 DEF Next
  <2> QED BY <1>2, <2>1, <2>2, <2>3 DEF PhoneSteps
<1>3. ASSUME NEW g \in Gens, Receives(g) PROVE [Next]_vars /\ ~stopped'
  <2> DEFINE m == Head(wire[g])
  <2>1. CASE UNCHANGED vars
    BY <2>1 DEF vars
  <2>2. CASE on_registered(g, TRUE, LEADER_PROTOCOL_VERSION)
    BY <2>2, Bounds DEF Next, HomeFrame, on_registered
  <2>3. CASE on_forwarded_result(g, m.id, {})
    <3>1. m.id \in ReqIds /\ {} \in SessionIdIn
      BY <1>0, <2>3 DEF on_forwarded_result, Answers, SessionIdIn
    <3>2. HomeFrame(g)
      BY <2>3, <3>1 DEF HomeFrame
    <3>3. ~stopped'
      BY <2>3 DEF on_forwarded_result
    <3> QED BY <3>2, <3>3 DEF Next
  <2>4. CASE on_initialize_result(g, m.id, FALSE)
    <3>1. m.id \in ReqIds
      BY <1>0, <2>4 DEF on_initialize_result, Answers
    <3>2. HomeFrame(g)
      BY <2>4, <3>1 DEF HomeFrame
    <3>3. ~stopped'
      BY <2>4 DEF on_initialize_result
    <3> QED BY <3>2, <3>3 DEF Next
  <2>5. CASE on_load_result(g, m.id)
    <3>1. m.id \in ReqIds
      BY <1>0, <2>5 DEF on_load_result, Answers
    <3>2. HomeFrame(g)
      BY <2>5, <3>1 DEF HomeFrame
    <3>3. ~stopped'
      BY <2>5 DEF on_load_result
    <3> QED BY <3>2, <3>3 DEF Next
  <2> QED BY <1>3, <2>1, <2>2, <2>3, <2>4, <2>5 DEF Receives
<1>4. CASE UNCHANGED vars
  BY <1>4 DEF vars
<1> QED
  BY <1>1, <1>2, <1>3, <1>4 DEF HandoverNext, LeaderLoses, LeaderTakes, LeaderUpdates,
                                allVars

(* So what Hub keeps is kept here.                                         *)
LEMMA HubKeptStep == HubKept /\ [HandoverNext]_allVars => HubKept'
BY HubSteps, TypeStep, GensStep, IdsStep, HandshakeStep DEF HubKept

(* It holds from the start.                                                *)
LEMMA HubKeptAlways == HandoverSpec => []HubKept
<1>1. HandoverInit => HubKept
  <2>1. Init => TypeOK
    BY InitTyped
  <2>2. Init => GensInv /\ IdsInv /\ HandshakeInv /\ ~stopped
    BY DEF Init, GensInv, None, IdsInv, HandshakeInv, MuxHandshakeDone
  <2> QED BY <2>1, <2>2 DEF HandoverInit, HubKept
<1> QED BY <1>1, HubKeptStep, PTL DEF HandoverSpec

(* The hub and its leader together behave as module Hub lets them: the     *)
(* leader modelled here is one of those the theorems about Hub are about.  *)
THEOREM HandoverIsHub == HandoverSpec => Spec
<1>1. HandoverInit => Init
  BY DEF HandoverInit
<1>2. HubKept /\ [HandoverNext]_allVars => [Next]_vars
  BY HubSteps DEF HubKept
<1> QED BY <1>1, <1>2, HubKeptAlways, PTL DEF HandoverSpec, Spec

-----------------------------------------------------------------------------
(* What one step of the hub does to its requests.                          *)

(* The requests in `answered' are answered, the others keep their waits;   *)
(* new requests have new ids and wait; only a new link becomes known; the  *)
(* serving link only gives way to a candidate.                             *)
HubMoves(answered) ==
  /\ asked \subseteq asked'
  /\ \A a \in asked' \ asked :
       /\ a.id > next_req /\ outstanding'[a.id] # NoWait
       /\ a.wait = HubInitialize => a.about = {}
  /\ \A a \in asked :
       outstanding'[a.id] = IF a.id \in answered THEN NoWait ELSE outstanding[a.id]
  /\ next_gen <= next_gen'
  /\ \A g \in Gens : Known(g)' => Known(g) \/ (g = next_gen + 1 /\ next_gen' = g)
  /\ \A s \in Sessions : watchers[s] \subseteq watchers'[s]
  /\ mux' # mux => mux' = cand

(* The ids and links of the requests are in their ranges, before a step    *)
(* and after it.                                                           *)
LEMMA AskedBounds ==
  ASSUME HubKept, HubKept'
  PROVE  /\ next_req \in Nat /\ next_gen \in Nat /\ next_gen' \in Nat
         /\ \A a \in asked : a.id \in Nat /\ a.id <= next_req
         /\ \A a \in asked : a.gen \in Gens /\ a.gen \in Nat /\ a.gen <= next_gen
         /\ \A a \in asked' : a.id \in Nat
<1>1. /\ next_req \in Nat /\ next_gen \in Nat /\ next_gen' \in Nat
      /\ asked \subseteq Asks /\ asked' \subseteq Asks
  BY DEF HubKept, TypeOK
<1>2. /\ \A a \in asked : a.id <= next_req
      /\ \A a \in asked : a.gen <= next_gen
  BY DEF HubKept, IdsInv, HandshakeInv
<1>3. \A a \in Asks : a.id \in Nat /\ a.gen \in Gens /\ a.gen \in Nat
  BY DEF Asks, ReqIds, Gens
<1> QED BY <1>1, <1>2, <1>3

(* A step that asks nothing new.                                           *)
LEMMA MovesQuiet ==
  ASSUME TypeOK, UNCHANGED asked, NEW answered,
         \A j \in ReqIds :
           outstanding'[j] = IF j \in answered THEN NoWait ELSE outstanding[j],
         next_gen <= next_gen',
         \A g \in Gens : Known(g)' => Known(g) \/ (g = next_gen + 1 /\ next_gen' = g),
         \A s \in Sessions : watchers[s] \subseteq watchers'[s],
         mux' # mux => mux' = cand
  PROVE  HubMoves(answered)
<1>1. \A a \in asked : a.id \in ReqIds
  BY DEF TypeOK, Asks
<1> QED BY <1>1 DEF HubMoves

(* A step that leaves the hub alone.                                       *)
LEMMA QuietMoves ==
  ASSUME HubKept, UNCHANGED vars PROVE HubMoves({})
<1>1. UNCHANGED <<mux, cand, asked, outstanding, watchers, next_gen>>
  BY DEF vars
<1>2. \A g \in Gens : Known(g)' => Known(g)
  BY <1>1 DEF Known
<1>3. next_gen \in Nat
  BY DEF HubKept, TypeOK
<1> QED BY <1>1, <1>2, <1>3, MovesQuiet DEF HubKept

(* A step that sends one request.                                          *)
LEMMA MovesSend ==
  ASSUME HubKept, NEW g, NEW method, NEW about, NEW wait,
         send_request(g, method, about, wait), wait # NoWait,
         UNCHANGED <<mux, cand, next_gen>>,
         wait = HubInitialize => about = {},
         \A s \in Sessions : watchers[s] \subseteq watchers'[s]
  PROVE  HubMoves({})
<1> DEFINE i == next_req + 1
           new == Ask(g, i, method, about, wait)
<1>1. /\ next_req \in Nat /\ next_gen \in Nat /\ next_req + 1 <= MaxReq
      /\ outstanding' = [outstanding EXCEPT ![i] = wait]
      /\ asked' = asked \cup {new} /\ outstanding \in [ReqIds -> Waits]
  BY DEF send_request, alloc_reqs, HubKept, TypeOK
<1>2. new.id = i /\ new.about = about /\ new.wait = wait
  BY DEF Ask
<1>3. i \in ReqIds
  BY <1>1, Bounds DEF ReqIds
<1>4. \A a \in asked : a.id \in ReqIds /\ a.id # i
  BY <1>1 DEF HubKept, IdsInv, TypeOK, Asks, ReqIds
<1> HIDE DEF new
<1>5. outstanding'[i] = wait /\ i > next_req
  BY <1>1, <1>3
<1>6. \A a \in asked : outstanding'[a.id] = outstanding[a.id]
  BY <1>1, <1>4
<1>7. \A h \in Gens : Known(h)' => Known(h)
  BY DEF Known
<1> QED BY <1>1, <1>2, <1>5, <1>6, <1>7 DEF HubMoves

(* The answer to a candidate's initialize.                                 *)
LEMMA MovesInitialize ==
  ASSUME HubKept, NEW g \in Gens, NEW i \in ReqIds, cand # None,
         after_follower_initialize(g, i), UNCHANGED <<next_gen, watchers>>
  PROVE  HubMoves({i})
<1>1. /\ next_req \in Nat /\ next_gen \in Nat /\ outstanding \in [ReqIds -> Waits]
      /\ \A a \in asked : a.id \in ReqIds /\ a.id <= next_req /\ a.id \in Nat
  BY DEF HubKept, IdsInv, TypeOK, Asks, ReqIds
<1>2. \A j \in ReqIds : consumed(i)[j] = IF j \in {i} THEN NoWait ELSE outstanding[j]
  BY <1>1 DEF consumed
<1>3. CASE stage # "WaitInitialize"
  <2>1. outstanding' = consumed(i) /\ UNCHANGED <<mux, cand, asked>>
    BY <1>3 DEF after_follower_initialize, homeVars
  <2>2. \A h \in Gens : Known(h)' => Known(h)
    BY <2>1 DEF Known
  <2> QED BY <1>1, <1>2, <2>1, <2>2, MovesQuiet DEF HubKept
<1>4. CASE stage = "WaitInitialize" /\ {s \in Sessions : watchers[s] # {}} = {}
  <2>1. outstanding' = consumed(i) /\ mux' = cand /\ cand' = None /\ UNCHANGED asked
    BY <1>4 DEF after_follower_initialize, finish_successor
  <2>2. \A h \in Gens : Known(h)' => Known(h)
    BY <2>1 DEF Known
  <2> QED BY <1>1, <1>2, <2>1, <2>2, MovesQuiet DEF HubKept
<1>5. CASE stage = "WaitInitialize" /\ {s \in Sessions : watchers[s] # {}} # {}
  <2>3. PICK watched, ids : \E n \in Nat : LoadsSent(g, i, watched, n, ids)
    BY <1>5, LoadsFresh DEF HubKept
  <2>4. PICK n \in Nat : LoadsSent(g, i, watched, n, ids)
    BY <2>3
  <2>5. asked' = asked \cup {Ask(g, ids[s], "session/load", {s}, HubLoad) : s \in watched}
    BY <2>4 DEF LoadsSent
  <2>2. \A a \in asked' \ asked : a.wait = HubLoad
    BY <2>5 DEF Ask
  <2>6. \A s \in watched : /\ ids[s] \in Nat /\ next_req < ids[s]
                           /\ ids[s] <= next_req + n /\ ids[s] \in ReqIds
    BY <1>1, <2>4, Bounds DEF LoadsSent, ReqIds
  <2>7. \A j \in ReqIds : outstanding'[j] = IF next_req < j /\ j <= next_req + n
                                            THEN HubLoad ELSE consumed(i)[j]
    BY <2>4 DEF LoadsSent
  <2>8. HubLoad # NoWait /\ HubLoad # HubInitialize
    BY DEF HubLoad, NoWait, HubInitialize
  <2>9. \A a \in asked' \ asked : a.id > next_req /\ outstanding'[a.id] # NoWait
    <3> SUFFICES ASSUME NEW s \in watched
                 PROVE  ids[s] > next_req /\ outstanding'[ids[s]] # NoWait
      BY <2>5 DEF Ask
    <3> QED BY <1>1, <2>6, <2>7, <2>8
  <2>10. \A a \in asked :
           outstanding'[a.id] = IF a.id \in {i} THEN NoWait ELSE outstanding[a.id]
    BY <1>1, <1>2, <2>7
  <2>11. UNCHANGED <<mux, cand>>
    BY <2>4 DEF LoadsSent
  <2>12. \A h \in Gens : Known(h)' => Known(h)
    BY <2>11 DEF Known
  <2>13. asked \subseteq asked'
    BY <2>5
  <2>14. \A a \in asked' \ asked : a.wait # HubInitialize
    BY <2>2, <2>8
  <2>15. next_gen <= next_gen' /\ \A s \in Sessions : watchers[s] \subseteq watchers'[s]
    BY <1>1
  <2> QED BY <2>9, <2>10, <2>11, <2>12, <2>13, <2>14, <2>15 DEF HubMoves
<1> QED BY <1>3, <1>4, <1>5

(* What a step of HandoverNext does to the hub: it answers the result it   *)
(* takes from a link, if that is what it takes, and no other request.      *)
LEMMA PhoneMoves ==
  ASSUME HubKept, HubKept', PhoneSteps
  PROVE  HubMoves({}) /\ UNCHANGED <<mux, cand, next_gen>>
<1> USE DEF homeVars, tableVars, phoneVars, requestVars, reverseVars
<1>1. next_gen \in Nat /\ outstanding \in [ReqIds -> Waits]
  BY DEF HubKept, TypeOK
<1>2. CASE on_phone_hello \/ \E p \in Phones : answer_initialize(p)
  <2>1. UNCHANGED <<mux, cand, asked, outstanding, next_gen, watchers>>
    BY <1>2 DEF on_phone_hello, answer_initialize
  <2>2. \A h \in Gens : Known(h)' => Known(h)
    BY <2>1 DEF Known
  <2> QED BY <1>1, <2>1, <2>2, MovesQuiet DEF HubKept
<1>3. ASSUME NEW p \in Phones, NEW o \in Origins, NEW s \in Sessions,
             on_load_request(p, o, {s})
      PROVE  HubMoves({}) /\ UNCHANGED <<mux, cand, next_gen>>
  <2>1. /\ UNCHANGED <<mux, cand, next_gen>> /\ watch(p, {s})
        /\ forward_request(p, o, "session/load", {s}) /\ phones[p] = "Ready"
    BY <1>3 DEF on_load_request
  <2>2. /\ watchers'[s] # {}
        /\ \A t \in Sessions : watchers[t] \subseteq watchers'[t]
    BY <2>1 DEF watch
  <2>3. CASE Away
    <3>1. UNCHANGED <<asked, outstanding>>
      BY <2>1, <2>3 DEF forward_request
    <3>2. \A h \in Gens : Known(h)' => Known(h)
      BY <2>1 DEF Known
    <3> QED BY <1>1, <2>1, <2>2, <3>1, <3>2, MovesQuiet DEF HubKept
  <2>4. CASE ~Away
    <3>1. send_request(mux, "session/load", {s}, Forwarded(p, o))
      BY <2>1, <2>4, ForwardSends
    <3>2. Forwarded(p, o) # NoWait /\ Forwarded(p, o) # HubInitialize
      BY DEF Forwarded, NoWait, HubInitialize
    <3> QED BY <2>1, <2>2, <3>1, <3>2, MovesSend
  <2> QED BY <2>3, <2>4
<1> QED BY <1>2, <1>3 DEF PhoneSteps

(* A new link.                                                             *)
LEMMA AcceptsMoves ==
  ASSUME HubKept, HubKept', Accepts
  PROVE  /\ HubMoves({}) /\ UNCHANGED <<mux, asked, watchers>>
         /\ next_gen' = next_gen + 1 /\ cand' = next_gen'
<1> USE DEF homeVars, tableVars, phoneVars, requestVars, reverseVars
<1>1. /\ next_gen \in Nat /\ next_gen' = next_gen + 1 /\ cand' = next_gen + 1
      /\ UNCHANGED <<mux, asked, outstanding, watchers>>
  BY DEF HubKept, TypeOK, Accepts, on_accepted
<1>2. \A h \in Gens : Known(h)' => Known(h) \/ (h = next_gen + 1 /\ next_gen' = h)
  BY <1>1 DEF Known
<1>3. HubMoves({})
  BY <1>1, <1>2, MovesQuiet DEF HubKept
<1> QED BY <1>1, <1>3

(* The leader registers the link that comes up.                            *)
LEMMA RegisteredMoves ==
  ASSUME HubKept, NEW g \in Gens, on_registered(g, TRUE, LEADER_PROTOCOL_VERSION)
  PROVE  HubMoves({}) /\ UNCHANGED <<mux, cand, next_gen, watchers>>
<1> USE DEF homeVars, tableVars, phoneVars, requestVars, reverseVars
<1>1. next_gen \in Nat /\ UNCHANGED <<mux, cand, next_gen, watchers>>
  BY DEF HubKept, TypeOK, on_registered
<1>2. CASE stage # "WaitRegistered"
  <2>1. UNCHANGED <<asked, outstanding>>
    BY <1>2 DEF on_registered
  <2>2. \A h \in Gens : Known(h)' => Known(h)
    BY <1>1 DEF Known
  <2> QED BY <1>1, <2>1, <2>2, MovesQuiet DEF HubKept
<1>3. CASE stage = "WaitRegistered"
  <2>1. send_request(g, "initialize", {}, HubInitialize)
    BY <1>3 DEF on_registered, send_follower_initialize
  <2>2. HubInitialize # NoWait
    BY DEF HubInitialize, NoWait
  <2> QED BY <1>1, <2>1, <2>2, MovesSend
<1> QED BY <1>2, <1>3

(* An answer of link g to request i.                                       *)
Answered(g, i) ==
  \/ on_forwarded_result(g, i, {})
  \/ on_initialize_result(g, i, FALSE)
  \/ on_load_result(g, i)

(* Only the link that comes up may take over, and only then is more asked. *)
LEMMA AnsweredMoves ==
  ASSUME HubKept, NEW g \in Gens, NEW i, Answered(g, i)
  PROVE  /\ HubMoves({i}) /\ UNCHANGED <<next_gen, watchers>> /\ Known(g)
         /\ \E a \in asked : a.gen = g /\ a.id = i
         /\ outstanding[i] # NoWait
         /\ g # cand => UNCHANGED <<mux, cand, asked>>
<1> USE DEF homeVars, tableVars, phoneVars, requestVars, reverseVars
<1>1. /\ Known(g) /\ \E a \in asked : a.gen = g /\ a.id = i
      /\ outstanding[i].kind \in {"Forwarded", "HubInitialize", "HubLoad"}
  BY DEF Answered, on_forwarded_result, on_initialize_result, on_load_result, Answers
<1>2. /\ i \in ReqIds /\ next_gen \in Nat /\ outstanding \in [ReqIds -> Waits]
      /\ cand \in Gens \cup {None} /\ watchers \in [Sessions -> SUBSET Phones]
  BY <1>1 DEF HubKept, TypeOK, Asks
<1>3. outstanding[i] # NoWait
  BY <1>1 DEF NoWait
<1>4. \A j \in ReqIds : consumed(i)[j] = IF j \in {i} THEN NoWait ELSE outstanding[j]
  BY <1>2 DEF consumed
<1>5. UNCHANGED <<next_gen, watchers>>
  <2>1. CASE on_forwarded_result(g, i, {})
    <3>1. g = mux => watch(outstanding[i].phone, {})
      BY <2>1 DEF on_forwarded_result
    <3>2. watchers' = watchers
      <4>1. g # mux => UNCHANGED watchers
        BY <2>1 DEF on_forwarded_result
      <4>2. g = mux => watchers' = [s \in Sessions |-> watchers[s]]
        BY <3>1 DEF watch
      <4> QED BY <1>2, <4>1, <4>2
    <3> QED BY <2>1, <3>2 DEF on_forwarded_result
  <2>2. CASE on_initialize_result(g, i, FALSE) \/ on_load_result(g, i)
    BY <2>2 DEF on_initialize_result, on_load_result
  <2> QED BY <2>1, <2>2 DEF Answered
<1>6. CASE on_forwarded_result(g, i, {})
  <2>1. outstanding' = consumed(i) /\ UNCHANGED <<mux, cand, asked>>
    BY <1>6 DEF on_forwarded_result
  <2>2. \A h \in Gens : Known(h)' => Known(h)
    BY <2>1 DEF Known
  <2>3. HubMoves({i})
    BY <1>2, <1>4, <1>5, <2>1, <2>2, MovesQuiet DEF HubKept
  <2> QED BY <1>1, <1>3, <1>5, <2>1, <2>3
<1>7. CASE on_load_result(g, i)
  <2>1. outstanding' = consumed(i) /\ UNCHANGED asked
    BY <1>7 DEF on_load_result
  <2>2. \/ UNCHANGED <<mux, cand>>
        \/ g = cand /\ mux' = cand /\ cand' = None
    BY <1>7 DEF on_load_result, after_load_result, finish_successor
  <2>3. \A h \in Gens : Known(h)' => Known(h)
    BY <2>2 DEF Known
  <2>4. HubMoves({i})
    BY <1>2, <1>4, <1>5, <2>1, <2>2, <2>3, MovesQuiet DEF HubKept
  <2>5. g # cand => UNCHANGED <<mux, cand>>
    BY <2>2
  <2> QED BY <1>1, <1>3, <1>5, <2>1, <2>4, <2>5
<1>8. CASE on_initialize_result(g, i, FALSE)
  <2>1. CASE g # cand
    <3>1. outstanding' = consumed(i) /\ UNCHANGED <<mux, cand, asked>>
      BY <1>8, <2>1 DEF on_initialize_result
    <3>2. \A h \in Gens : Known(h)' => Known(h)
      BY <3>1 DEF Known
    <3>3. HubMoves({i})
      BY <1>2, <1>4, <1>5, <3>1, <3>2, MovesQuiet DEF HubKept
    <3> QED BY <1>1, <1>3, <1>5, <3>1, <3>3
  <2>2. CASE g = cand
    <3>1. after_follower_initialize(g, i) /\ cand # None
      BY <1>1, <1>8, <2>2 DEF on_initialize_result, Known
    <3>2. HubMoves({i})
      BY <1>2, <1>5, <3>1, MovesInitialize
    <3> QED BY <1>1, <1>3, <1>5, <2>2, <3>2
  <2> QED BY <2>1, <2>2
<1> QED BY <1>6, <1>7, <1>8 DEF Answered

(* It leaves the links as they are, or the link that came up takes over.   *)
LEMMA AnsweredCand ==
  ASSUME NEW g, NEW i, Answered(g, i)
  PROVE  UNCHANGED <<mux, cand>> \/ (g = cand /\ mux' = cand /\ cand' = None)
BY DEF Answered, on_forwarded_result, on_initialize_result, on_load_result,
       after_follower_initialize, after_load_result, finish_successor, homeVars

-----------------------------------------------------------------------------
(* The leader's side is typed.                                             *)

(* Each step keeps the types.                                              *)
LEMMA LeaderTyped ==
  ASSUME HubKept, HubKept', LeaderTypes, [HandoverNext]_allVars
  PROVE  LeaderTypes'
<1>a. /\ \A a \in asked : a.gen \in Gens /\ a.id \in ReqIds /\ a.about \subseteq Sessions
      /\ next_gen' \in Nat
  BY DEF HubKept, TypeOK, Asks
<1>1. CASE Accepts
  <2>1. Registered \in LeaderMessage
    BY DEF Registered, LeaderMessage
  <2>2. <<Registered>> \in Seq(LeaderMessage)
    BY <2>1
  <2> QED BY <1>1, <2>2 DEF Accepts, LeaderTypes, leaderVars, phoneSide
<1>2. CASE PhoneSteps
  <2>1. UNCHANGED <<wire, leaderVars, got>>
    BY <1>2 DEF PhoneSteps
  <2>2. joined' \in [Phones -> [Sessions -> Nat]]
    <3>1. CASE UNCHANGED joined
      BY <3>1 DEF LeaderTypes
    <3>2. ASSUME NEW p \in Phones, NEW s \in Sessions, NEW n \in Nat,
                 joined' = [joined EXCEPT ![p][s] = n]
          PROVE  joined' \in [Phones -> [Sessions -> Nat]]
      BY <3>2 DEF LeaderTypes
    <3>3. CASE \E p \in Phones, s \in Sessions :
                 joined' = [joined EXCEPT ![p][s] = IF p \in watchers[s] THEN @
                                                    ELSE emitted[s]]
      <4>1. PICK p \in Phones, s \in Sessions :
                 joined' = [joined EXCEPT ![p][s] = IF p \in watchers[s] THEN @
                                                    ELSE emitted[s]]
        BY <3>3
      <4> DEFINE n == IF p \in watchers[s] THEN joined[p][s] ELSE emitted[s]
      <4>2. n \in Nat /\ joined' = [joined EXCEPT ![p][s] = n]
        BY <4>1 DEF LeaderTypes
      <4> HIDE DEF n
      <4> QED BY <4>2, <3>2
    <3> QED BY <1>2, <3>1, <3>3 DEF PhoneSteps
  <2> QED BY <2>1, <2>2 DEF LeaderTypes, leaderVars
<1>3. ASSUME NEW g \in Gens, Receives(g) PROVE LeaderTypes'
  <2>1. /\ wire[g] \in Seq(LeaderMessage) /\ wire[g] # <<>>
        /\ wire' = [wire EXCEPT ![g] = Tail(@)] /\ UNCHANGED <<leaderVars, joined>>
    BY <1>3 DEF Receives, LeaderTypes
  <2>2. Head(wire[g]) \in LeaderMessage /\ Tail(wire[g]) \in Seq(LeaderMessage)
    BY <2>1
  <2>3. wire' \in [Gens -> Seq(LeaderMessage)]
    BY <2>1, <2>2 DEF LeaderTypes
  <2>4. got' \in [Phones -> [Sessions -> Seq(Nat)]]
    <3>1. CASE UNCHANGED got
      BY <3>1 DEF LeaderTypes
    <3>2. CASE Head(wire[g]).kind = "Update" /\ on_home_notification(g, Head(wire[g]))
      <4>1. Head(wire[g]).n \in Nat
        BY <2>2, <3>2 DEF LeaderMessage
      <4>2. \A p \in Phones, s \in Sessions : Append(got[p][s], Head(wire[g]).n) \in Seq(Nat)
        BY <4>1 DEF LeaderTypes
      <4> QED BY <3>2, <4>2 DEF on_home_notification, LeaderTypes
    <3> QED BY <1>3, <3>1, <3>2 DEF Receives
  <2> QED BY <2>1, <2>3, <2>4 DEF LeaderTypes, leaderVars
<1>4. ASSUME NEW g \in Gens, LeaderLoses(g) PROVE LeaderTypes'
  BY <1>4 DEF LeaderLoses, LeaderTypes, phoneSide
<1>5. ASSUME NEW a \in asked, LeaderTakes(a) PROVE LeaderTypes'
  <2>1. Result(a.id) \in LeaderMessage
    BY <1>a DEF Result, LeaderMessage
  <2>2. wire' \in [Gens -> Seq(LeaderMessage)]
    <3>1. wire[a.gen] \in Seq(LeaderMessage)
      BY <1>a DEF LeaderTypes
    <3>2. Append(wire[a.gen], Result(a.id)) \in Seq(LeaderMessage)
      BY <2>1, <3>1
    <3> QED BY <1>5, <1>a, <3>2 DEF LeaderTakes, LeaderTypes
  <2>3. subs' \in [Gens -> SUBSET Sessions]
    BY <1>5, <1>a DEF LeaderTakes, LeaderTypes
  <2>4. since' \in [Gens -> [Sessions -> Nat]]
    BY <1>5, <1>a DEF LeaderTakes, LeaderTypes
  <2> QED BY <1>5, <2>2, <2>3, <2>4 DEF LeaderTakes, LeaderTypes, phoneSide
<1>6. ASSUME NEW s \in Sessions, LeaderUpdates(s) PROVE LeaderTypes'
  <2>1. emitted' \in [Sessions -> Nat]
    BY <1>6 DEF LeaderUpdates, LeaderTypes
  <2>2. Update(s, emitted'[s]) \in LeaderMessage
    BY <2>1 DEF Update, LeaderMessage
  <2>3. \A g \in Gens : Append(wire[g], Update(s, emitted'[s])) \in Seq(LeaderMessage)
    BY <2>2 DEF LeaderTypes
  <2>4. wire' \in [Gens -> Seq(LeaderMessage)]
    BY <1>6, <2>3 DEF LeaderUpdates, LeaderTypes
  <2> QED BY <1>6, <2>1, <2>4 DEF LeaderUpdates, LeaderTypes, phoneSide
<1>7. CASE UNCHANGED allVars
  BY <1>7 DEF allVars, leaderVars, phoneSide, LeaderTypes
<1> QED BY <1>1, <1>2, <1>3, <1>4, <1>5, <1>6, <1>7 DEF HandoverNext

(* What Append leaves of a stream.                                         *)
LEMMA Appended ==
  ASSUME NEW S, NEW q \in Seq(S), NEW e
  PROVE  /\ Len(q) \in Nat /\ Len(Append(q, e)) = Len(q) + 1
         /\ Append(q, e)[Len(q) + 1] = e
         /\ \A k \in 1..Len(q) : Append(q, e)[k] = q[k]
OBVIOUS

(* The same of Tail.                                                       *)
LEMMA Dropped ==
  ASSUME NEW S, NEW q \in Seq(S), q # <<>>
  PROVE  /\ Len(q) \in Nat /\ Len(q) >= 1 /\ Len(Tail(q)) = Len(q) - 1
         /\ q[1] = Head(q)
         /\ \A k \in 1..(Len(q) - 1) : Tail(q)[k] = q[k + 1]
OBVIOUS

-----------------------------------------------------------------------------
(* The leader and the hub agree on what was taken.                         *)

(* The results on every stream are to requests the leader took.            *)
ResultsTaken ==
  \A g \in Gens : \A k \in 1..Len(wire[g]) :
    wire[g][k].kind = "Result" => wire[g][k].id \in done

(* A step of the hub that answers only what was taken.                     *)
LEMMA LeaderInvHub ==
  ASSUME HubKept, HubKept', LeaderTypes, LeaderInv, NEW answered, HubMoves(answered),
         answered \subseteq done, UNCHANGED <<subs, done, gone>>, ResultsTaken'
  PROVE  LeaderInv'
<1>1. /\ next_req \in Nat /\ next_gen \in Nat /\ next_gen' \in Nat
      /\ \A a \in asked : a.id \in Nat /\ a.id <= next_req
      /\ \A a \in asked : a.gen \in Gens /\ a.gen \in Nat /\ a.gen <= next_gen
      /\ \A a \in asked' : a.id \in Nat
  BY AskedBounds
<1>2. \A i \in done' : \E a \in asked' : a.id = i
  BY DEF LeaderInv, HubMoves
<1>3. \A a \in asked' : a.id \in done => a \in asked
  BY <1>1 DEF LeaderInv, HubMoves
<1>4. \A a \in asked' : a.id \in done' => a.about \subseteq subs'[a.gen]
  BY <1>3 DEF LeaderInv
<1>5. ASSUME NEW a \in asked', Known(a.gen)', outstanding'[a.id] = NoWait
      PROVE  a.id \in done'
  <2>1. a \in asked
    BY <1>5 DEF HubMoves
  <2>2. Known(a.gen)
    BY <1>1, <1>5, <2>1 DEF HubMoves
  <2>3. a.id \in answered \/ outstanding[a.id] = NoWait
    BY <1>5, <2>1 DEF HubMoves
  <2> QED BY <2>1, <2>2, <2>3 DEF LeaderInv
<1>6. ASSUME NEW g \in gone' PROVE g <= next_gen' /\ ~Known(g)'
  <2>1. g \in Gens /\ g \in Nat /\ g <= next_gen /\ ~Known(g)
    BY DEF LeaderInv, LeaderTypes, Gens
  <2> QED BY <1>1, <2>1 DEF HubMoves
<1> QED BY <1>2, <1>4, <1>5, <1>6 DEF LeaderInv, ResultsTaken

(* Each step keeps them in agreement.                                      *)
LEMMA LeaderInvStep ==
  ASSUME HubKept, HubKept', LeaderTypes, LeaderTypes', LeaderInv, [HandoverNext]_allVars
  PROVE  LeaderInv'
<1>a. /\ \A a \in asked : a.gen \in Gens /\ a.id \in ReqIds /\ a.about \subseteq Sessions
      /\ next_gen' \in Nat
  BY DEF HubKept, TypeOK, Asks
<1>b. ResultsTaken
  BY DEF LeaderInv, ResultsTaken
<1>1. CASE Accepts
  <2>1. ResultsTaken'
    <3> SUFFICES ASSUME NEW g \in Gens, NEW k \in 1..Len(wire'[g]),
                        wire'[g][k].kind = "Result"
                 PROVE  wire'[g][k].id \in done'
      BY DEF ResultsTaken
    <3>1. CASE g = next_gen'
      <4>1. wire'[g] = <<Registered>>
        BY <1>1, <3>1 DEF Accepts, LeaderTypes
      <4> QED BY <4>1 DEF Registered
    <3>2. CASE g # next_gen'
      <4>1. wire'[g] = wire[g] /\ UNCHANGED done
        BY <1>1, <3>2 DEF Accepts, LeaderTypes, leaderVars
      <4> QED BY <4>1, <1>b DEF ResultsTaken
    <3> QED BY <3>1, <3>2
  <2>2. UNCHANGED <<subs, done, gone>>
    BY <1>1 DEF Accepts, leaderVars
  <2> QED BY <1>1, <2>1, <2>2, AcceptsMoves, LeaderInvHub
<1>2. CASE PhoneSteps
  <2>1. UNCHANGED <<wire, subs, done, gone>>
    BY <1>2 DEF PhoneSteps, leaderVars
  <2>2. ResultsTaken'
    BY <1>b, <2>1 DEF ResultsTaken
  <2> QED BY <1>2, <2>1, <2>2, PhoneMoves, LeaderInvHub
<1>3. ASSUME NEW g \in Gens, Receives(g) PROVE LeaderInv'
  <2> DEFINE m == Head(wire[g])
  <2>1. /\ wire[g] \in Seq(LeaderMessage) /\ wire[g] # <<>>
        /\ wire' = [wire EXCEPT ![g] = Tail(@)] /\ UNCHANGED <<subs, done, gone>>
    BY <1>3 DEF Receives, LeaderTypes, leaderVars
  <2>2. ResultsTaken'
    <3> SUFFICES ASSUME NEW h \in Gens, NEW k \in 1..Len(wire'[h]),
                        wire'[h][k].kind = "Result"
                 PROVE  wire'[h][k].id \in done
      BY <2>1 DEF ResultsTaken
    <3>1. CASE h # g
      <4>1. wire'[h] = wire[h]
        BY <2>1, <3>1 DEF LeaderTypes
      <4> QED BY <1>b, <4>1 DEF ResultsTaken
    <3>2. CASE h = g
      <4>1. wire'[h] = Tail(wire[g])
        BY <2>1, <3>2 DEF LeaderTypes
      <4>2. /\ Len(wire[g]) \in Nat /\ Len(Tail(wire[g])) = Len(wire[g]) - 1
            /\ \A j \in 1..(Len(wire[g]) - 1) : Tail(wire[g])[j] = wire[g][j + 1]
        BY <2>1, Dropped
      <4>3. k + 1 \in 1..Len(wire[g]) /\ wire'[h][k] = wire[g][k + 1]
        BY <4>1, <4>2
      <4> QED BY <1>b, <4>3 DEF ResultsTaken
    <3> QED BY <3>1, <3>2
  <2>3. m.kind = "Result" => m.id \in done
    <3>1. 1 \in 1..Len(wire[g]) /\ wire[g][1] = m
      BY <2>1, Dropped
    <3> QED BY <1>b, <3>1 DEF ResultsTaken
  <2>4. CASE UNCHANGED vars
    <3>1. HubMoves({})
      BY <2>4, QuietMoves
    <3> QED BY <2>1, <2>2, <3>1, LeaderInvHub
  <2>5. CASE on_registered(g, TRUE, LEADER_PROTOCOL_VERSION)
    BY <2>1, <2>2, <2>5, RegisteredMoves, LeaderInvHub
  <2>6. CASE m.kind = "Result" /\ Answered(g, m.id)
    <3>1. HubMoves({m.id})
      BY <2>6, AnsweredMoves
    <3> QED BY <2>1, <2>2, <2>3, <2>6, <3>1, LeaderInvHub
  <2> QED BY <1>3, <2>4, <2>5, <2>6 DEF Receives, Answered
<1>4. ASSUME NEW g \in Gens, LeaderLoses(g) PROVE LeaderInv'
  <2>1. /\ g <= next_gen /\ ~Known(g) /\ gone' = gone \cup {g}
        /\ UNCHANGED <<wire, subs, done, asked, outstanding, next_gen, mux, cand>>
    BY <1>4 DEF LeaderLoses, vars
  <2> QED BY <2>1 DEF LeaderInv, Known
<1>5. ASSUME NEW a \in asked, LeaderTakes(a) PROVE LeaderInv'
  <2>1. /\ done' = done \cup {a.id} /\ subs' = [subs EXCEPT ![a.gen] = @ \cup a.about]
        /\ wire' = [wire EXCEPT ![a.gen] = Append(@, Result(a.id))]
        /\ UNCHANGED <<asked, outstanding, next_gen, mux, cand, gone>>
    BY <1>5 DEF LeaderTakes, vars
  <2>2. ASSUME NEW b \in asked, b.id \in done' PROVE b.about \subseteq subs'[b.gen]
    <3>1. CASE b.id = a.id
      <4>1. b = a
        BY <3>1 DEF HubKept, IdsInv
      <4> QED BY <2>1, <4>1, <1>a DEF LeaderTypes
    <3>2. CASE b.id # a.id
      <4>1. b.about \subseteq subs[b.gen]
        BY <2>1, <2>2, <3>2 DEF LeaderInv
      <4> QED BY <2>1, <4>1, <1>a DEF LeaderTypes
    <3> QED BY <3>1, <3>2
  <2>3. ASSUME NEW h \in Gens, NEW k \in 1..Len(wire'[h]), wire'[h][k].kind = "Result"
        PROVE  wire'[h][k].id \in done'
    <3>1. CASE h # a.gen
      <4>1. wire'[h] = wire[h]
        BY <2>1, <3>1 DEF LeaderTypes
      <4>2. k \in 1..Len(wire[h]) /\ wire[h][k].kind = "Result"
        BY <2>3, <4>1
      <4>3. wire[h][k].id \in done
        BY <1>b, <4>2 DEF ResultsTaken
      <4>4. done \subseteq done'
        BY <2>1
      <4> QED BY <4>1, <4>3, <4>4
    <3>2. CASE h = a.gen
      <4>1. wire[h] \in Seq(LeaderMessage) /\ wire'[h] = Append(wire[h], Result(a.id))
        BY <2>1, <3>2 DEF LeaderTypes
      <4>2. \/ k \in 1..Len(wire[h]) /\ wire'[h][k] = wire[h][k]
            \/ wire'[h][k] = Result(a.id)
        BY <4>1, Appended
      <4>3. Result(a.id).id = a.id
        BY DEF Result
      <4> QED BY <1>b, <2>1, <2>3, <4>2, <4>3 DEF ResultsTaken
    <3> QED BY <3>1, <3>2
  <2>4. \A i \in done' : \E b \in asked' : b.id = i
    BY <2>1 DEF LeaderInv
  <2>5. \A b \in asked' : Known(b.gen)' /\ outstanding'[b.id] = NoWait => b.id \in done'
    BY <2>1 DEF LeaderInv, Known
  <2>6. \A h \in gone' : h <= next_gen' /\ ~Known(h)'
    BY <2>1 DEF LeaderInv, Known
  <2>7. \A b \in asked' : b.id \in done' => b.about \subseteq subs'[b.gen]
    BY <2>1, <2>2
  <2> QED BY <2>3, <2>4, <2>5, <2>6, <2>7 DEF LeaderInv
<1>6. ASSUME NEW s \in Sessions, LeaderUpdates(s) PROVE LeaderInv'
  <2>1. /\ UNCHANGED <<vars, subs, done, gone>>
        /\ wire' = [g \in Gens |-> IF g \in Subscribers(s)
                                   THEN Append(wire[g], Update(s, emitted'[s]))
                                   ELSE wire[g]]
    BY <1>6 DEF LeaderUpdates
  <2>2. ResultsTaken'
    <3> SUFFICES ASSUME NEW h \in Gens, NEW k \in 1..Len(wire'[h]),
                        wire'[h][k].kind = "Result"
                 PROVE  wire'[h][k].id \in done
      BY <2>1 DEF ResultsTaken
    <3>1. wire[h] \in Seq(LeaderMessage) /\ Update(s, emitted'[s]).kind = "Update"
      BY DEF LeaderTypes, Update
    <3>2. \/ k \in 1..Len(wire[h]) /\ wire'[h][k] = wire[h][k]
          \/ wire'[h][k] = Update(s, emitted'[s])
      BY <2>1, <3>1, Appended
    <3> QED BY <1>b, <3>1, <3>2 DEF ResultsTaken
  <2> QED BY <2>1, <2>2, QuietMoves, LeaderInvHub
<1>7. CASE UNCHANGED allVars
  BY <1>7, <1>b, QuietMoves, LeaderInvHub DEF allVars, leaderVars, ResultsTaken
<1> QED BY <1>1, <1>2, <1>3, <1>4, <1>5, <1>6, <1>7 DEF HandoverNext

(* They always agree.                                                      *)
LEMMA LeaderAlways == HandoverSpec => [](HubKept /\ LeaderTypes /\ LeaderInv)
<1>1. HandoverInit => LeaderTypes /\ LeaderInv
  BY DEF HandoverInit, Init, LeaderTypes, LeaderInv
<1>2. HubKept /\ HubKept' /\ LeaderTypes /\ [HandoverNext]_allVars => LeaderTypes'
  BY LeaderTyped
<1>3. /\ HubKept /\ HubKept' /\ LeaderTypes /\ LeaderTypes' /\ LeaderInv
      /\ [HandoverNext]_allVars
      => LeaderInv'
  BY LeaderInvStep
<1> QED BY <1>1, <1>2, <1>3, HubKeptAlways, PTL DEF HandoverSpec

(* When the leader loses a link, the sessions loaded on the serving link   *)
(* have a subscriber there and are not evicted: the hub drops the old link *)
(* only after every load on the new one is answered, and the answer is the *)
(* leader's, given after it subscribed the new link.                       *)
THEOREM HandedOverNeverEvicted == HandoverSpec => HandedOverNotEvicted
<1>1. ASSUME HubKept, LeaderTypes, LeaderInv, [HandoverNext]_allVars
      PROVE  [\A g \in gone' \ gone : Served(g) /\ mux # None =>
                LoadedOn(mux) \cap (evicted' \ evicted) = {}]_allVars
  <2> SUFFICES ASSUME NEW g \in gone' \ gone, mux # None,
                      NEW s \in LoadedOn(mux), s \in evicted' \ evicted
               PROVE  FALSE
    OBVIOUS
  <2>1. PICK h \in Gens : LeaderLoses(h)
    BY <1>1 DEF HandoverNext, Accepts, PhoneSteps, Receives, LeaderTakes, LeaderUpdates,
                leaderVars, allVars
  <2>2. Subscribers(s) = {h} /\ ~Known(h)
    BY <2>1 DEF LeaderLoses
  <2>3. PICK a \in asked : a.gen = mux /\ a.wait = HubLoad /\ s \in a.about
    BY DEF LoadedOn
  <2>4. outstanding[a.id] = NoWait
    BY <1>1, <2>3 DEF HubKept, HandshakeInv, MuxHandshakeDone
  <2>5. Known(mux) /\ mux \in Gens
    BY <1>1 DEF Known, HubKept, TypeOK
  <2>6. s \in subs[mux]
    BY <1>1, <2>3, <2>4, <2>5 DEF LeaderInv
  <2>7. mux \notin gone
    BY <1>1, <2>5 DEF LeaderInv
  <2>8. mux \in Subscribers(s)
    BY <2>5, <2>6, <2>7 DEF Subscribers
  <2> QED BY <2>2, <2>5, <2>8
<1> QED BY <1>1, LeaderAlways, PTL DEF HandoverSpec, HandedOverNotEvicted

-----------------------------------------------------------------------------
(* What a link that comes up still waits for.                              *)

(* The hub handles the head of one stream.                                 *)
LEMMA ReceivesCases ==
  ASSUME HubKept, LeaderTypes, NEW g \in Gens, Receives(g)
  PROVE  /\ wire[g] \in Seq(LeaderMessage) /\ wire[g] # <<>>
         /\ \A h \in Gens : wire'[h] = IF h = g THEN Tail(wire[g]) ELSE wire[h]
         /\ UNCHANGED <<subs, since, done, gone, emitted, joined>>
         /\ \/ ~Known(g) /\ UNCHANGED <<vars, got>>
            \/ /\ Head(wire[g]).kind = "Registered" /\ UNCHANGED got
               /\ on_registered(g, TRUE, LEADER_PROTOCOL_VERSION)
            \/ /\ Head(wire[g]).kind = "Result" /\ UNCHANGED got
               /\ Answered(g, Head(wire[g]).id)
            \/ /\ Known(g) /\ Head(wire[g]).kind = "Update" /\ UNCHANGED vars
               /\ on_home_notification(g, Head(wire[g]))
<1>1. /\ wire[g] \in Seq(LeaderMessage) /\ wire[g] # <<>>
      /\ wire' = [wire EXCEPT ![g] = Tail(@)]
      /\ UNCHANGED <<subs, since, done, gone, emitted, joined>>
  BY DEF Receives, LeaderTypes, leaderVars
<1>2. \A h \in Gens : wire'[h] = IF h = g THEN Tail(wire[g]) ELSE wire[h]
  BY <1>1 DEF LeaderTypes
<1>3. \/ ~Known(g) /\ UNCHANGED <<vars, got>>
      \/ /\ Head(wire[g]).kind = "Registered" /\ UNCHANGED got
         /\ on_registered(g, TRUE, LEADER_PROTOCOL_VERSION)
      \/ /\ Head(wire[g]).kind = "Result" /\ UNCHANGED got
         /\ Answered(g, Head(wire[g]).id)
      \/ /\ Known(g) /\ Head(wire[g]).kind = "Update" /\ UNCHANGED vars
         /\ on_home_notification(g, Head(wire[g]))
  BY DEF Receives, Answered
<1> QED BY <1>1, <1>2, <1>3

(* A message that is in a stream stays there when one is added, and when   *)
(* another one is taken.                                                   *)
LEMMA InAppend ==
  ASSUME NEW S, NEW q \in Seq(S), NEW x
  PROVE  /\ In(Append(q, x), x)
         /\ \A e : In(q, e) => In(Append(q, x), e)
<1>1. /\ Len(q) \in Nat /\ Len(Append(q, x)) = Len(q) + 1
      /\ Append(q, x)[Len(q) + 1] = x
      /\ \A k \in 1..Len(q) : Append(q, x)[k] = q[k]
  BY Appended
<1>2. In(Append(q, x), x)
  BY <1>1 DEF In
<1>3. ASSUME NEW e, In(q, e) PROVE In(Append(q, x), e)
  <2>1. PICK k \in 1..Len(q) : q[k] = e
    BY <1>3 DEF In
  <2>2. k \in 1..Len(Append(q, x)) /\ Append(q, x)[k] = e
    BY <1>1, <2>1
  <2> QED BY <2>2 DEF In
<1> QED BY <1>2, <1>3

(* A message that is not at the head is in the tail.                       *)
LEMMA InTail ==
  ASSUME NEW S, NEW q \in Seq(S), q # <<>>, NEW e, In(q, e), Head(q) # e
  PROVE  In(Tail(q), e)
<1>1. /\ Len(q) \in Nat /\ Len(q) >= 1 /\ Len(Tail(q)) = Len(q) - 1
      /\ q[1] = Head(q)
      /\ \A k \in 1..(Len(q) - 1) : Tail(q)[k] = q[k + 1]
  BY Dropped
<1>2. PICK k \in 1..Len(q) : q[k] = e
  BY DEF In
<1>3. k - 1 \in 1..(Len(q) - 1) /\ (k - 1) + 1 = k
  BY <1>1, <1>2
<1>4. Tail(q)[k - 1] = e
  BY <1>1, <1>2, <1>3
<1> QED BY <1>1, <1>3, <1>4 DEF In

(* The same of a message behind all results.                               *)
LEMMA BehindAppend ==
  ASSUME NEW S, NEW q \in Seq(S), NEW x
  PROVE  /\ Behind(Append(q, x), x)
         /\ \A e : Behind(q, e) /\ x.kind # "Result" => Behind(Append(q, x), e)
<1>1. /\ Len(q) \in Nat /\ Len(Append(q, x)) = Len(q) + 1
      /\ Append(q, x)[Len(q) + 1] = x
      /\ \A k \in 1..Len(q) : Append(q, x)[k] = q[k]
  BY Appended
<1>2. Behind(Append(q, x), x)
  BY <1>1 DEF Behind
<1>3. ASSUME NEW e, Behind(q, e), x.kind # "Result" PROVE Behind(Append(q, x), e)
  <2>1. PICK k \in 1..Len(q) : /\ q[k] = e
                               /\ \A j \in (k + 1)..Len(q) : q[j].kind # "Result"
    BY <1>3 DEF Behind
  <2>2. k \in 1..Len(Append(q, x)) /\ Append(q, x)[k] = e
    BY <1>1, <2>1
  <2>3. ASSUME NEW j \in (k + 1)..Len(Append(q, x))
        PROVE  Append(q, x)[j].kind # "Result"
    <3>1. j = Len(q) + 1 \/ (j \in 1..Len(q) /\ j \in (k + 1)..Len(q))
      BY <1>1
    <3> QED BY <1>1, <1>3, <2>1, <3>1
  <2> QED BY <2>2, <2>3 DEF Behind
<1> QED BY <1>2, <1>3

(* What is behind every result stays so when the head is taken.            *)
LEMMA BehindTail ==
  ASSUME NEW S, NEW q \in Seq(S), q # <<>>, NEW e, Behind(q, e),
         \/ Head(q) # e
         \/ Head(q).kind # "Result" /\ \E i : In(q, Result(i))
  PROVE  Behind(Tail(q), e)
<1>1. /\ Len(q) \in Nat /\ Len(q) >= 1 /\ Len(Tail(q)) = Len(q) - 1
      /\ q[1] = Head(q)
      /\ \A k \in 1..(Len(q) - 1) : Tail(q)[k] = q[k + 1]
  BY Dropped
<1>2. PICK k \in 1..Len(q) : /\ q[k] = e
                             /\ \A j \in (k + 1)..Len(q) : q[j].kind # "Result"
  BY DEF Behind
<1>3. k # 1
  <2>1. CASE Head(q) # e
    BY <1>1, <1>2, <2>1
  <2>2. CASE Head(q).kind # "Result" /\ \E i : In(q, Result(i))
    <3>1. PICK j \in 1..Len(q) : q[j].kind = "Result"
      BY <2>2 DEF In, Result
    <3>2. j # 1
      BY <1>1, <2>2, <3>1
    <3>3. j \notin (k + 1)..Len(q)
      BY <1>2, <3>1
    <3> QED BY <3>2, <3>3
  <2> QED BY <2>1, <2>2
<1>4. k - 1 \in 1..(Len(q) - 1) /\ (k - 1) + 1 = k
  BY <1>1, <1>2, <1>3
<1>5. Tail(q)[k - 1] = e
  BY <1>1, <1>2, <1>4
<1>6. ASSUME NEW j \in ((k - 1) + 1)..Len(Tail(q)) PROVE Tail(q)[j].kind # "Result"
  <2>1. j \in 1..(Len(q) - 1) /\ j + 1 \in (k + 1)..Len(q)
    BY <1>1, <1>4
  <2> QED BY <1>1, <1>2, <2>1
<1> QED BY <1>1, <1>4, <1>5, <1>6 DEF Behind

(* A step that leaves the loads of the link coming up alone.               *)
LEMMA PendingKept ==
  ASSUME HubKept, PendingInv, NEW answered, HubMoves(answered),
         UNCHANGED <<cand, stage, pending>>,
         \A a \in asked : a.id \in answered => a.gen # cand \/ outstanding[a.id] # HubLoad
  PROVE  PendingInv'
<1> SUFFICES ASSUME stage = "WaitLoads", NEW s \in Sessions, pending[s] # None
             PROVE  /\ outstanding'[pending[s]] = HubLoad
                    /\ \E a \in asked' : a.gen = cand /\ a.id = pending[s]
  BY DEF PendingInv
<1>1. PICK a \in asked : a.gen = cand /\ a.id = pending[s]
  BY DEF PendingInv
<1>2. outstanding[a.id] = HubLoad
  BY <1>1 DEF PendingInv
<1>3. outstanding'[a.id] = HubLoad
  BY <1>1, <1>2 DEF HubMoves
<1> QED BY <1>1, <1>3 DEF HubMoves

(* The answer to its initialize asks for the loads; the answer to a load   *)
(* leaves the others pending, or was the last one.                         *)
LEMMA PendingAnswered ==
  ASSUME HubKept, PendingInv, NEW g \in Gens, NEW i, Answered(g, i)
  PROVE  PendingInv'
<1>1. HubMoves({i})
  BY AnsweredMoves
<1>2. PICK b \in asked : b.gen = g /\ b.id = i
  BY AnsweredMoves
<1> USE DEF homeVars, tableVars, phoneVars, requestVars, reverseVars
<1>3. i \in ReqIds /\ outstanding \in [ReqIds -> Waits] /\ next_req \in Nat
  <2>1. asked \subseteq Asks /\ outstanding \in [ReqIds -> Waits] /\ next_req \in Nat
    BY DEF HubKept, TypeOK
  <2>2. b.id \in ReqIds
    BY <2>1 DEF Asks
  <2> QED BY <1>2, <2>1, <2>2
<1>4. \A a \in asked : a.id = i => a.gen = g
  BY <1>2 DEF HubKept, IdsInv
<1>5. CASE on_forwarded_result(g, i, {})
  <2>1. UNCHANGED <<cand, stage, pending>> /\ outstanding[i] # HubLoad
    BY <1>5 DEF on_forwarded_result, Answers, HubLoad
  <2> QED BY <1>1, <2>1, PendingKept
<1>6. CASE on_initialize_result(g, i, FALSE)
  <2>1. outstanding[i] # HubLoad /\ Known(g)
    BY <1>6 DEF on_initialize_result, Answers, HubLoad
  <2>2. CASE UNCHANGED <<cand, stage, pending>>
    BY <1>1, <2>1, <2>2, PendingKept
  <2>3. CASE g = cand /\ stage = "WaitInitialize"
    <3>1. after_follower_initialize(g, i)
      BY <1>6, <2>3 DEF on_initialize_result
    <3>2. CASE {s \in Sessions : watchers[s] # {}} = {}
      <4>1. stage' = "None"
        BY <2>3, <3>1, <3>2 DEF after_follower_initialize, finish_successor
      <4> QED BY <4>1 DEF PendingInv
    <3>3. CASE {s \in Sessions : watchers[s] # {}} # {}
      <4>1. PICK watched, ids : \E n \in Nat : LoadsSent(g, i, watched, n, ids)
        BY <1>3, <2>3, <3>1, <3>3, LoadsFresh DEF HubKept
      <4>2. PICK n \in Nat : LoadsSent(g, i, watched, n, ids)
        BY <4>1
      <4>3. /\ watched \subseteq Sessions /\ watched # {} /\ next_req + n <= MaxReq
            /\ UNCHANGED cand
            /\ pending' = [s \in Sessions |-> IF s \in watched THEN ids[s] ELSE None]
            /\ asked' = asked \cup {Ask(g, ids[s], "session/load", {s}, HubLoad) :
                                      s \in watched}
            /\ outstanding' = [j \in ReqIds |->
                                 IF next_req < j /\ j <= next_req + n
                                 THEN HubLoad ELSE consumed(i)[j]]
        BY <4>2 DEF LoadsSent
      <4>4. \A s \in watched : /\ ids[s] \in Nat /\ next_req < ids[s]
                               /\ ids[s] <= next_req + n /\ ids[s] \in ReqIds
        BY <1>3, <4>2, Bounds DEF LoadsSent, ReqIds
      <4>5. pending' # NoLoads
        BY <1>3, <4>3, <4>4 DEF NoLoads, None
      <4>6. ASSUME NEW s \in Sessions, pending'[s] # None
            PROVE  /\ outstanding'[pending'[s]] = HubLoad
                   /\ \E a \in asked' : a.gen = cand' /\ a.id = pending'[s]
        <5>1. s \in watched /\ pending'[s] = ids[s]
          BY <4>3, <4>6
        <5>2. outstanding'[ids[s]] = HubLoad
          BY <4>3, <4>4, <5>1
        <5>3. Ask(g, ids[s], "session/load", {s}, HubLoad) \in asked'
          BY <4>3, <5>1
        <5>4. \E a \in asked' : a.gen = g /\ a.id = ids[s]
          BY <5>3 DEF Ask
        <5> QED BY <2>3, <4>3, <5>1, <5>2, <5>4
      <4> QED BY <4>5, <4>6 DEF PendingInv
    <3> QED BY <3>2, <3>3
  <2>4. UNCHANGED <<cand, stage, pending>> \/ (g = cand /\ stage = "WaitInitialize")
    BY <1>6 DEF on_initialize_result, after_follower_initialize
  <2> QED BY <2>2, <2>3, <2>4
<1>7. CASE on_load_result(g, i)
  <2>1. CASE g # cand
    <3>1. UNCHANGED <<cand, stage, pending>>
      BY <1>7, <2>1 DEF on_load_result
    <3> QED BY <1>1, <1>4, <2>1, <3>1, PendingKept
  <2>2. CASE g = cand
    <3> DEFINE left == [s \in Sessions |-> IF pending[s] = i THEN None ELSE pending[s]]
    <3>1. after_load_result(i)
      BY <1>7, <2>2 DEF on_load_result
    <3>2. CASE stage # "WaitLoads" \/ left = NoLoads
      <4>1. stage' # "WaitLoads"
        BY <3>1, <3>2 DEF after_load_result, finish_successor
      <4> QED BY <4>1 DEF PendingInv
    <3>3. CASE stage = "WaitLoads" /\ left # NoLoads
      <4>1. pending' = left /\ UNCHANGED <<cand, stage>>
        BY <3>1, <3>3 DEF after_load_result
      <4>2. ASSUME NEW s \in Sessions, pending'[s] # None
            PROVE  /\ outstanding'[pending'[s]] = HubLoad
                   /\ \E a \in asked' : a.gen = cand' /\ a.id = pending'[s]
        <5>1. pending'[s] = pending[s] /\ pending[s] # i /\ pending[s] # None
          BY <4>1, <4>2
        <5>2. PICK a \in asked : a.gen = cand /\ a.id = pending[s]
          BY <3>3, <5>1 DEF PendingInv
        <5>3. outstanding[a.id] = HubLoad
          BY <3>3, <5>1, <5>2 DEF PendingInv
        <5>4. outstanding'[a.id] = HubLoad /\ a \in asked'
          BY <1>1, <5>1, <5>2, <5>3 DEF HubMoves
        <5> QED BY <4>1, <5>1, <5>2, <5>4
      <4> QED BY <3>3, <4>1, <4>2 DEF PendingInv
    <3> QED BY <3>2, <3>3
  <2> QED BY <2>1, <2>2
<1> QED BY <1>5, <1>6, <1>7 DEF Answered

(* Each step keeps the loads that are waited for.                          *)
LEMMA PendingStep ==
  ASSUME HubKept, HubKept', LeaderTypes, PendingInv, [HandoverNext]_allVars
  PROVE  PendingInv'
<1> USE DEF homeVars, tableVars, phoneVars, requestVars, reverseVars
<1>1. CASE Accepts
  BY <1>1 DEF Accepts, on_accepted, PendingInv
<1>2. CASE PhoneSteps
  <2>1. UNCHANGED <<cand, stage, pending>>
    BY <1>2 DEF PhoneSteps, on_phone_hello, answer_initialize, on_load_request
  <2> QED BY <1>2, <2>1, PhoneMoves, PendingKept
<1>3. CASE UNCHANGED vars
  <2>1. UNCHANGED <<cand, stage, pending>>
    BY <1>3 DEF vars
  <2> QED BY <1>3, <2>1, QuietMoves, PendingKept
<1>4. ASSUME NEW g \in Gens, Receives(g) PROVE PendingInv'
  <2>1. CASE on_registered(g, TRUE, LEADER_PROTOCOL_VERSION)
    <3>1. CASE stage = "WaitRegistered"
      <4>1. stage' = "WaitInitialize"
        BY <2>1, <3>1 DEF on_registered
      <4> QED BY <4>1 DEF PendingInv
    <3>2. CASE stage # "WaitRegistered"
      <4>1. UNCHANGED <<cand, stage, pending>>
        BY <2>1, <3>2 DEF on_registered
      <4> QED BY <2>1, <4>1, RegisteredMoves, PendingKept
    <3> QED BY <3>1, <3>2
  <2>2. CASE Answered(g, Head(wire[g]).id)
    BY <2>2, PendingAnswered
  <2> QED BY <1>3, <1>4, <2>1, <2>2, ReceivesCases
<1> QED
  BY <1>1, <1>2, <1>3, <1>4 DEF HandoverNext, LeaderLoses, LeaderTakes, LeaderUpdates,
                                allVars

(* What every step does to the hub and to the leader's books: the leader's *)
(* own steps leave the hub alone, and the hub's leave the books.           *)
LEMMA StepKinds ==
  ASSUME HubKept, HubKept', LeaderTypes, [HandoverNext]_allVars
  PROVE  \/ \E a \in asked : LeaderTakes(a)
         \/ \E s \in Sessions : LeaderUpdates(s)
         \/ /\ UNCHANGED <<subs, since, done, emitted>>
            /\ \/ UNCHANGED <<vars, wire, phoneSide>>
               \/ Accepts
               \/ PhoneSteps
               \/ \E g \in Gens : Receives(g)
<1>1. CASE Accepts
  BY <1>1 DEF Accepts, leaderVars
<1>2. CASE PhoneSteps
  BY <1>2 DEF PhoneSteps, leaderVars
<1>3. ASSUME NEW g \in Gens, Receives(g)
      PROVE  UNCHANGED <<subs, since, done, emitted>>
  BY <1>3 DEF Receives, leaderVars
<1>4. ASSUME NEW g \in Gens, LeaderLoses(g)
      PROVE  UNCHANGED <<subs, since, done, emitted, vars, wire, phoneSide>>
  BY <1>4 DEF LeaderLoses
<1>5. CASE UNCHANGED allVars
  BY <1>5 DEF allVars, leaderVars
<1> QED BY <1>1, <1>2, <1>3, <1>4, <1>5 DEF HandoverNext

(* The hub's steps answer at most what is at the head of a stream.         *)
LEMMA HubStepMoves ==
  ASSUME HubKept, HubKept', LeaderTypes,
         \/ UNCHANGED <<vars, wire, phoneSide>>
         \/ Accepts
         \/ PhoneSteps
         \/ \E g \in Gens : Receives(g)
  PROVE  \E answered : HubMoves(answered)
<1>1. CASE Accepts \/ PhoneSteps \/ UNCHANGED vars
  BY <1>1, AcceptsMoves, PhoneMoves, QuietMoves
<1>2. ASSUME NEW g \in Gens, Receives(g) PROVE \E answered : HubMoves(answered)
  BY <1>2, ReceivesCases, QuietMoves, RegisteredMoves, AnsweredMoves
<1> QED BY <1>1, <1>2

(* Each step keeps what links are subscribed to.                           *)
LEMMA AboutStep ==
  ASSUME HubKept, HubKept', LeaderTypes, AboutInv, [HandoverNext]_allVars
  PROVE  AboutInv'
<1>1. ASSUME NEW a \in asked, LeaderTakes(a) PROVE AboutInv'
  <2>1. /\ a.gen \in Gens /\ UNCHANGED asked
        /\ subs' = [subs EXCEPT ![a.gen] = @ \cup a.about]
    BY <1>1 DEF LeaderTakes, vars, HubKept, TypeOK, Asks
  <2>2. ASSUME NEW g \in Gens, NEW s \in subs'[g]
        PROVE  \E b \in asked : b.gen = g /\ s \in b.about
    <3>1. s \in subs[g] \/ (g = a.gen /\ s \in a.about)
      BY <2>1 DEF LeaderTypes
    <3> QED BY <3>1 DEF AboutInv
  <2> QED BY <2>1, <2>2 DEF AboutInv
<1>2. ASSUME UNCHANGED subs, NEW answered, HubMoves(answered) PROVE AboutInv'
  BY <1>2 DEF HubMoves, AboutInv
<1>3. ASSUME NEW s \in Sessions, LeaderUpdates(s) PROVE AboutInv'
  BY <1>3, <1>2, QuietMoves DEF LeaderUpdates
<1> QED BY <1>1, <1>2, <1>3, StepKinds, HubStepMoves

(* Each step keeps the answers the hub waits for on their way.             *)
LEMMA OnItsWayStep ==
  ASSUME HubKept, HubKept', LeaderTypes, LeaderTypes', LeaderInv, OnItsWayInv,
         [HandoverNext]_allVars
  PROVE  OnItsWayInv'
<1>a. /\ next_req \in Nat /\ next_gen \in Nat
      /\ \A a \in asked : a.id \in Nat /\ a.id <= next_req
      /\ \A a \in asked : a.gen \in Gens /\ a.gen \in Nat /\ a.gen <= next_gen
      /\ \A a \in asked' : a.id \in Nat
  BY AskedBounds
<1>b. ASSUME NEW answered, HubMoves(answered), UNCHANGED done, NEW a \in asked',
             Known(a.gen)', a.id \in done', outstanding'[a.id] # NoWait
      PROVE  /\ a \in asked /\ Known(a.gen) /\ a.id \notin answered
             /\ In(wire[a.gen], Result(a.id))
  <2>1. a \in asked
    BY <1>a, <1>b DEF LeaderInv, HubMoves
  <2>2. Known(a.gen)
    BY <1>a, <1>b, <2>1 DEF HubMoves
  <2>3. a.id \notin answered /\ outstanding[a.id] # NoWait
    BY <1>b, <2>1 DEF HubMoves
  <2> QED BY <1>b, <2>1, <2>2, <2>3 DEF OnItsWayInv
<1>c. ASSUME NEW answered, HubMoves(answered), UNCHANGED <<done, wire>>
      PROVE  OnItsWayInv'
  BY <1>c, <1>b DEF OnItsWayInv
<1>1. ASSUME NEW b \in asked, LeaderTakes(b) PROVE OnItsWayInv'
  <2>1. /\ done' = done \cup {b.id} /\ UNCHANGED <<asked, mux, cand, outstanding>>
        /\ wire' = [wire EXCEPT ![b.gen] = Append(@, Result(b.id))]
    BY <1>1 DEF LeaderTakes, vars
  <2>2. wire[b.gen] \in Seq(LeaderMessage) /\ wire'[b.gen] = Append(wire[b.gen], Result(b.id))
    BY <1>a, <2>1 DEF LeaderTypes
  <2>3. \A h \in Gens : h # b.gen => wire'[h] = wire[h]
    BY <2>1 DEF LeaderTypes
  <2> SUFFICES ASSUME NEW a \in asked, Known(a.gen), a.id \in done',
                      outstanding[a.id] # NoWait
               PROVE  In(wire'[a.gen], Result(a.id))
    BY <2>1 DEF OnItsWayInv, Known
  <2>4. CASE a.id = b.id
    <3>1. a = b
      BY <2>4 DEF HubKept, IdsInv
    <3> QED BY <2>2, <3>1, InAppend
  <2>5. CASE a.id # b.id
    <3>1. In(wire[a.gen], Result(a.id))
      BY <2>1, <2>5 DEF OnItsWayInv
    <3>2. CASE a.gen = b.gen
      <4>1. \A e : In(wire[b.gen], e) => In(Append(wire[b.gen], Result(b.id)), e)
        BY <2>2, InAppend
      <4> QED BY <2>2, <3>1, <3>2, <4>1
    <3>3. CASE a.gen # b.gen
      BY <1>a, <2>3, <3>1, <3>3
    <3> QED BY <3>2, <3>3
  <2> QED BY <2>4, <2>5
<1>2. ASSUME NEW s \in Sessions, LeaderUpdates(s) PROVE OnItsWayInv'
  <2>1. /\ UNCHANGED <<asked, mux, cand, outstanding, done>>
        /\ wire' = [g \in Gens |-> IF g \in Subscribers(s)
                                   THEN Append(wire[g], Update(s, emitted'[s]))
                                   ELSE wire[g]]
    BY <1>2 DEF LeaderUpdates, vars
  <2>2. ASSUME NEW g \in Gens, NEW e, In(wire[g], e) PROVE In(wire'[g], e)
    <3>1. wire[g] \in Seq(LeaderMessage)
      BY DEF LeaderTypes
    <3>2. In(Append(wire[g], Update(s, emitted'[s])), e)
      BY <2>2, <3>1, InAppend
    <3> QED BY <2>1, <2>2, <3>2
  <2> QED BY <1>a, <2>1, <2>2 DEF OnItsWayInv, Known
<1>3. CASE Accepts
  <2>1. /\ HubMoves({}) /\ next_gen' = next_gen + 1 /\ UNCHANGED done
        /\ wire' = [wire EXCEPT ![next_gen'] = <<Registered>>]
    BY <1>3, AcceptsMoves DEF Accepts, leaderVars
  <2>2. \A a \in asked : wire'[a.gen] = wire[a.gen]
    BY <1>a, <2>1 DEF LeaderTypes
  <2> QED BY <1>b, <2>1, <2>2 DEF OnItsWayInv
<1>4. CASE PhoneSteps
  BY <1>4, <1>c, PhoneMoves DEF PhoneSteps, leaderVars
<1>5. ASSUME NEW g \in Gens, Receives(g) PROVE OnItsWayInv'
  <2>1. /\ wire[g] \in Seq(LeaderMessage) /\ wire[g] # <<>>
        /\ \A h \in Gens : wire'[h] = IF h = g THEN Tail(wire[g]) ELSE wire[h]
        /\ UNCHANGED done
    BY <1>5, ReceivesCases
  <2>2. ASSUME NEW answered, HubMoves(answered),
               \A i : Known(g) /\ Head(wire[g]) = Result(i) => i \in answered
        PROVE  OnItsWayInv'
    <3> SUFFICES ASSUME NEW a \in asked', Known(a.gen)', a.id \in done',
                        outstanding'[a.id] # NoWait
                 PROVE  In(wire'[a.gen], Result(a.id))
      BY DEF OnItsWayInv
    <3>1. /\ a \in asked /\ Known(a.gen) /\ a.id \notin answered
          /\ In(wire[a.gen], Result(a.id))
      BY <1>b, <2>1, <2>2
    <3>2. a.gen = g => Head(wire[g]) # Result(a.id)
      BY <2>2, <3>1
    <3>3. a.gen = g => In(Tail(wire[g]), Result(a.id))
      BY <2>1, <3>1, <3>2, InTail
    <3> QED BY <1>a, <2>1, <3>1, <3>3
  <2>3. \A i : Result(i).kind = "Result" /\ Result(i).id = i
    BY DEF Result
  <2>4. CASE ~Known(g) /\ UNCHANGED vars
    BY <2>2, <2>4, QuietMoves
  <2>5. CASE /\ Head(wire[g]).kind = "Registered"
             /\ on_registered(g, TRUE, LEADER_PROTOCOL_VERSION)
    BY <2>2, <2>3, <2>5, RegisteredMoves
  <2>6. CASE Head(wire[g]).kind = "Result" /\ Answered(g, Head(wire[g]).id)
    <3>1. HubMoves({Head(wire[g]).id})
      BY <2>6, AnsweredMoves
    <3> QED BY <2>2, <2>3, <3>1
  <2>7. CASE Head(wire[g]).kind = "Update" /\ UNCHANGED vars
    BY <2>2, <2>3, <2>7, QuietMoves
  <2> QED BY <1>5, <2>4, <2>5, <2>6, <2>7, ReceivesCases
<1>6. CASE UNCHANGED <<vars, wire, done>>
  BY <1>6, <1>c, QuietMoves
<1> QED BY <1>1, <1>2, <1>3, <1>4, <1>5, <1>6, StepKinds

-----------------------------------------------------------------------------
(* Updates on the link that comes up.                                      *)

(* All that a link coming up is asked is the hub's own.                    *)
LEMMA CandAsks ==
  ASSUME HubKept, cand # None, NEW a \in asked, a.gen = cand
  PROVE  a.wait \in {HubInitialize, HubLoad}
<1>1. stage \in Stages /\ stage # "None"
  BY DEF HubKept, TypeOK, GensInv
<1> QED BY <1>1 DEF Stages, HubKept, HandshakeInv

(* While it comes up, subscribed and with everything taken, it still owes  *)
(* the hub an answer.                                                      *)
LEMMA CandWaits ==
  ASSUME HubKept, LeaderTypes, AboutInv, PendingInv, OnItsWayInv,
         cand # None, AllTaken(cand), subs[cand] # {}
  PROVE  \E i : In(wire[cand], Result(i))
<1>1. /\ stage \in Stages /\ stage # "None" /\ cand \in Gens
      /\ pending \in [Sessions -> ReqIds \cup {None}]
  BY DEF HubKept, TypeOK, GensInv
<1>2. PICK s \in subs[cand] : TRUE
  OBVIOUS
<1>3. PICK a \in asked : a.gen = cand /\ s \in a.about
  BY <1>1, <1>2 DEF AboutInv
<1>4. stage \notin {"WaitRegistered", "WaitReady"}
  BY <1>3 DEF HubKept, HandshakeInv
<1>5. a.wait # HubInitialize
  BY <1>3 DEF AboutInv
<1>6. stage # "WaitInitialize"
  BY <1>3, <1>5 DEF HubKept, HandshakeInv
<1>7. stage = "WaitLoads"
  BY <1>1, <1>4, <1>6 DEF Stages
<1>8. PICK t \in Sessions : pending[t] # None
  BY <1>1, <1>7 DEF PendingInv, NoLoads
<1>9. PICK b \in asked : b.gen = cand /\ b.id = pending[t]
  BY <1>7, <1>8 DEF PendingInv
<1>10. outstanding[b.id] # NoWait
  BY <1>7, <1>8, <1>9 DEF PendingInv, HubLoad, NoWait
<1>11. Known(b.gen) /\ b.id \in done
  BY <1>9 DEF Known, AllTaken
<1>12. In(wire[cand], Result(b.id))
  BY <1>9, <1>10, <1>11 DEF OnItsWayInv
<1> QED BY <1>12

(* Each step keeps the updates behind the answers.                         *)
LEMMA CandStep ==
  ASSUME HubKept, HubKept', LeaderTypes, LeaderTypes', LeaderInv, AboutInv, PendingInv,
         OnItsWayInv, CandInv, [HandoverNext]_allVars
  PROVE  CandInv'
<1> SUFFICES ASSUME cand' # None, AllTaken(cand)',
                    NEW s \in subs'[cand'], NEW n \in Owed(cand, s)'
             PROVE  Behind(wire'[cand'], Update(s, n))
  BY DEF CandInv
<1>a. /\ cand \in Gens \cup {None} /\ cand' \in Gens /\ next_gen \in Nat
      /\ \A a \in asked : a.gen \in Gens /\ a.gen \in Nat /\ a.gen <= next_gen
      /\ subs'[cand'] \subseteq Sessions
  <2>1. cand \in Gens \cup {None} /\ cand' \in Gens /\ next_gen \in Nat
    BY DEF HubKept, TypeOK
  <2>2. \A a \in asked : a.gen \in Gens /\ a.gen \in Nat /\ a.gen <= next_gen
    BY AskedBounds
  <2>3. subs'[cand'] \subseteq Sessions
    BY <2>1 DEF LeaderTypes
  <2> QED BY <2>1, <2>2, <2>3
<1>b. ASSUME UNCHANGED <<cand, subs, since, done, emitted>>, asked \subseteq asked'
      PROVE  /\ cand # None /\ AllTaken(cand) /\ s \in subs[cand]
             /\ n \in Owed(cand, s) /\ Behind(wire[cand], Update(s, n))
  <2>1. cand # None /\ AllTaken(cand) /\ s \in subs[cand] /\ n \in Owed(cand, s)
    BY <1>b DEF AllTaken, Owed
  <2> QED BY <2>1 DEF CandInv
<1>1. ASSUME NEW a \in asked, LeaderTakes(a) PROVE Behind(wire'[cand'], Update(s, n))
  <2>1. /\ UNCHANGED <<cand, asked, emitted>> /\ done' = done \cup {a.id}
        /\ subs' = [subs EXCEPT ![a.gen] = @ \cup a.about]
    BY <1>1 DEF LeaderTakes, vars
  <2>2. since' = [since EXCEPT ![a.gen] =
                    [t \in Sessions |->
                       IF \/ a.wait \in {HubInitialize, HubLoad}
                          \/ t \in a.about \ subs[a.gen]
                       THEN emitted[t] ELSE @[t]]]
    BY <1>1 DEF LeaderTakes
  <2>3. wire' = [wire EXCEPT ![a.gen] = Append(@, Result(a.id))]
    BY <1>1 DEF LeaderTakes
  <2>4. CASE a.gen = cand
    <3>1. a.wait \in {HubInitialize, HubLoad}
      BY <2>1, <2>4, CandAsks
    <3>2. since'[cand][s] = emitted[s]
      BY <1>a, <2>1, <2>2, <2>4, <3>1 DEF LeaderTypes
    <3>3. emitted[s] \in Nat
      BY <1>a DEF LeaderTypes
    <3> QED BY <2>1, <3>2, <3>3 DEF Owed
  <2>5. CASE a.gen # cand
    <3>1. wire'[cand] = wire[cand]
      BY <1>a, <2>1, <2>3, <2>5 DEF LeaderTypes
    <3>2. since'[cand] = since[cand] /\ subs'[cand] = subs[cand]
      BY <1>a, <2>1, <2>2, <2>5 DEF LeaderTypes
    <3>3. AllTaken(cand)
      BY <2>1, <2>5 DEF AllTaken, HubKept, IdsInv
    <3>4. n \in Owed(cand, s)
      BY <2>1, <3>2 DEF Owed
    <3> QED BY <2>1, <3>1, <3>2, <3>3, <3>4 DEF CandInv
  <2> QED BY <2>4, <2>5
<1>2. ASSUME NEW t \in Sessions, LeaderUpdates(t)
      PROVE  Behind(wire'[cand'], Update(s, n))
  <2>1. /\ UNCHANGED <<cand, asked, subs, since, done>>
        /\ emitted' = [emitted EXCEPT ![t] = @ + 1]
        /\ wire' = [g \in Gens |-> IF g \in Subscribers(t)
                                   THEN Append(wire[g], Update(t, emitted'[t]))
                                   ELSE wire[g]]
    BY <1>2 DEF LeaderUpdates, vars
  <2>2. cand \notin gone
    BY <1>a, <2>1 DEF LeaderInv, Known
  <2>3. emitted \in [Sessions -> Nat] /\ wire[cand] \in Seq(LeaderMessage)
    BY <1>a, <2>1 DEF LeaderTypes
  <2>4. AllTaken(cand) /\ cand # None /\ s \in subs[cand]
    BY <2>1 DEF AllTaken
  <2>5. CASE s = t
    <3>1. /\ wire'[cand] = Append(wire[cand], Update(s, emitted'[s]))
          /\ emitted'[s] = emitted[s] + 1
      BY <1>a, <2>1, <2>2, <2>3, <2>5 DEF Subscribers
    <3>2. since[cand][s] \in Nat
      BY <1>a, <2>1 DEF LeaderTypes
    <3>3. /\ Behind(wire'[cand], Update(s, emitted'[s]))
          /\ \A e : Behind(wire[cand], e) => Behind(wire'[cand], e)
      <4> DEFINE x == Update(s, emitted'[s])
      <4>1. x.kind # "Result"
        BY DEF Update
      <4> HIDE DEF x
      <4>2. /\ Behind(Append(wire[cand], x), x)
            /\ \A e : Behind(wire[cand], e) => Behind(Append(wire[cand], x), e)
        BY <2>3, <4>1, BehindAppend
      <4> QED BY <3>1, <4>2 DEF x
    <3>4. CASE n = emitted'[s]
      BY <2>1, <3>4, <3>3
    <3>5. CASE n # emitted'[s]
      <4>1. n \in Owed(cand, s)
        BY <1>a, <2>1, <2>3, <3>1, <3>2, <3>5 DEF Owed
      <4>2. Behind(wire[cand], Update(s, n))
        BY <2>4, <4>1 DEF CandInv
      <4> QED BY <2>1, <3>3, <4>2
    <3> QED BY <3>4, <3>5
  <2>6. CASE s # t
    <3>1. n \in Owed(cand, s)
      BY <1>a, <2>1, <2>3, <2>6 DEF Owed
    <3>2. Behind(wire[cand], Update(s, n))
      BY <2>4, <3>1 DEF CandInv
    <3>3. Update(t, emitted'[t]).kind # "Result"
      BY DEF Update
    <3>4. Behind(Append(wire[cand], Update(t, emitted'[t])), Update(s, n))
      BY <2>3, <3>2, <3>3, BehindAppend
    <3> QED BY <1>a, <2>1, <3>2, <3>4
  <2> QED BY <2>5, <2>6
<1>3. CASE Accepts
  <2>1. cand' = next_gen + 1 /\ UNCHANGED <<asked, subs>>
    BY <1>3, AcceptsMoves DEF Accepts, leaderVars
  <2>2. PICK a \in asked : a.gen = cand'
    BY <1>a, <2>1 DEF AboutInv
  <2> QED BY <1>a, <2>1, <2>2
<1>4. ASSUME NEW answered, HubMoves(answered),
             UNCHANGED <<wire, cand, subs, since, done, emitted>>
      PROVE  Behind(wire'[cand'], Update(s, n))
  BY <1>b, <1>4 DEF HubMoves
<1>5. ASSUME NEW g \in Gens, Receives(g), UNCHANGED <<subs, since, done, emitted>>
      PROVE  Behind(wire'[cand'], Update(s, n))
  <2>1. /\ wire[g] \in Seq(LeaderMessage) /\ wire[g] # <<>>
        /\ \A h \in Gens : wire'[h] = IF h = g THEN Tail(wire[g]) ELSE wire[h]
    BY <1>5, ReceivesCases
  <2>2. UNCHANGED cand
    <3>1. CASE Answered(g, Head(wire[g]).id)
      <4>1. cand' = cand \/ cand' = None
        BY <3>1, AnsweredCand
      <4> QED BY <4>1
    <3>2. CASE on_registered(g, TRUE, LEADER_PROTOCOL_VERSION)
      BY <3>2, RegisteredMoves
    <3>3. CASE UNCHANGED vars
      BY <3>3 DEF vars
    <3> QED BY <1>5, <3>1, <3>2, <3>3, ReceivesCases
  <2>3. asked \subseteq asked'
    BY <1>5, HubStepMoves DEF HubMoves
  <2>4. /\ cand # None /\ AllTaken(cand) /\ s \in subs[cand]
        /\ n \in Owed(cand, s) /\ Behind(wire[cand], Update(s, n))
    BY <1>5, <1>b, <2>2, <2>3
  <2>5. CASE g # cand
    BY <1>a, <2>1, <2>2, <2>4, <2>5
  <2>6. CASE g = cand
    <3>1. Known(g)
      BY <2>4, <2>6 DEF Known
    <3>2. \/ Head(wire[g]).kind \in {"Registered", "Result"}
          \/ Head(wire[g]).kind = "Update"
      BY <1>5, <3>1, ReceivesCases
    <3>3. Update(s, n).kind = "Update"
      BY DEF Update
    <3>4. \E i : In(wire[cand], Result(i))
      BY <2>4, CandWaits
    <3>5. \/ Head(wire[g]) # Update(s, n)
          \/ Head(wire[g]).kind # "Result" /\ \E i : In(wire[g], Result(i))
      BY <2>6, <3>3, <3>4
    <3>6. Behind(Tail(wire[g]), Update(s, n))
      BY <2>1, <2>4, <2>6, <3>5, BehindTail
    <3> QED BY <2>1, <2>2, <2>6, <3>6
  <2> QED BY <2>5, <2>6
<1>6. CASE UNCHANGED <<vars, wire, subs, since, done, emitted>>
  <2>1. UNCHANGED cand
    BY <1>6 DEF vars
  <2> QED BY <1>4, <1>6, <2>1, QuietMoves
<1>7. CASE PhoneSteps
  BY <1>4, <1>7, PhoneMoves DEF PhoneSteps, leaderVars
<1> QED BY <1>1, <1>2, <1>3, <1>5, <1>6, <1>7, StepKinds

-----------------------------------------------------------------------------
(* Updates on the link that serves.                                        *)

(* At the hand-over everything the new link was asked is taken.            *)
LEMMA TakenAtHandover ==
  ASSUME HubKept, HubKept', LeaderTypes, LeaderInv, cand # None, mux' = cand,
         NEW i \in done, HubMoves({i})
  PROVE  AllTaken(cand)
<1> SUFFICES ASSUME NEW a \in asked, a.gen = cand PROVE a.id \in done
  BY DEF AllTaken
<1>1. a.wait \in {HubInitialize, HubLoad} /\ a \in asked'
  BY CandAsks DEF HubMoves
<1>2. outstanding'[a.id] = NoWait
  BY <1>1 DEF HubKept, HandshakeInv, MuxHandshakeDone
<1>3. a.id = i \/ outstanding[a.id] = NoWait
  BY <1>2 DEF HubMoves
<1>4. Known(a.gen)
  BY DEF Known
<1> QED BY <1>3, <1>4 DEF LeaderInv

(* A phone that begins to watch now is owed nothing sent before.           *)
LEMMA WatchersJoin ==
  ASSUME HubKept, LeaderTypes, PhoneSteps, NEW s \in Sessions, NEW p \in watchers'[s]
  PROVE  \/ p \in watchers[s] /\ joined'[p][s] = joined[p][s]
         \/ joined'[p][s] = emitted[s]
<1> USE DEF homeVars, tableVars, phoneVars, requestVars, reverseVars
<1>1. /\ watchers \in [Sessions -> SUBSET Phones]
      /\ joined \in [Phones -> [Sessions -> Nat]]
  BY DEF HubKept, TypeOK, LeaderTypes
<1>2. CASE /\ on_phone_hello \/ \E q \in Phones : answer_initialize(q)
           /\ UNCHANGED joined
  BY <1>2 DEF on_phone_hello, answer_initialize
<1>3. ASSUME NEW q \in Phones, NEW o \in Origins, NEW t \in Sessions,
             on_load_request(q, o, {t}),
             joined' = [joined EXCEPT ![q][t] = IF q \in watchers[t] THEN @ ELSE emitted[t]]
      PROVE  \/ p \in watchers[s] /\ joined'[p][s] = joined[p][s]
             \/ joined'[p][s] = emitted[s]
  <2>1. p \in watchers[s] \/ (p = q /\ s = t)
    BY <1>1, <1>3 DEF on_load_request, watch
  <2>2. CASE p = q /\ s = t
    BY <1>1, <1>3, <2>2
  <2>3. CASE p \in watchers[s] /\ (p # q \/ s # t)
    <3>1. p \in Phones
      BY <1>1, <2>3
    <3> QED BY <1>1, <1>3, <2>3, <3>1
  <2> QED BY <2>1, <2>2, <2>3
<1> QED BY <1>2, <1>3 DEF PhoneSteps

(* Each step keeps the updates owed in the stream, or they are passed on.  *)
LEMMA MuxStep ==
  ASSUME HubKept, HubKept', LeaderTypes, LeaderTypes', LeaderInv, AboutInv, PendingInv,
         OnItsWayInv, CandInv, MuxInv, [HandoverNext]_allVars
  PROVE  MuxInv'
<1> DEFINE Passed(s, n) == \A p \in watchers[s] : n > joined[p][s] => In(got[p][s], n)
<1> SUFFICES ASSUME mux' # None, NEW s \in subs'[mux'], NEW n \in Owed(mux, s)'
             PROVE  In(wire'[mux'], Update(s, n)) \/ Passed(s, n)'
  BY DEF MuxInv
<1>a. mux \in Gens \cup {None} /\ mux' \in Gens /\ next_gen \in Nat /\ s \in Sessions
  <2>1. mux \in Gens \cup {None} /\ mux' \in Gens /\ next_gen \in Nat
    BY DEF HubKept, TypeOK
  <2>2. subs'[mux'] \subseteq Sessions
    BY <2>1 DEF LeaderTypes
  <2> QED BY <2>1, <2>2
<1>b. /\ emitted \in [Sessions -> Nat] /\ since \in [Gens -> [Sessions -> Nat]]
      /\ subs \in [Gens -> SUBSET Sessions] /\ wire \in [Gens -> Seq(LeaderMessage)]
      /\ watchers \in [Sessions -> SUBSET Phones] /\ n \in Int
      /\ got \in [Phones -> [Sessions -> Seq(Nat)]]
  <2>1. since'[mux'][s] \in Nat /\ emitted'[s] \in Nat
    BY <1>a DEF LeaderTypes
  <2>2. n \in Int
    BY <2>1 DEF Owed
  <2> QED BY <2>2 DEF LeaderTypes, HubKept, TypeOK
<1>c. ASSUME UNCHANGED <<mux, subs, since, emitted>>
      PROVE  /\ mux # None /\ n \in Owed(mux, s)
             /\ In(wire[mux], Update(s, n)) \/ Passed(s, n)
  BY <1>c DEF MuxInv, Owed
<1>1. ASSUME NEW a \in asked, LeaderTakes(a)
      PROVE  In(wire'[mux'], Update(s, n)) \/ Passed(s, n)'
  <2>1. /\ UNCHANGED <<mux, watchers, emitted, got, joined>>
        /\ subs' = [subs EXCEPT ![a.gen] = @ \cup a.about]
    BY <1>1 DEF LeaderTakes, vars, phoneSide
  <2>2. since' = [since EXCEPT ![a.gen] =
                    [t \in Sessions |->
                       IF \/ a.wait \in {HubInitialize, HubLoad}
                          \/ t \in a.about \ subs[a.gen]
                       THEN emitted[t] ELSE @[t]]]
    BY <1>1 DEF LeaderTakes
  <2>3. wire' = [wire EXCEPT ![a.gen] = Append(@, Result(a.id))]
    BY <1>1 DEF LeaderTakes
  <2>4. since'[mux][s] # emitted[s]
    BY <1>a, <1>b, <2>1 DEF Owed
  <2>5. s \in subs[mux] /\ since'[mux][s] = since[mux][s]
    <3>1. CASE a.gen = mux
      BY <1>a, <1>b, <2>1, <2>2, <2>4, <3>1
    <3>2. CASE a.gen # mux
      BY <1>a, <1>b, <2>1, <2>2, <3>2
    <3> QED BY <3>1, <3>2
  <2>6. n \in Owed(mux, s)
    BY <2>1, <2>5 DEF Owed
  <2>7. In(wire[mux], Update(s, n)) \/ Passed(s, n)
    BY <2>1, <2>5, <2>6 DEF MuxInv
  <2>8. In(wire[mux], Update(s, n)) => In(wire'[mux], Update(s, n))
    <3>1. wire'[mux] = wire[mux] \/ wire'[mux] = Append(wire[mux], Result(a.id))
      BY <1>a, <1>b, <2>1, <2>3
    <3>2. \A e : In(wire[mux], e) => In(Append(wire[mux], Result(a.id)), e)
      BY <1>a, <1>b, <2>1, InAppend
    <3> QED BY <3>1, <3>2
  <2> QED BY <2>1, <2>7, <2>8
<1>2. ASSUME NEW t \in Sessions, LeaderUpdates(t)
      PROVE  In(wire'[mux'], Update(s, n)) \/ Passed(s, n)'
  <2>1. /\ UNCHANGED <<mux, cand, subs, since, watchers, got, joined>>
        /\ emitted' = [emitted EXCEPT ![t] = @ + 1]
        /\ wire' = [g \in Gens |-> IF g \in Subscribers(t)
                                   THEN Append(wire[g], Update(t, emitted'[t]))
                                   ELSE wire[g]]
    BY <1>2 DEF LeaderUpdates, vars, phoneSide
  <2>2. mux \notin gone
    BY <1>a, <2>1 DEF LeaderInv, Known
  <2> DEFINE x == Update(t, emitted'[t])
  <2>3. /\ In(Append(wire[mux], x), x)
        /\ \A e : In(wire[mux], e) => In(Append(wire[mux], x), e)
    <3>1. wire[mux] \in Seq(LeaderMessage)
      BY <1>a, <1>b, <2>1
    <3> HIDE DEF x
    <3> QED BY <3>1, InAppend
  <2>4. CASE s = t /\ n = emitted'[s]
    <3>1. mux \in Subscribers(t)
      BY <1>a, <2>1, <2>2, <2>4 DEF Subscribers
    <3>2. wire'[mux] = Append(wire[mux], x)
      BY <1>a, <2>1, <3>1
    <3> QED BY <2>1, <2>3, <2>4, <3>2
  <2>5. CASE s # t \/ n # emitted'[s]
    <3>1. n \in Owed(mux, s)
      BY <1>a, <1>b, <2>1, <2>5 DEF Owed
    <3>2. In(wire[mux], Update(s, n)) \/ Passed(s, n)
      BY <2>1, <3>1 DEF MuxInv
    <3>3. wire'[mux] = wire[mux] \/ wire'[mux] = Append(wire[mux], x)
      BY <1>a, <2>1
    <3> QED BY <2>1, <2>3, <3>2, <3>3
  <2> QED BY <2>4, <2>5
<1>3. CASE Accepts
  <2>1. /\ UNCHANGED <<mux, watchers, subs, since, emitted, got, joined>>
        /\ next_gen' = next_gen + 1 /\ wire' = [wire EXCEPT ![next_gen'] = <<Registered>>]
    BY <1>3, AcceptsMoves DEF Accepts, leaderVars, phoneSide
  <2>2. mux <= next_gen
    BY DEF HubKept, GensInv
  <2>3. wire'[mux] = wire[mux]
    BY <1>a, <1>b, <2>1, <2>2 DEF Gens
  <2> QED BY <1>c, <2>1, <2>3
<1>4. CASE PhoneSteps
  <2>1. UNCHANGED <<mux, subs, since, emitted, wire, got>>
    BY <1>4, PhoneMoves DEF PhoneSteps, leaderVars
  <2>2. In(wire[mux], Update(s, n)) \/ Passed(s, n)
    BY <1>c, <2>1
  <2>3. ASSUME Passed(s, n), NEW p \in watchers'[s], n > joined'[p][s]
        PROVE  In(got'[p][s], n)
    <3>1. n <= emitted[s]
      BY <1>a, <1>b, <2>1 DEF Owed
    <3>2. p \in watchers[s] /\ joined'[p][s] = joined[p][s]
      BY <1>4, <1>a, <1>b, <2>3, <3>1, WatchersJoin
    <3> QED BY <2>1, <2>3, <3>2
  <2> QED BY <2>1, <2>2, <2>3
<1>5. ASSUME NEW g \in Gens, Receives(g)
      PROVE  In(wire'[mux'], Update(s, n)) \/ Passed(s, n)'
  <2>1. /\ wire[g] \in Seq(LeaderMessage) /\ wire[g] # <<>>
        /\ \A h \in Gens : wire'[h] = IF h = g THEN Tail(wire[g]) ELSE wire[h]
        /\ UNCHANGED <<subs, since, done, emitted, joined>>
    BY <1>5, ReceivesCases
  <2>a. Update(s, n).kind = "Update"
    BY DEF Update
  <2>2. ASSUME UNCHANGED <<mux, watchers, got>>,
               mux = g => Head(wire[g]).kind # "Update"
        PROVE  In(wire'[mux'], Update(s, n)) \/ Passed(s, n)'
    <3>1. In(wire[mux], Update(s, n)) \/ Passed(s, n)
      BY <1>c, <2>1, <2>2
    <3>2. In(wire[mux], Update(s, n)) => In(wire'[mux], Update(s, n))
      <4>1. CASE mux # g
        BY <1>a, <2>1, <2>2, <4>1
      <4>2. CASE mux = g
        <5>1. Head(wire[g]) # Update(s, n)
          BY <2>2, <2>a, <4>2
        <5>2. In(wire[g], Update(s, n)) => In(Tail(wire[g]), Update(s, n))
          BY <2>1, <5>1, InTail
        <5> QED BY <2>1, <4>2, <5>2
      <4> QED BY <4>1, <4>2
    <3> QED BY <2>1, <2>2, <3>1, <3>2
  <2>3. CASE ~Known(g) /\ UNCHANGED <<vars, got>>
    <3>1. UNCHANGED <<mux, watchers>> /\ mux # g
      BY <1>a, <2>3 DEF vars, Known
    <3> QED BY <2>2, <2>3, <3>1
  <2>4. CASE /\ Head(wire[g]).kind = "Registered" /\ UNCHANGED got
             /\ on_registered(g, TRUE, LEADER_PROTOCOL_VERSION)
    BY <2>2, <2>4, RegisteredMoves
  <2>5. CASE /\ Head(wire[g]).kind = "Result" /\ UNCHANGED got
             /\ Answered(g, Head(wire[g]).id)
    <3> DEFINE i == Head(wire[g]).id
    <3>1. HubMoves({i}) /\ UNCHANGED watchers
      BY <2>5, AnsweredMoves
    <3>2. CASE UNCHANGED mux
      BY <2>2, <2>5, <3>1, <3>2
    <3>3. CASE g = cand /\ mux' = cand
      <4>1. cand # None
        BY <1>a, <3>3
      <4>2. wire[g][1] = Head(wire[g]) /\ 1 \in 1..Len(wire[g])
        BY <2>1, Dropped
      <4>3. i \in done
        BY <2>5, <4>2 DEF LeaderInv
      <4>4. AllTaken(cand)
        BY <3>1, <3>3, <4>1, <4>3, TakenAtHandover
      <4>5. s \in subs[cand] /\ n \in Owed(cand, s)
        BY <2>1, <3>3 DEF Owed
      <4>6. Behind(wire[g], Update(s, n))
        BY <3>3, <4>1, <4>4, <4>5 DEF CandInv
      <4>7. Head(wire[g]) # Update(s, n)
        BY <2>5, <2>a
      <4>8. Behind(Tail(wire[g]), Update(s, n))
        BY <2>1, <4>6, <4>7, BehindTail
      <4>9. In(wire'[mux'], Update(s, n))
        BY <2>1, <3>3, <4>8 DEF Behind, In
      <4> QED BY <4>9
    <3> QED BY <2>5, <3>2, <3>3, AnsweredCand
  <2>6. CASE /\ Known(g) /\ Head(wire[g]).kind = "Update" /\ UNCHANGED vars
             /\ on_home_notification(g, Head(wire[g]))
    <3>1. UNCHANGED <<mux, watchers>>
      BY <2>6 DEF vars
    <3>2. CASE g # mux
      <4>1. UNCHANGED got
        BY <1>b, <2>6, <3>2 DEF on_home_notification
      <4> QED BY <2>2, <3>1, <3>2, <4>1
    <3>3. CASE g = mux /\ Head(wire[g]) = Update(s, n)
      <4>1. Head(wire[g]).session = s /\ Head(wire[g]).n = n
        BY <3>3 DEF Update
      <4>2. ASSUME NEW p \in watchers[s] PROVE In(got'[p][s], n)
        <5>1. p \in Phones
          BY <1>a, <1>b
        <5>2. got[p][s] \in Seq(Nat) /\ got'[p][s] = Append(got[p][s], n)
          BY <1>a, <1>b, <2>6, <3>3, <4>1, <5>1 DEF on_home_notification
        <5> QED BY <5>2, InAppend
      <4> QED BY <3>1, <4>2
    <3>4. CASE g = mux /\ Head(wire[g]) # Update(s, n)
      <4>1. In(wire[mux], Update(s, n)) \/ Passed(s, n)
        BY <1>c, <2>1, <3>1
      <4>2. In(wire[g], Update(s, n)) => In(Tail(wire[g]), Update(s, n))
        BY <2>1, <3>4, InTail
      <4>3. ASSUME NEW p \in watchers[s], In(got[p][s], n) PROVE In(got'[p][s], n)
        <5>1. p \in Phones
          BY <1>a, <1>b
        <5>2. /\ got[p][s] \in Seq(Nat)
              /\ \/ got'[p][s] = got[p][s]
                 \/ got'[p][s] = Append(got[p][s], Head(wire[g]).n)
          BY <1>a, <1>b, <2>6, <5>1 DEF on_home_notification
        <5>3. \A e : In(got[p][s], e) => In(Append(got[p][s], Head(wire[g]).n), e)
          BY <5>2, InAppend
        <5> QED BY <4>3, <5>2, <5>3
      <4> QED BY <2>1, <3>1, <3>4, <4>1, <4>2, <4>3
    <3> QED BY <3>2, <3>3, <3>4
  <2> QED BY <1>5, <2>3, <2>4, <2>5, <2>6, ReceivesCases
<1>6. CASE UNCHANGED <<vars, wire, subs, since, emitted, phoneSide>>
  <2>1. UNCHANGED <<mux, watchers, got, joined>>
    BY <1>6 DEF vars, phoneSide
  <2> QED BY <1>6, <1>c, <2>1
<1> QED BY <1>1, <1>2, <1>3, <1>4, <1>5, <1>6, StepKinds

(* The streams' invariants together.                                       *)
StreamInv == PendingInv /\ AboutInv /\ OnItsWayInv /\ CandInv /\ MuxInv

(* They always hold.                                                       *)
LEMMA StreamAlways == HandoverSpec => []StreamInv
<1>1. HandoverInit => StreamInv
  BY DEF HandoverInit, Init, StreamInv, PendingInv, AboutInv, OnItsWayInv, CandInv, MuxInv
<1>2. /\ HubKept /\ LeaderTypes /\ LeaderInv /\ HubKept' /\ LeaderTypes' /\ StreamInv
      /\ [HandoverNext]_allVars
      => StreamInv'
  BY PendingStep, AboutStep, OnItsWayStep, CandStep, MuxStep DEF StreamInv
<1> QED BY <1>1, <1>2, LeaderAlways, PTL DEF HandoverSpec

(* For every number of links, phones and sessions: an update the leader    *)
(* sends on the serving link after it answered the last of the hub's loads *)
(* reaches every phone that watched the session when it was sent.  The hub *)
(* discards the updates of a link that comes up, and this is why none of   *)
(* these is among them: until the hub has the last answer there is an      *)
(* answer ahead of them in the stream.                                     *)
THEOREM SubscribedUpdatesAlwaysArrive == HandoverSpec => []SubscribedUpdatesArrive
<1>1. MuxInv => SubscribedUpdatesArrive
  BY DEF MuxInv, SubscribedUpdatesArrive, Complete, NotLost, Owed, In
<1> QED BY <1>1, StreamAlways, PTL DEF StreamInv

=============================================================================
