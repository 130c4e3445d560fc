------------------------------ MODULE Handover ------------------------------
(***************************************************************************)
(* The hub together with the leader it is a follower of, while one snorkel *)
(* replaces another.  The hub's steps are the actions of module Hub; what  *)
(* that module lets the leader do at any time is here what a leader does,  *)
(* over one FIFO stream per link (leader, snorkel, connection task, hub's  *)
(* channel), the two streams being independent of each other.              *)
(*                                                                         *)
(* The leader is external.  It registers a follower, takes the requests of *)
(* a link in order, subscribes the link to the session a request names,    *)
(* sends every update of a session to its subscribers alone, and evicts a  *)
(* session when its last subscriber goes (docs/topside-inputs.md, section  *)
(* on subscriptions).  No home window subscribes; the docs say one may not *)
(* be counted on.  Links are replaced here and do not fail, and the phone  *)
(* stays: losses of either are Hub's subject.                              *)
(***************************************************************************)
EXTENDS Hub, Sequences

CONSTANT MaxUpdates   \* bound: updates of one session

ASSUME MaxUpdatesAssumption == MaxUpdates \in Nat

VARIABLES
  wire,      \* generation -> what the hub has not yet handled of its stream
  subs,      \* generation -> sessions it subscribed to
  since,     \* generation -> session -> updates sent before it subscribed
             \* and before the leader answered the hub's last load on it
  done,      \* requests the leader has taken
  gone,      \* generations the leader has seen closed
  evicted,   \* sessions the leader evicted
  emitted,   \* session -> updates sent so far
  got,       \* phone -> session -> updates the hub passed to it
  joined     \* phone -> session -> updates sent before it began to watch

leaderVars == <<subs, since, done, gone, evicted, emitted>>
phoneSide == <<got, joined>>
allVars == <<vars, wire, leaderVars, phoneSide>>

Registered == [kind |-> "Registered"]
Result(i) == [kind |-> "Result", id |-> i]
Update(s, n) == [kind |-> "Update", session |-> s, n |-> n]

HandoverInit ==
  /\ Init
  /\ wire = [g \in Gens |-> <<>>]
  /\ subs = [g \in Gens |-> {}]
  /\ since = [g \in Gens |-> [s \in Sessions |-> 0]]
  /\ done = {} /\ gone = {} /\ evicted = {}
  /\ emitted = [s \in Sessions |-> 0]
  /\ got = [p \in Phones |-> [s \in Sessions |-> <<>>]]
  /\ joined = [p \in Phones |-> [s \in Sessions |-> 0]]

-----------------------------------------------------------------------------
(* The leader.                                                             *)

(* session_subscribers of one session.                                     *)
Subscribers(s) == {g \in Gens \ gone : s \in subs[g]}

(* A request of a link, in the order they were sent; a message that names  *)
(* a session subscribes the link to it.                                    *)
LeaderTakes(a) ==
  /\ a \in asked /\ a.id \notin done /\ a.gen \notin gone
  /\ \A b \in asked : b.gen = a.gen /\ b.id < a.id => b.id \in done
  /\ done' = done \cup {a.id}
  /\ subs' = [subs EXCEPT ![a.gen] = @ \cup a.about]
  /\ since' = [since EXCEPT ![a.gen] =
                 [s \in Sessions |->
                    IF \/ a.wait \in {HubInitialize, HubLoad}
                       \/ s \in a.about \ subs[a.gen]
                    THEN emitted[s] ELSE @[s]]]
  /\ wire' = [wire EXCEPT ![a.gen] = Append(@, Result(a.id))]
  /\ UNCHANGED <<vars, gone, evicted, emitted, phoneSide>>

(* The agent's next update of a session somebody is subscribed to.         *)
LeaderUpdates(s) ==
  /\ emitted[s] < MaxUpdates
  /\ Subscribers(s) # {}
  /\ emitted' = [emitted EXCEPT ![s] = @ + 1]
  /\ wire' = [g \in Gens |-> IF g \in Subscribers(s)
                             THEN Append(wire[g], Update(s, emitted'[s]))
                             ELSE wire[g]]
  /\ UNCHANGED <<vars, subs, since, done, gone, evicted, phoneSide>>

(* A link whose Link the hub dropped closes; the leader forgets it, and    *)
(* evicts what nobody else is subscribed to.                               *)
LeaderLoses(g) ==
  /\ g <= next_gen /\ ~Known(g) /\ g \notin gone
  /\ gone' = gone \cup {g}
  /\ evicted' = evicted \cup {s \in Sessions : Subscribers(s) = {g}}
  /\ UNCHANGED <<vars, wire, subs, since, done, emitted, phoneSide>>

-----------------------------------------------------------------------------
(* The hub.                                                                *)

(* The task of a new link writes Register at once, and the leader, ready,  *)
(* answers it first of all.                                                *)
Accepts ==
  /\ on_accepted
  /\ wire' = [wire EXCEPT ![next_gen'] = <<Registered>>]
  /\ UNCHANGED <<leaderVars, phoneSide>>

(* Mutant of on_home_notification: relayed by a sole link alone.           *)
on_home_notification_sole(g, m) ==
  got' = [p \in Phones |-> [s \in Sessions |->
            IF g = mux /\ cand = None /\ s = m.session /\ p \in watchers[s]
            THEN Append(got[p][s], m.n) ELSE got[p][s]]]

(* A session/update from the mux goes to the session's watchers.  From a   *)
(* candidate it goes nowhere.                                              *)
on_home_notification(g, m) ==
  got' = [p \in Phones |-> [s \in Sessions |->
            IF g = mux /\ s = m.session /\ p \in watchers[s]
            THEN Append(got[p][s], m.n) ELSE got[p][s]]]

(* The hub handles the next message of link g; those of a link it no       *)
(* longer knows are dropped.                                               *)
Receives(g) ==
  /\ ~stopped
  /\ wire[g] # <<>>
  /\ wire' = [wire EXCEPT ![g] = Tail(@)]
  /\ LET m == Head(wire[g]) IN
       \/ ~Known(g) /\ UNCHANGED <<vars, got>>
       \/ /\ Known(g) /\ m.kind = "Registered"
          /\ on_registered(g, TRUE, LEADER_PROTOCOL_VERSION)
          /\ UNCHANGED got
       \/ /\ m.kind = "Result"
          /\ \/ on_forwarded_result(g, m.id, {})
             \/ on_initialize_result(g, m.id, FALSE)
             \/ on_load_result(g, m.id)
          /\ UNCHANGED got
       \/ /\ Known(g) /\ m.kind = "Update"
          /\ on_home_notification(g, m)
          /\ UNCHANGED vars
  /\ UNCHANGED <<leaderVars, joined>>

(* A phone attaches, initializes and loads sessions.                       *)
PhoneSteps ==
  /\ \/ /\ on_phone_hello \/ \E p \in Phones : answer_initialize(p)
        /\ UNCHANGED joined
     \/ \E p \in Phones, o \in Origins, s \in Sessions :
          /\ s \notin evicted /\ on_load_request(p, o, {s})
          /\ joined' = [joined EXCEPT ![p][s] = IF p \in watchers[s] THEN @
                                                ELSE emitted[s]]
  /\ UNCHANGED <<wire, leaderVars, got>>

HandoverNext ==
  \/ Accepts \/ PhoneSteps
  \/ \E g \in Gens : Receives(g) \/ LeaderLoses(g)
  \/ \E a \in asked : LeaderTakes(a)
  \/ \E s \in Sessions : LeaderUpdates(s)

HandoverSpec == HandoverInit /\ [][HandoverNext]_allVars

-----------------------------------------------------------------------------
(* Link g came all the way up: its initialize and its loads were answered. *)
Served(g) ==
  LET own == {a \in asked : a.gen = g /\ a.wait \in {HubInitialize, HubLoad}}
  IN  own # {} /\ \A a \in own : outstanding[a.id] = NoWait

(* The sessions link g was asked to load when it came up.                  *)
LoadedOn(g) == UNION {a.about : a \in {b \in asked : b.gen = g /\ b.wait = HubLoad}}

(* Why the replacement order matters (docs/snorkel-on-grok-leader.md):     *)
(* when the leader loses a link that served, the sessions its successor    *)
(* was asked to load are subscribed again, and none of them is evicted.    *)
HandedOverNotEvicted ==
  [][\A g \in gone' \ gone :
       Served(g) /\ mux # None => LoadedOn(mux) \cap (evicted' \ evicted) = {}]_allVars

(* The same document has every session somebody still watches loaded on    *)
(* the new link before the old one is torn down: when the leader loses a   *)
(* link that served, it evicts no session a phone watches.                 *)
WatchedNotEvicted ==
  [][\A g \in gone' \ gone :
       Served(g) => \A s \in evicted' \ evicted : watchers[s] = {}]_allVars

(* The update was passed to the phone, or is on its way on a link the hub  *)
(* still listens to.                                                       *)
NotLost(p, s, n) ==
  \/ \E k \in 1..Len(got[p][s]) : got[p][s][k] = n
  \/ \E g \in {mux, cand} \ {None} :
       \E k \in 1..Len(wire[g]) : wire[g][k] = Update(s, n)

(* Every update sent since then on link g reaches the phones that watched  *)
(* when it was sent.                                                       *)
Complete(g) ==
  \A s \in subs[g] : \A p \in watchers[s] :
    \A n \in (since[g][s] + 1)..emitted[s] : n > joined[p][s] => NotLost(p, s, n)

(* What the leader sends on the serving link once it has answered the last *)
(* load there reaches the phones, however many loads there were, and also  *)
(* while the next link comes up.                                           *)
SubscribedUpdatesArrive == mux # None => Complete(mux)

(* README.md: session updates are fanned out to every phone watching that  *)
(* session.  While a link serves, none is missing that was sent on it, or  *)
(* on a link that served before it.                                        *)
EveryUpdateArrives ==
  mux # None => \A g \in Gens : Served(g) => Complete(g)

=============================================================================
