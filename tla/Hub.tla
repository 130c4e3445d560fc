-------------------------------- MODULE Hub --------------------------------
(***************************************************************************)
(* The hub of topside: one task (Hub::run) that owns all of the server's   *)
(* state and handles one ToHub message, or one deadline, at a time.  The   *)
(* messages come from the connection tasks, one per home link (a snorkel   *)
(* on 1943, numbered by its generation) and one per phone (7678), so the   *)
(* hub meets them in any interleaving.                                     *)
(*                                                                         *)
(* A handler is one action.  What the hub hands to a connection's          *)
(* unbounded channel is part of the action: `asked', `replies', `answers'  *)
(* and `lastNote' record the messages sent so far that the properties are  *)
(* about.  The leader at home is external: it may send any frame at any    *)
(* time, and answers, possibly more than once, only requests it was asked  *)
(* on the link it answers on.  Handlers that only write to a channel       *)
(* (parse errors, authenticate, session updates, phone notifications) and  *)
(* frames of a link the hub no longer knows change nothing here and are    *)
(* stuttering steps.                                                       *)
(***************************************************************************)
EXTENDS Integers, FiniteSets, Functions

CONSTANTS
  Sessions,                 \* session ids of the agent at home
  Origins,                  \* JSON-RPC ids the phones put on their requests
  Versions,                 \* leader protocol versions a Registered may carry
  LEADER_PROTOCOL_VERSION,  \* the version topside speaks (wire.rs)
  MaxGen,                   \* bound: home links accepted
  MaxPhone,                 \* bound: phones attached
  MaxReq,                   \* bound: ids taken from next_req
  MaxForward,               \* bound: phone requests forwarded home
  MaxReverse                \* bound: "aq:n" ids handed to phones

ASSUME ConstantsAssumption ==
  /\ IsFiniteSet(Sessions)
  /\ LEADER_PROTOCOL_VERSION \in Versions
  /\ {MaxGen, MaxPhone, MaxReq, MaxForward, MaxReverse} \subseteq Nat

None == 0                   \* ids are counted from 1
Gens == 1..MaxGen
Phones == 1..MaxPhone
ReqIds == 1..MaxReq
Rids == 1..MaxReverse

(* What `outstanding' waits for under a home request id (enum Wait).       *)
NoWait == [kind |-> "NoWait"]
HubInitialize == [kind |-> "HubInitialize"]
HubLoad == [kind |-> "HubLoad"]
Forwarded(p, o) == [kind |-> "Forwarded", phone |-> p, origin |-> o]
ForwardedWaits == [kind : {"Forwarded"}, phone : Phones, origin : Origins]
Waits == {NoWait, HubInitialize, HubLoad} \cup ForwardedWaits

(* The progress of an incoming link (enum Incoming); its Ready variant     *)
(* lives only inside finish_successor.                                     *)
Stages == {"None", "WaitRegistered", "WaitReady", "WaitInitialize",
           "WaitLoads"}

Methods == {"initialize", "session/load", "session/close",
            "session/prompt", "other"}

(* A request put on a home link: which link, under which id, and for whom. *)
Asks == [gen : Gens, id : ReqIds, method : Methods,
         about : SUBSET Sessions, wait : Waits \ {NoWait}]

VARIABLES
  mux,             \* generation phones are multiplexed onto: Sole's link or
                   \* Dual's incumbent; None in Away and BringingUp
  cand,            \* generation of the incoming link of BringingUp or Dual
  stage,           \* the incoming link's progress
  pending,         \* PendingLoads: session -> id of its unanswered load
  phones,          \* phone -> "None", "Connected" or "Ready"
  watchers,        \* session -> phones watching it ({}: no entry)
  driver,          \* session -> the phone driving it (None: no entry)
  outstanding,     \* home request id -> Wait
  reverse,         \* {[phone, rid, claim]}: asks a phone has not answered
  claims,          \* request id -> "None", "Open" or "Taken"
  next_phone, next_req, next_gen, reverse_seq,
  refused_version, \* {v} after a refused Registered, else {}
  stopped,         \* Hub::run has returned
  asked,           \* every request put on a home link (history)
  heard,           \* generation -> what it has told the hub (history)
  replies,         \* home request id -> replies passed to its phone (history)
  answers,         \* claim -> answers passed home (history)
  lastNote         \* phone -> away flag of the last host_away note it got

homeVars == <<mux, cand, stage, pending>>
tableVars == <<watchers, driver>>
phoneVars == <<phones, next_phone, lastNote>>
requestVars == <<outstanding, next_req, asked, replies>>
reverseVars == <<reverse, claims, reverse_seq, answers>>
vars == <<mux, cand, stage, pending, phones, watchers, driver, outstanding,
          reverse, claims, next_phone, next_req, next_gen, reverse_seq,
          refused_version, stopped, asked, heard, replies, answers, lastNote>>

NoLoads == [s \in Sessions |-> None]

(* At most one session id: what session_id_in finds in a message.          *)
SessionIdIn == {{}} \cup {{s} : s \in Sessions}

Init ==
  /\ mux = None /\ cand = None /\ stage = "None" /\ pending = NoLoads
  /\ phones = [p \in Phones |-> "None"]
  /\ watchers = [s \in Sessions |-> {}]
  /\ driver = [s \in Sessions |-> None]
  /\ outstanding = [i \in ReqIds |-> NoWait]
  /\ reverse = {}
  /\ claims = [i \in ReqIds |-> "None"]
  /\ next_phone = 0 /\ next_req = 0 /\ next_gen = 0 /\ reverse_seq = 0
  /\ refused_version = {}
  /\ stopped = FALSE
  /\ asked = {}
  /\ heard = [g \in Gens |-> {}]
  /\ replies = [i \in ReqIds |-> 0]
  /\ answers = [i \in ReqIds |-> 0]
  /\ lastNote = [p \in Phones |-> FALSE]

-----------------------------------------------------------------------------
(* Pieces of the handlers.                                                 *)

Away == mux = None

(* Role::Mux or Role::Candidate.                                           *)
Known(g) == g \in {mux, cand} \ {None}

Hear(g, what) == heard' = [heard EXCEPT ![g] = @ \cup what]

(* Every initialized phone is sent host_away(away).                        *)
broadcast_away(away) ==
  lastNote' = [p \in Phones |->
                 IF phones[p] = "Ready" THEN away ELSE lastNote[p]]

(* Mutant of has_deadline: WaitReady has none.                             *)
has_deadline_first == stage = "WaitRegistered"

(* Incoming::deadline: armed while Registered (10 s) or LeaderReady        *)
(* (120 s) is waited for, and at no later stage.                           *)
has_deadline == stage \in {"WaitRegistered", "WaitReady"}

(* Mutant of fail_incoming: the incumbent goes with the candidate.         *)
fail_both ==
  /\ mux' = None
  /\ cand' = None
  /\ stage' = "None"
  /\ pending' = NoLoads

(* The candidate's Link is dropped; an incumbent, if any, stays.           *)
fail_incoming ==
  /\ cand' = None
  /\ stage' = "None"
  /\ pending' = NoLoads
  /\ UNCHANGED mux

(* Mutant of finish_successor: the link is left in Incoming::Ready.        *)
finish_unarmed ==
  /\ stage' = "Ready"
  /\ UNCHANGED <<mux, cand, pending, lastNote>>

(* Mutant of finish_successor: phones are never told the host is back.     *)
finish_silently ==
  /\ mux' = cand
  /\ cand' = None
  /\ stage' = "None"
  /\ pending' = NoLoads
  /\ UNCHANGED lastNote

(* The candidate becomes the mux.  With an incumbent this is the cutover   *)
(* that drops the incumbent's Link, and phones are told nothing.           *)
finish_successor ==
  /\ mux' = cand
  /\ cand' = None
  /\ stage' = "None"
  /\ pending' = NoLoads
  /\ IF Away THEN broadcast_away(FALSE) ELSE UNCHANGED lastNote

(* alloc_req, n times.                                                     *)
alloc_reqs(n) ==
  /\ next_req + n <= MaxReq
  /\ next_req' = next_req + n

(* Mutant of alloc_loads: PendingLoads' copy of next_req is not stored.    *)
alloc_loads_lost(n) ==
  /\ next_req + n <= MaxReq
  /\ UNCHANGED next_req

(* The ids of PendingLoads::start, counted on a copy of next_req that is   *)
(* stored back.                                                            *)
alloc_loads(n) == alloc_reqs(n)

(* Sends one request of the hub's or of a phone's on link g under id i.    *)
Ask(g, i, method, about, wait) ==
  [gen |-> g, id |-> i, method |-> method, about |-> about, wait |-> wait]

send_request(g, method, about, wait) ==
  LET i == next_req + 1 IN
    /\ alloc_reqs(1)
    /\ outstanding' = [outstanding EXCEPT ![i] = wait]
    /\ asked' = asked \cup {Ask(g, i, method, about, wait)}
    /\ UNCHANGED replies

(* Mutant of consumed: the wait stays in the map.                          *)
consumed_kept(i) == outstanding

(* outstanding.remove(&id)                                                 *)
consumed(i) == [outstanding EXCEPT ![i] = NoWait]

send_follower_initialize(g) ==
  send_request(g, "initialize", {}, HubInitialize)

(* Mutant of watch: a phone is entered whether or not it is initialized.   *)
watch_any(p, about) ==
  /\ watchers' = [s \in Sessions |->
                    IF s \in about THEN watchers[s] \cup {p} ELSE watchers[s]]
  /\ driver' = [s \in Sessions |->
                  IF s \in about /\ driver[s] = None THEN p ELSE driver[s]]

(* Mutant of watch: the last phone to watch takes the driver's seat.       *)
watch_last_drives(p, about) ==
  LET entered == IF phones[p] = "Ready" THEN about ELSE {} IN
    /\ watchers' = [s \in Sessions |->
                      IF s \in entered THEN watchers[s] \cup {p}
                      ELSE watchers[s]]
    /\ driver' = [s \in Sessions |-> IF s \in entered THEN p ELSE driver[s]]

(* Only an initialized phone is entered; the first one drives the session. *)
watch(p, about) ==
  LET entered == IF phones[p] = "Ready" THEN about ELSE {} IN
    /\ watchers' = [s \in Sessions |->
                      IF s \in entered THEN watchers[s] \cup {p}
                      ELSE watchers[s]]
    /\ driver' = [s \in Sessions |->
                    IF s \in entered /\ driver[s] = None THEN p
                    ELSE driver[s]]

(* Any remaining watcher may inherit: the code takes the first of a        *)
(* HashSet's iteration.                                                    *)
unwatch(p, about) ==
  LET left(s) == watchers[s] \ {p}
      heirs(s) == IF s \notin about \/ watchers[s] = {} THEN {driver[s]}
                  ELSE IF left(s) = {} THEN {None}
                  ELSE IF driver[s] = p THEN left(s)
                  ELSE {driver[s]}
  IN  /\ watchers' = [s \in Sessions |->
                        IF s \in about THEN left(s) ELSE watchers[s]]
      /\ driver' \in {d \in [Sessions -> Phones \cup {None}] :
                        \A s \in Sessions : d[s] \in heirs(s)}

(* Mutant of take: the claim stays open.                                   *)
take_not(claim) == claim

(* Claim::take: an open claim is taken once.                               *)
take(claim) == IF claim = "Open" THEN "Taken" ELSE claim

(* Mutant of forget_asks: a gone phone's asks stay.                        *)
forget_no_asks(p) == UNCHANGED reverse

(* What a gone phone was asked is forgotten.                               *)
forget_asks(p) == reverse' = {e \in reverse : e.phone # p}

(* Mutant of note_version: an earlier refusal is never cleared.            *)
note_refusal(version) ==
  refused_version' = IF version = LEADER_PROTOCOL_VERSION
                     THEN refused_version ELSE {version}

(* A Registered sets refused_version, or clears it.                        *)
note_version(version) ==
  refused_version' = IF version = LEADER_PROTOCOL_VERSION THEN {} ELSE {version}

-----------------------------------------------------------------------------
(* The home side.                                                          *)

(* Mutant of on_accepted: a link already coming up is kept.                *)
on_accepted_keep ==
  /\ next_gen < MaxGen
  /\ next_gen' = next_gen + 1
  /\ IF cand = None THEN cand' = next_gen + 1 /\ stage' = "WaitRegistered"
                    ELSE UNCHANGED <<cand, stage>>
  /\ UNCHANGED <<mux, pending, phoneVars, tableVars, requestVars, reverseVars,
                 refused_version, stopped, heard>>

(* A new authenticated link.  It becomes the incoming one whatever the     *)
(* home was; a previous incoming link is dropped, an incumbent is not.     *)
on_accepted ==
  /\ next_gen < MaxGen
  /\ next_gen' = next_gen + 1
  /\ cand' = next_gen + 1
  /\ stage' = "WaitRegistered"
  /\ pending' = NoLoads
  /\ UNCHANGED <<mux, phoneVars, tableVars, requestVars, reverseVars,
                 refused_version, stopped, heard>>

(* Registered from the candidate.                                          *)
on_registered(g, ready, version) ==
  /\ g = cand
  /\ Hear(g, IF version # LEADER_PROTOCOL_VERSION THEN {}
             ELSE IF ready THEN {"Registered", "Ready"} ELSE {"Registered"})
  /\ note_version(version)
  /\ IF version # LEADER_PROTOCOL_VERSION
     THEN /\ fail_incoming
          /\ UNCHANGED requestVars
     ELSE /\ IF stage # "WaitRegistered"
             THEN UNCHANGED <<stage, requestVars>>
             ELSE IF ready
             THEN /\ send_follower_initialize(g)
                  /\ stage' = "WaitInitialize"
             ELSE /\ stage' = "WaitReady"
                  /\ UNCHANGED requestVars
          /\ UNCHANGED <<mux, cand, pending>>
  /\ UNCHANGED <<phoneVars, tableVars, reverseVars, next_gen, stopped>>

(* Mutant of on_leader_ready: taken before Registered too.                 *)
on_leader_ready_early(g) ==
  /\ g = cand
  /\ Hear(g, {"Ready"})
  /\ IF stage \in {"WaitRegistered", "WaitReady"}
     THEN /\ send_follower_initialize(g)
          /\ stage' = "WaitInitialize"
     ELSE UNCHANGED <<stage, requestVars>>
  /\ UNCHANGED <<mux, cand, pending, phoneVars, tableVars, reverseVars,
                 next_gen, refused_version, stopped>>

(* LeaderReady from the candidate counts only while it is waited for.      *)
on_leader_ready(g) ==
  /\ g = cand
  /\ Hear(g, {"Ready"})
  /\ IF stage = "WaitReady"
     THEN /\ send_follower_initialize(g)
          /\ stage' = "WaitInitialize"
     ELSE UNCHANGED <<stage, requestVars>>
  /\ UNCHANGED <<mux, cand, pending, phoneVars, tableVars, reverseVars,
                 next_gen, refused_version, stopped>>

(* The candidate's initialize, request i, was answered: every session      *)
(* watched now is loaded on it, each under an id of its own; with none it  *)
(* takes over.                                                             *)
after_follower_initialize(g, i) ==
  LET watched == {s \in Sessions : watchers[s] # {}}
      n == Cardinality(watched)
  IN  IF stage # "WaitInitialize"
      THEN /\ outstanding' = consumed(i)
           /\ UNCHANGED <<homeVars, lastNote, next_req, asked>>
      ELSE IF watched = {}
      THEN /\ finish_successor
           /\ outstanding' = consumed(i)
           /\ UNCHANGED <<next_req, asked>>
      ELSE /\ alloc_loads(n)
           /\ \E ids \in Bijection(watched, (next_req + 1)..(next_req + n)) :
                /\ pending' = [s \in Sessions |->
                                 IF s \in watched THEN ids[s] ELSE None]
                /\ asked' = asked \cup {Ask(g, ids[s], "session/load", {s},
                                            HubLoad) : s \in watched}
           /\ outstanding' = [j \in ReqIds |->
                                IF next_req < j /\ j <= next_req + n
                                THEN HubLoad ELSE consumed(i)[j]]
           /\ stage' = "WaitLoads"
           /\ UNCHANGED <<mux, cand, lastNote>>

(* Mutant of after_load_result: the first answered load is taken for all.  *)
after_first_load(i) ==
  IF stage # "WaitLoads" THEN UNCHANGED <<homeVars, lastNote>>
                         ELSE finish_successor

(* PendingLoads::loaded: one load answered, well or not; the last one      *)
(* finishes the successor.                                                 *)
after_load_result(i) ==
  LET left == [s \in Sessions |-> IF pending[s] = i THEN None ELSE pending[s]]
  IN  IF stage # "WaitLoads"
      THEN UNCHANGED <<homeVars, lastNote>>
      ELSE IF left = NoLoads
      THEN finish_successor
      ELSE /\ pending' = left
           /\ UNCHANGED <<mux, cand, stage, lastNote>>

(* Link g answers request i.  The wait is consumed before the link's role  *)
(* is looked at.                                                           *)
Answers(g, i, kind) ==
  /\ Known(g)
  /\ \E a \in asked : a.gen = g /\ a.id = i
  /\ outstanding[i].kind = kind

(* Mutant of on_forwarded_result: the incumbent of a replacement no longer *)
(* counts as the mux.                                                      *)
on_forwarded_result_sole(g, i, about) ==
  /\ Answers(g, i, "Forwarded")
  /\ outstanding' = consumed(i)
  /\ IF g # mux \/ cand # None
     THEN UNCHANGED <<tableVars, replies>>
     ELSE /\ watch(outstanding[i].phone, about)
          /\ replies' = [replies EXCEPT ![i] = @ + 1]
  /\ UNCHANGED <<homeVars, phoneVars, reverseVars, next_req, asked, next_gen,
                 refused_version, stopped, heard>>

(* Mutant of on_forwarded_result: only initialized phones are replied to.  *)
on_forwarded_result_ready(g, i, about) ==
  /\ Answers(g, i, "Forwarded")
  /\ phones[outstanding[i].phone] # "Connected"
  /\ outstanding' = consumed(i)
  /\ IF g # mux
     THEN UNCHANGED <<tableVars, replies>>
     ELSE /\ watch(outstanding[i].phone, about)
          /\ replies' = [replies EXCEPT ![i] = @ + 1]
  /\ UNCHANGED <<homeVars, phoneVars, reverseVars, next_req, asked, next_gen,
                 refused_version, stopped, heard>>

(* The result of a phone's request, from the mux, goes to its phone, which *)
(* then watches the session it names.                                      *)
on_forwarded_result(g, i, about) ==
  /\ Answers(g, i, "Forwarded")
  /\ outstanding' = consumed(i)
  /\ IF g # mux
     THEN UNCHANGED <<tableVars, replies>>
     ELSE /\ watch(outstanding[i].phone, about)
          /\ replies' = [replies EXCEPT ![i] = @ + 1]
  /\ UNCHANGED <<homeVars, phoneVars, reverseVars, next_req, asked, next_gen,
                 refused_version, stopped, heard>>

on_initialize_result(g, i, error) ==
  /\ Answers(g, i, "HubInitialize")
  /\ IF g # cand
     THEN /\ outstanding' = consumed(i)
          /\ UNCHANGED <<homeVars, lastNote, next_req, asked>>
     ELSE IF error
     THEN /\ fail_incoming
          /\ outstanding' = consumed(i)
          /\ UNCHANGED <<lastNote, next_req, asked>>
     ELSE after_follower_initialize(g, i)
  /\ UNCHANGED <<phones, next_phone, tableVars, reverseVars, replies,
                 next_gen, refused_version, stopped, heard>>

on_load_result(g, i) ==
  /\ Answers(g, i, "HubLoad")
  /\ outstanding' = consumed(i)
  /\ IF g # cand
     THEN UNCHANGED <<homeVars, lastNote>>
     ELSE after_load_result(i)
  /\ UNCHANGED <<phones, next_phone, tableVars, reverseVars, next_req, asked,
                 replies, next_gen, refused_version, stopped, heard>>

(* A reverse request about session s on the mux: an interaction goes to    *)
(* every watcher, anything else to the driver alone; without a target it   *)
(* is dropped.  All copies share one claim and get ids of their own.       *)
on_reverse_request(s, interaction) ==
  LET targets == IF interaction THEN watchers[s] ELSE {driver[s]} \ {None}
      n == Cardinality(targets)
      key == next_req + 1
  IN  /\ ~Away
      /\ targets # {}
      /\ alloc_reqs(1)
      /\ reverse_seq + n <= MaxReverse
      /\ reverse_seq' = reverse_seq + n
      /\ claims' = [claims EXCEPT ![key] = "Open"]
      /\ \E rids \in Bijection(targets, (reverse_seq + 1)..(reverse_seq + n)) :
           reverse' = reverse \cup {[phone |-> p, rid |-> rids[p],
                                     claim |-> key] : p \in targets}
      /\ UNCHANGED <<homeVars, phoneVars, tableVars, outstanding, asked,
                     replies, answers, next_gen, refused_version, stopped,
                     heard>>

(* The link ended: HomeEof of its task, or an Error frame, which the hub   *)
(* treats alike.  A candidate outlives its incumbent.                      *)
on_home_eof(g) ==
  /\ Known(g)
  /\ Hear(g, {"Ended"})
  /\ IF g = mux
     THEN /\ mux' = None
          /\ broadcast_away(TRUE)
          /\ UNCHANGED <<cand, stage, pending>>
     ELSE /\ fail_incoming
          /\ UNCHANGED lastNote
  /\ UNCHANGED <<phones, next_phone, tableVars, requestVars, reverseVars,
                 next_gen, refused_version, stopped>>

(* The 10 s (Registered) or 120 s (LeaderReady) deadline passes.  select!  *)
(* may take it or a message that is already queued.                        *)
on_deadline ==
  /\ has_deadline
  /\ fail_incoming
  /\ UNCHANGED <<phoneVars, tableVars, requestVars, reverseVars, next_gen,
                 refused_version, stopped, heard>>

HomeFrame(g) ==
  \/ \E ready \in BOOLEAN, version \in Versions :
       on_registered(g, ready, version)
  \/ on_leader_ready(g)
  \/ \E i \in ReqIds, about \in SessionIdIn : on_forwarded_result(g, i, about)
  \/ \E i \in ReqIds, error \in BOOLEAN : on_initialize_result(g, i, error)
  \/ \E i \in ReqIds : on_load_result(g, i)
  \/ /\ g = mux
     /\ \E s \in Sessions, interaction \in BOOLEAN :
          on_reverse_request(s, interaction)

-----------------------------------------------------------------------------
(* The phone side.                                                         *)

on_phone_hello ==
  /\ next_phone < MaxPhone
  /\ next_phone' = next_phone + 1
  /\ phones' = [phones EXCEPT ![next_phone + 1] = "Connected"]
  /\ UNCHANGED <<homeVars, tableVars, requestVars, reverseVars, next_gen,
                 refused_version, stopped, heard, lastNote>>

(* Answered here, home or not; while the host is away the phone is told.   *)
answer_initialize(p) ==
  /\ phones[p] # "None"
  /\ phones' = [phones EXCEPT ![p] = "Ready"]
  /\ lastNote' = [lastNote EXCEPT ![p] = IF Away THEN TRUE ELSE @]
  /\ UNCHANGED <<homeVars, tableVars, requestVars, reverseVars, next_phone,
                 next_gen, refused_version, stopped, heard>>

(* Without a mux the phone gets the away error, and nothing is recorded.   *)
forward_request(p, o, method, about) ==
  IF Away
  THEN UNCHANGED requestVars
  ELSE /\ Cardinality({a \in asked : a.wait.kind = "Forwarded"}) < MaxForward
       /\ send_request(mux, method, about, Forwarded(p, o))

(* session/load and session/resume: watched before, and even if not,       *)
(* forwarded.                                                              *)
on_load_request(p, o, about) ==
  /\ phones[p] = "Ready"
  /\ watch(p, about)
  /\ forward_request(p, o, "session/load", about)
  /\ UNCHANGED <<homeVars, phoneVars, reverseVars, next_gen, refused_version,
                 stopped, heard>>

(* session/close: no check that the phone has initialized.                 *)
on_close_request(p, o, about) ==
  /\ phones[p] # "None"
  /\ unwatch(p, about)
  /\ forward_request(p, o, "session/close", about)
  /\ UNCHANGED <<homeVars, phoneVars, reverseVars, next_gen, refused_version,
                 stopped, heard>>

(* Any other request; session methods need an initialized phone.           *)
on_other_request(p, o, method) ==
  /\ phones[p] = "Ready" \/ (phones[p] = "Connected" /\ method = "other")
  /\ forward_request(p, o, method, {})
  /\ UNCHANGED <<homeVars, phoneVars, tableVars, reverseVars, next_gen,
                 refused_version, stopped, heard>>

(* A phone answers ask e of the home.  The first answer takes the claim,   *)
(* and goes to the mux of the moment; with the host away it is lost.       *)
on_phone_reply(e) ==
  /\ e \in reverse
  /\ reverse' = reverse \ {e}
  /\ claims' = [claims EXCEPT ![e.claim] = take(@)]
  /\ answers' = [answers EXCEPT ![e.claim] =
                   IF claims[e.claim] = "Open" /\ ~Away THEN @ + 1 ELSE @]
  /\ UNCHANGED <<homeVars, phoneVars, tableVars, requestVars, reverse_seq,
                 next_gen, refused_version, stopped, heard>>

on_phone_eof(p) ==
  LET left(s) == watchers[s] \ {p}
      heirs(s) == IF driver[s] # p THEN {driver[s]}
                  ELSE IF left(s) = {} THEN {None}
                  ELSE left(s)
  IN  /\ phones[p] # "None"
      /\ phones' = [phones EXCEPT ![p] = "None"]
      /\ lastNote' = [lastNote EXCEPT ![p] = FALSE]
      /\ watchers' = [s \in Sessions |-> left(s)]
      /\ driver' \in {d \in [Sessions -> Phones \cup {None}] :
                        \A s \in Sessions : d[s] \in heirs(s)}
      /\ forget_asks(p)
      /\ UNCHANGED <<homeVars, next_phone, requestVars, claims, reverse_seq,
                     answers, next_gen, refused_version, stopped, heard>>

PhoneText(p) ==
  \/ answer_initialize(p)
  \/ \E o \in Origins, about \in SessionIdIn :
       on_load_request(p, o, about) \/ on_close_request(p, o, about)
  \/ \E o \in Origins, method \in {"session/prompt", "other"} :
       on_other_request(p, o, method)
  \/ \E e \in reverse : e.phone = p /\ on_phone_reply(e)

-----------------------------------------------------------------------------
(* Drops the home links and the phones' senders; run returns.              *)
shutdown ==
  /\ mux' = None /\ cand' = None /\ stage' = "None" /\ pending' = NoLoads
  /\ phones' = [p \in Phones |-> "None"]
  /\ lastNote' = [p \in Phones |-> FALSE]
  /\ stopped' = TRUE
  /\ UNCHANGED <<tableVars, requestVars, reverseVars, next_phone, next_gen,
                 refused_version, heard>>

Next ==
  /\ ~stopped
  /\ \/ on_accepted
     \/ \E g \in Gens : HomeFrame(g) \/ on_home_eof(g)
     \/ on_deadline
     \/ on_phone_hello
     \/ \E p \in Phones : PhoneText(p) \/ on_phone_eof(p)
     \/ shutdown

Spec == Init /\ [][Next]_vars

-----------------------------------------------------------------------------
(* Safety.                                                                 *)

(* Types of the hub's tables and of the histories; in particular a link    *)
(* never rests in Incoming::Ready.                                         *)
TypeOK ==
  /\ mux \in Gens \cup {None}
  /\ cand \in Gens \cup {None}
  /\ stage \in Stages
  /\ pending \in [Sessions -> ReqIds \cup {None}]
  /\ phones \in [Phones -> {"None", "Connected", "Ready"}]
  /\ watchers \in [Sessions -> SUBSET Phones]
  /\ driver \in [Sessions -> Phones \cup {None}]
  /\ outstanding \in [ReqIds -> Waits]
  /\ reverse \subseteq [phone : Phones, rid : Rids, claim : ReqIds]
  /\ claims \in [ReqIds -> {"None", "Open", "Taken"}]
  /\ next_phone \in 0..MaxPhone
  /\ next_req \in 0..MaxReq
  /\ next_gen \in 0..MaxGen
  /\ reverse_seq \in 0..MaxReverse
  /\ refused_version \in SUBSET Versions
  /\ stopped \in BOOLEAN
  /\ asked \subseteq Asks
  /\ heard \in [Gens -> SUBSET {"Registered", "Ready", "Ended"}]
  /\ replies \in [ReqIds -> Nat]
  /\ answers \in [ReqIds -> Nat]
  /\ lastNote \in [Phones -> BOOLEAN]

(* The watch and driver tables agree with each other and with the phones   *)
(* through attach, close, disconnect and late results: only initialized    *)
(* phones watch, and a session has a driver, one of its watchers, exactly  *)
(* while someone watches it.                                               *)
SessionTables ==
  ~stopped =>
    \A s \in Sessions :
      /\ \A p \in watchers[s] : phones[p] = "Ready"
      /\ IF watchers[s] = {} THEN driver[s] = None ELSE driver[s] \in watchers[s]

(* Whatever the order of attaches, home losses, hand-overs and returns,    *)
(* the last host_away note an initialized phone got (none counts as        *)
(* present) says whether the hub has a home to forward to.                 *)
AwayNoticeCurrent ==
  \A p \in Phones : phones[p] = "Ready" => (lastNote[p] <=> Away)

(* The generation serving phones is older than the one coming up, and the  *)
(* one coming up is the newest accepted: a newer link is never refused in  *)
(* favour of an older one.                                                 *)
NewestComesUp ==
  /\ cand # None => (cand = next_gen /\ mux < cand)
  /\ (cand = None) <=> (stage = "None")

(* Ids of forwarded requests, follower initializes and session loads come  *)
(* from one counter, across links and across PendingLoads' own copy of it: *)
(* no id is used for two requests, and what an id waits for is what was    *)
(* sent under it.  Otherwise one phone would see the other's result.       *)
RequestIdsUnique ==
  /\ \A a, b \in asked : a.id = b.id => a = b
  /\ \A i \in ReqIds :
       outstanding[i] # NoWait => \E a \in asked : a.id = i /\ a.wait = outstanding[i]

(* A forwarded request is answered to its phone at most once, even when    *)
(* the home repeats an answer or answers after a hand-over.                *)
OneReply == \A i \in ReqIds : replies[i] <= 1

(* However many phones are asked and however they race, one reverse        *)
(* request is answered to the home at most once.                           *)
OneAnswer == \A i \in ReqIds : answers[i] <= 1

(* What a phone may still answer: it is attached, the claim exists, and no *)
(* two phones were given the same aq id.                                   *)
ReverseBacked ==
  ~stopped =>
    \A e \in reverse :
      /\ phones[e.phone] = "Ready"
      /\ claims[e.claim] # "None"
      /\ \A f \in reverse : e.rid = f.rid => e = f

(* No ACP goes on a link whose leader has not registered with our version  *)
(* and said it is ready.                                                   *)
NoAcpBeforeReady ==
  \A a \in asked : {"Registered", "Ready"} \subseteq heard[a.gen]

(* A link serves phones only after its own initialize and every load sent  *)
(* on it were answered: none of them is still outstanding.                 *)
MuxHandshakeDone ==
  mux # None =>
    /\ \E a \in asked : a.gen = mux /\ a.wait = HubInitialize
    /\ \A a \in asked :
         a.gen = mux /\ a.wait \in {HubInitialize, HubLoad} =>
           outstanding[a.id] = NoWait

(* Once a candidate has registered, the refusal of an earlier one is       *)
(* forgotten, so away errors do not name a version that no longer applies. *)
RefusalForgotten ==
  stage \in {"WaitReady", "WaitInitialize", "WaitLoads"} => refused_version = {}

-----------------------------------------------------------------------------
(* What a step may never do.                                               *)

(* A session's driver changes only when the old one stops watching it.     *)
DriverStable ==
  [][\A s \in Sessions :
       driver[s] # None /\ driver'[s] # driver[s] => driver[s] \notin watchers'[s]]_vars

(* The serving link is given up only because it ended itself, because the  *)
(* hub stops, or to a candidate whose loads are all answered; a candidate  *)
(* that fails never costs the phones their home.                           *)
IncumbentStable ==
  [][mux # None /\ mux' # mux =>
       \/ stopped'
       \/ "Ended" \in heard'[mux]
       \/ /\ mux' = cand
          /\ \A a \in asked : a.gen = cand => outstanding'[a.id] = NoWait]_vars

-----------------------------------------------------------------------------
(* Liveness.                                                               *)

(* The leader (external) answers the hub's own initialize and loads, and   *)
(* the phones' requests, on a link that stays up.                          *)
HubAnswer(g) ==
  \E i \in ReqIds : \/ \E error \in BOOLEAN : on_initialize_result(g, i, error)
                    \/ on_load_result(g, i)

PhoneAnswer(g) ==
  \E i \in ReqIds, about \in SessionIdIn : on_forwarded_result(g, i, about)

(* Time passes: a deadline that stays armed fires.  The leader answers what*)
(* it is asked; nothing obliges it to register or to become ready.         *)
LiveSpec ==
  /\ Spec /\ WF_vars(on_deadline)
  /\ \A g \in Gens : WF_vars(HubAnswer(g)) /\ WF_vars(PhoneAnswer(g))

(* Every incoming link leaves the slot: it serves, it failed, or a newer   *)
(* one took its place.  One that never registers or never becomes ready    *)
(* meets a deadline; later no answer is lost to another request and no     *)
(* load is waited for that was not sent.                                   *)
CandidateSettles == \A g \in Gens : cand = g ~> cand # g

(* With a leader that answers, a phone is not left waiting: each of its    *)
(* requests, of which there are at most MaxForward, is answered unless the *)
(* link it went to no longer serves.                                       *)
RequestsSettle ==
  LET waiting(p) == \E a \in asked : /\ a.gen = mux
                                     /\ a.wait.kind = "Forwarded" /\ a.wait.phone = p
                                     /\ replies[a.id] = 0
  IN  \A p \in Phones : waiting(p) ~> ~waiting(p)

=============================================================================
