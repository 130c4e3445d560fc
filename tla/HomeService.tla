---------------------------- MODULE HomeService ----------------------------
(***************************************************************************)
(* What topside promises its phones about the home, and nothing of how:    *)
(* one link serves, a newer one may be coming up behind it; every attached *)
(* phone knows whether anybody serves; and a request goes to the link that *)
(* serves, is answered at most once, and is lost exactly when that link    *)
(* stops serving.                                                          *)
(***************************************************************************)
EXTENDS Integers

CONSTANTS Gens, Phones, ReqIds

Nobody == 0

VARIABLES
  serving,   \* the link that serves, or Nobody
  coming,    \* the link coming up, or Nobody
  view,      \* attached phone -> TRUE when it believes the host is away
  request    \* request id -> "None", "Waiting", "Answered" or "Lost"

serviceVars == <<serving, coming, view, request>>

Init ==
  /\ serving = Nobody /\ coming = Nobody
  /\ view = [p \in {} |-> TRUE]
  /\ request = [i \in ReqIds |-> "None"]

(* What every phone of `attached' knows when g serves.                     *)
Told(attached, g) == [p \in attached |-> g = Nobody]

(* Nobody serves the waiting requests any more.                            *)
Lost == [i \in ReqIds |-> IF request[i] = "Waiting" THEN "Lost" ELSE request[i]]

(* A newer link comes; whichever was coming up before it is given up.      *)
Accept(g) ==
  /\ g > serving /\ g > coming
  /\ coming' = g
  /\ UNCHANGED <<serving, view, request>>

(* The link coming up fails, and costs the phones nothing.                 *)
Abandon ==
  /\ coming # Nobody
  /\ coming' = Nobody
  /\ UNCHANGED <<serving, view, request>>

(* The link coming up serves from now on.                                  *)
TakeOver ==
  /\ coming # Nobody
  /\ serving' = coming
  /\ coming' = Nobody
  /\ view' = Told(DOMAIN view, coming)
  /\ request' = Lost

(* The serving link ends; the one coming up, if any, is not affected.      *)
Lose ==
  /\ serving # Nobody
  /\ serving' = Nobody
  /\ view' = Told(DOMAIN view, Nobody)
  /\ request' = Lost
  /\ UNCHANGED coming

Attach(p) ==
  /\ p \notin DOMAIN view
  /\ view' = Told(DOMAIN view \cup {p}, serving)
  /\ UNCHANGED <<serving, coming, request>>

Leave(p) ==
  /\ p \in DOMAIN view
  /\ view' = Told(DOMAIN view \ {p}, serving)
  /\ UNCHANGED <<serving, coming, request>>

Ask(i) ==
  /\ serving # Nobody
  /\ request[i] = "None"
  /\ request' = [request EXCEPT ![i] = "Waiting"]
  /\ UNCHANGED <<serving, coming, view>>

Answer(i) ==
  /\ request[i] = "Waiting"
  /\ request' = [request EXCEPT ![i] = "Answered"]
  /\ UNCHANGED <<serving, coming, view>>

(* The server stops.                                                       *)
Stop ==
  /\ serving' = Nobody /\ coming' = Nobody
  /\ view' = Told({}, Nobody)
  /\ request' = Lost

Next ==
  \/ \E g \in Gens : Accept(g)
  \/ Abandon \/ TakeOver \/ Lose \/ Stop
  \/ \E p \in Phones : Attach(p) \/ Leave(p)
  \/ \E i \in ReqIds : Ask(i) \/ Answer(i)

Spec == Init /\ [][Next]_serviceVars

=============================================================================
