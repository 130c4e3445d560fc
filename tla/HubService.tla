----------------------------- MODULE HubService -----------------------------
(* The hub implements HomeService.                                         *)
EXTENDS Hub

(* The last host_away note of every initialized phone.                     *)
viewBar == [p \in {q \in Phones : phones[q] = "Ready"} |-> lastNote[p]]

(* A forwarded request waits while its link serves and its wait is kept.   *)
requestBar ==
  [i \in ReqIds |->
     LET forwarded == {a \in asked : a.id = i /\ a.wait.kind = "Forwarded"}
     IN  CASE forwarded = {} -> "None"
           [] forwarded # {} /\ replies[i] > 0 -> "Answered"
           [] forwarded # {} /\ replies[i] = 0 ->
                IF \E a \in forwarded : a.gen = mux /\ outstanding[i] = a.wait
                THEN "Waiting" ELSE "Lost"]

Service == INSTANCE HomeService
           WITH serving <- mux, coming <- cand,
                view <- viewBar, request <- requestBar

(* Every handler of the hub, seen from the phones, is one step of          *)
(* HomeService or none: in any interleaving of attaches, requests, late    *)
(* results, hand-overs, losses and deadlines.                              *)
ImplementsService == Service!Spec

=============================================================================
