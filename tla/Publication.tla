---------------------------- MODULE Publication ----------------------------
(***************************************************************************)
(* What Hop B promises its consumer, with no files, uploads or launches:   *)
(* a run appears whole, in one step, or not at all; once it has appeared   *)
(* no later delivery, retry or crash spoils it; and only a run fit to be   *)
(* delivered ever appears (ADR-013 4.2, 4.2a, 6).  Nothing is promised of  *)
(* a run from the moment its deliveries dispute it; no other run suffers.  *)
(***************************************************************************)
CONSTANTS Runs, FitRuns

VARIABLE visible    \* visible[r]: how a consumer would find run r

Views == {"invisible", "whole", "partial", "disputed"}

Init == visible = [r \in Runs |-> "invisible"]

Publish(r) ==
    /\ r \in FitRuns
    /\ visible[r] = "invisible"
    /\ visible' = [visible EXCEPT ![r] = "whole"]

Dispute(r) == visible' = [visible EXCEPT ![r] = "disputed"]

Next == \E r \in Runs : Publish(r) \/ Dispute(r)

Spec == Init /\ [][Next]_visible
=============================================================================
