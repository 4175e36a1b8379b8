----------------------------- MODULE MCWireSink -----------------------------
(***************************************************************************)
(* A small instance of WireSink: one target.  Run r1 is good and has one   *)
(* month; r2 has a header for a second month without rows, so it is        *)
(* refused when its first is staged; r3 is collapsed.  The rebuilt lookup  *)
(* gives one cell another geography.  Runs refused for their second target *)
(* or their sidecar are in MCDeliveryManager.                              *)
(***************************************************************************)
EXTENDS WireSink, TLC

CONSTANTS t1, r1, r2, r3, c1, c2

MCTargets == {t1}
MCMonths == {1, 2}
MCCells == {c1, c2}
MCTargetOrder == <<t1>>
MCGeographies == {"old", "new"}
MCLookup == [c \in MCCells |-> "old"]
MCRebuiltLookup == [MCLookup EXCEPT ![c1] = "new"]
MCOneLookup == {MCLookup}
MCBothLookups == {MCLookup, MCRebuiltLookup}
MCPieces == {"short"}

(* Launches differ in nothing but what they have done. *)
Interchangeable == Permutations(Launches)

Frames(r, headers, cells) ==
    [runs |-> {r}, declared |-> 2, width |-> 2, varied |-> TRUE,
     headers |-> headers, cells |-> cells]

MCShelf ==
    [t \in MCTargets |-> [r \in Runs |->
        CASE r = r1 -> Frames(r, <<1>>, [m \in MCMonths |-> MCCells])
          [] r = r2 -> Frames(r, <<1, 2>>, [m \in MCMonths |-> IF m = 1 THEN MCCells ELSE {}])
          [] r = r3 -> [Frames(r, <<1>>, [m \in MCMonths |-> MCCells]) EXCEPT !.varied = FALSE]]]
=============================================================================
