-------------------------- MODULE MCDeliveryManager --------------------------
(***************************************************************************)
(* Small instances of DeliveryManager: one forecast month, and one target  *)
(* where launches overlap.  The runs r1 and r2 forecast the same cells, so *)
(* their sidecars have the same bytes and their shards have not.  In the   *)
(* second target r3 has other cells, r4 is collapsed, and the headers of   *)
(* r5 name two runs; r6 has a cell the lookup does not know.  The          *)
(* historical frame is complete with a month above the boundary, or has a  *)
(* cell of incomplete metadata, an excluded cell, or a cell too many.      *)
(***************************************************************************)
EXTENDS DeliveryManager, TLC

CONSTANTS t1, t2, r1, r2, r3, r4, r5, r6, c1, c2, c3

MCTargets == {t1, t2}
MCMonths == {1, 2}
MCCells == {c1, c2, c3}
MCTargetOrder == <<t1, t2>>
MCOneTarget == <<t1>>

Good(r) ==
    [runs |-> {r}, declared |-> 2, width |-> 2, varied |-> TRUE,
     headers |-> <<1>>, cells |-> [m \in MCMonths |-> IF m = 1 THEN {c1} ELSE {}]]

MCShelf ==
    [t \in MCTargets |-> [r \in Runs |->
        CASE t = t2 /\ r = r3 -> [Good(r) EXCEPT !.cells[1] = {c2}]
          [] t = t2 /\ r = r4 -> [Good(r) EXCEPT !.varied = FALSE]
          [] t = t2 /\ r = r5 -> [Good(r) EXCEPT !.runs = {r1, r5}]
          [] r = r6           -> [Good(r) EXCEPT !.cells[1] = {c3}]
          [] OTHER            -> Good(r)]]

MCHistoryFrames == {{1, 2} \X {c1}, {1} \X {c2}, {1} \X {c3}, {1} \X {c1, c2}}
MCSoundHistory == {{1, 2} \X {c1}}
MCSoundOrExcluded == {{1, 2} \X {c1}, {1} \X {c3}}
MCBoundaries == {1}
MCGeographies == {"sound", "blank"}
MCLookup == [c \in {c1, c2} |-> IF c = c1 THEN "sound" ELSE "blank"]
MCLookups == {MCLookup}
MCBlanks == {"blank"}
MCPieces == {"short"}
MCExcluded == {c3}

(* Launches differ in nothing but what they have done. *)
Interchangeable == Permutations(Launches)
=============================================================================
