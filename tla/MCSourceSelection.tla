-------------------------- MODULE MCSourceSelection --------------------------
(***************************************************************************)
(* Small instances of SourceSelection: two targets of one or two months.   *)
(* Run r1 is published, and one target of it again with other draws; part  *)
(* of run r2 is filed under r1's names; run r3 is of another ensemble.     *)
(***************************************************************************)
EXTENDS SourceSelection

CONSTANTS r1, r2, r3, t1, t2, e1, e2

OneMonth == <<1>>
TwoMonths == <<1, 2>>
MCTargetOrder == <<t1, t2>>

Publication(run, named, ensemble, draws, targets) ==
    [run |-> run, named |-> named, ensemble |-> ensemble, draws |-> draws, targets |-> targets]

First     == Publication(r1, r1, e1, 1, <<t1, t2>>)
Again(t)  == Publication(r1, r1, e1, 2, <<t>>)
Newer     == Publication(r2, r2, e1, 1, <<t1, t2>>)
Misfiled  == Publication(r2, r1, e1, 1, <<t2>>)
Other     == Publication(r3, r3, e2, 1, <<t1, t2>>)
OtherPart == Publication(r3, r3, e2, 1, <<t1>>)

(* A run with one target published again; a run with another's documents    *)
(* under its names; a run next to part of another ensemble's; and that      *)
(* ensemble's alone.                                                        *)
Contended ==
    {{First, Again(t1)}, {First, Again(t2)}, {First, Misfiled}, {First, OtherPart}, {Other}}

(* Two runs of one ensemble and part of another's. *)
NewerRuns == {{First, Newer, OtherPart}}
=============================================================================
