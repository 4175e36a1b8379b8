--------------------------- MODULE MCTrackASource ---------------------------
(***************************************************************************)
(* Inputs for TrackASource: up to two shards of up to two rows, over two   *)
(* months and two cells of which one is excluded, with at most one defect  *)
(* of the header or the archive in each shard.                             *)
(***************************************************************************)
EXTENDS TrackASource

CONSTANTS c1, c2

MCCells == {c1, c2}
MCExcluded == {c2}

Rows == {<<m, c>> : m \in {1, 2}, c \in MCCells}
RowLists == {<<a>> : a \in Rows} \cup {<<a, b>> : a \in Rows, b \in Rows}

Sound(rows, month) ==
    [readable |-> TRUE, ours |-> TRUE, declared |-> TRUE, draws |-> 2, month |-> month,
     rows |-> rows]

SoundShards == {Sound(rows, m) : rows \in RowLists, m \in {1, 2}}

FlawedShards ==
    LET s == Sound(<<<<1, c1>>>>, 1)
    IN  {[s EXCEPT !.readable = FALSE], [s EXCEPT !.ours = FALSE],
         [s EXCEPT !.declared = FALSE], [s EXCEPT !.draws = 3]}

AnyShard == SoundShards \cup FlawedShards

MCShardLists ==
    {<<>>} \cup {<<a>> : a \in AnyShard} \cup {<<a, b>> : a \in AnyShard, b \in AnyShard}

MCManifests ==
    [count : {0, 1, 2}, expected : {<<1>>, <<2>>, <<1, 2>>, <<2, 1>>, <<1, 1>>}]
=============================================================================
