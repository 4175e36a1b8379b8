---------------------------- MODULE MCGaulLookup ----------------------------
(***************************************************************************)
(* A small instance of GaulLookup: a code and a name for two cells.  The   *)
(* producer's parquets are sound, with one value or another, or have one   *)
(* defect: a repeated cell, a missing code, the code -1, an empty or a     *)
(* missing name, a cell one parquet lacks.                                 *)
(***************************************************************************)
EXTENDS GaulLookup

CONSTANTS g1, g2, code, name, v1, v2

MCColumnOrder == <<code, name>>
MCCodeCols == {code}

Row(g, v) == [gid |-> g, value |-> v]
Parquets(codes, names) == (code :> codes) @@ (name :> names)

SoundRows(v) == <<Row(g1, v), Row(g2, v)>>
Sound == Parquets(SoundRows(v1), SoundRows(v1))
Later == Parquets(SoundRows(v2), SoundRows(v2))

MCSources ==
    {Sound, Later,
     Parquets(<<Row(g1, v1), Row(g1, v2), Row(g2, v1)>>, SoundRows(v1)),
     Parquets(<<Row(g1, Null), Row(g2, v1)>>, SoundRows(v1)),
     Parquets(<<Row(g1, v1), Row(g2, Sentinel)>>, SoundRows(v1)),
     Parquets(SoundRows(v1), <<Row(g1, Empty), Row(g2, v1)>>),
     Parquets(SoundRows(v1), <<Row(g1, v1), Row(g2, Null)>>),
     Parquets(<<Row(g1, v1)>>, SoundRows(v1))}

MCDefinitions == {{g1, g2}, {g1}}
MCRegions == {"all", "global_complete", "land_gaul"}
MCForecastCells == {g1}
MCHistoryCells == {g1, g2}
=============================================================================
