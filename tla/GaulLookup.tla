----------------------------- MODULE GaulLookup -----------------------------
(***************************************************************************)
(* The GAUL geography of a delivery, from the producer's parquets to the   *)
(* partner: scripts/build_gaul_lookup.py joins, filters, guards and stamps *)
(* the lookup; contract/gaul_lookup.py reads it; contract/wire/sidecar.py  *)
(* and contract/historical.py join it to the forecast and to the actuals.  *)
(*                                                                         *)
(* Three parties share files and no lock: the datafactory rewrites its     *)
(* parquets and the region definition and appends to its ingestion ledger, *)
(* a person runs the builder, a delivery reads what is there.  Coordinates *)
(* are a formula of the cell and are left out; the seven parquets are the  *)
(* columns in ColumnOrder, of which two, a code and a name, tell the roles *)
(* apart.  A digest is the content it digests.                             *)
(***************************************************************************)
EXTENDS Naturals, Sequences, FiniteSets, SequencesExt

CONSTANTS
    ColumnOrder,     \* the source columns in the order of SOURCE_RENAME
    CodeCols,        \* those that hold codes; the others hold names
    Sources,         \* what the parquets may hold: a sequence of rows for each column
    Definitions,     \* the sets of cells the bundled region may list
    Regions,         \* the values --region may have
    ForecastCells, HistoryCells,   \* the cells of the delivery's two legs
    Null, Sentinel, Empty,         \* a missing value, the code -1, the name ""
    MaxChanges,      \* bound: rewrites by the datafactory
    MaxBuilds,       \* bound: runs of the builder
    None

Columns  == ToSet(ColumnOrder)
NameCols == Columns \ CodeCols

Values == {Null, Sentinel, Empty} \cup
    UNION {{s[c][k].value : k \in DOMAIN s[c]} : s \in Sources, c \in Columns}
Gids   == UNION {{s[c][k].gid : k \in DOMAIN s[c]} : s \in Sources, c \in Columns}

(* One parquet: its rows, of a column of numbers or of a column of strings. *)
Parquet(c) == Seq([gid : Gids, value : Values \ {IF c \in CodeCols THEN Empty ELSE Sentinel}])

(* "all" and "global_complete" restrict nothing; any other is bundled. *)
Unrestricted == {"all", "global_complete"}
Bundled      == Regions \ Unrestricted

ASSUME LookupAssumption ==
    /\ ColumnOrder \in Seq(Columns) \ {<<>>} /\ CodeCols \subseteq Columns
    /\ \A s \in Sources : DOMAIN s = Columns /\ \A c \in Columns : s[c] \in Parquet(c)
    /\ "all" \in Regions
    /\ IsFiniteSet(Regions) /\ IsFiniteSet(ForecastCells) /\ IsFiniteSet(HistoryCells)
    /\ MaxChanges \in Nat /\ MaxBuilds \in Nat

VARIABLES
    source,      \* data/raw/gaul_admin/<column>.parquet
    definition,  \* <region>_pgids.json, of each bundled region
    ledger,      \* ingestion_ledger.jsonl
    changes,     \* rewrites so far
    build,       \* where the builder stands
    region,      \* its --region
    read,        \* the parquets it has read
    table,       \* its rows after the guards
    lookup,      \* the file data/gaul_lookup.parquet
    launch,      \* where the delivery stands
    loaded,      \* the table _save_contract read
    sidecar, history,   \* the geography joined to the forecast and to the actuals
    stamp,       \* lookup_version in the provenance description
    ingested,    \* history variable: every content the sources ever had
    undisturbed, \* history variable: has nothing changed since the build began?
    builds       \* history variable: every lookup ever completed

producer == <<source, definition, ledger, changes, ingested>>
builder  == <<build, region, read, table, lookup, undisturbed, builds>>
delivery == <<launch, loaded, sidecar, history, stamp>>
vars == <<producer, builder, delivery>>

-----------------------------------------------------------------------------
(* The datafactory.  Its ledger names two kinds of dataset: the area-      *)
(* majority join of all the parquets, and a region's definition.            *)

AreaMajority       == [kind |-> "join", name |-> "gaul_admin_area_majority"]
RegionDataset(r)   == [kind |-> "region", name |-> r]
Entry(dataset, digest) == [dataset |-> dataset, digest |-> digest]
JoinDigest(s)   == [source |-> s]
RegionDigest(d) == [cells |-> d]

Init ==
    /\ source \in Sources
    /\ definition \in [Bundled -> Definitions]
    /\ ledger \in {<<Entry(AreaMajority, JoinDigest(source))>>,
                   <<Entry(AreaMajority, JoinDigest(source))>> \o
                       SetToSeq({Entry(RegionDataset(r), RegionDigest(definition[r])) : r \in Bundled})}
    /\ changes = 0
    /\ build = "idle" /\ region = None /\ read = <<>> /\ table = {}
    /\ lookup = None
    /\ launch = "idle" /\ loaded = None /\ sidecar = None /\ history = None /\ stamp = None
    /\ ingested = {source}
    /\ undisturbed = FALSE
    /\ builds = {}

(* An entry may come without a usable content_digest. *)
Ingest ==
    /\ changes < MaxChanges
    /\ \E s \in Sources : \E digest \in {JoinDigest(s), None} :
          /\ source' = s
          /\ ledger' = Append(ledger, Entry(AreaMajority, digest))
          /\ ingested' = ingested \cup {s}
    /\ changes' = changes + 1
    /\ undisturbed' = FALSE
    /\ UNCHANGED <<definition, build, region, read, table, lookup, builds, delivery>>

Redefine ==
    /\ changes < MaxChanges
    /\ \E d \in Definitions, r \in Bundled :
          /\ definition' = [definition EXCEPT ![r] = d]
          /\ ledger' = Append(ledger, Entry(RegionDataset(r), RegionDigest(d)))
    /\ changes' = changes + 1
    /\ undisturbed' = FALSE
    /\ UNCHANGED <<source, ingested, build, region, read, table, lookup, builds, delivery>>

-----------------------------------------------------------------------------
(* build(): load the sources, restrict, filter, guard, stamp, write. *)

BuildStarts ==
    /\ build = "idle" /\ Cardinality(builds) < MaxBuilds
    /\ \E r \in Regions : region' = r
    /\ build' = "reading" /\ read' = <<>> /\ undisturbed' = TRUE
    /\ UNCHANGED <<producer, table, lookup, builds, delivery>>

(* _load_source reads one parquet after the other. *)
ReadSource ==
    /\ build = "reading" /\ Len(read) < Len(ColumnOrder)
    /\ read' = Append(read, source[ColumnOrder[Len(read) + 1]])
    /\ UNCHANGED <<producer, build, region, table, lookup, undisturbed, builds, delivery>>

(* The inner join on gid: one row for each way of picking a row of the cell *)
(* from every parquet, so a repeated gid multiplies.                        *)
Picks(files) ==
    {pick \in [DOMAIN files -> UNION {DOMAIN files[k] : k \in DOMAIN files}] :
        /\ \A k \in DOMAIN files : pick[k] \in DOMAIN files[k]
        /\ \A j, k \in DOMAIN files : files[j][pick[j]].gid = files[k][pick[k]].gid}

Joined(files) ==
    {[pick |-> pick, gid |-> files[1][pick[1]].gid,
      value |-> [c \in Columns |->
                    LET k == CHOOSE j \in DOMAIN ColumnOrder : ColumnOrder[j] = c
                    IN  files[k][pick[k]].value]] : pick \in Picks(files)}

(* _region_gids *)
InRegion(gid) == region \in Unrestricted \/ gid \in definition[region]

CompleteButForNames(row) ==    \* mutant: an empty name counts as a name
    /\ \A c \in CodeCols : row.value[c] \notin {Null, Sentinel}
    /\ \A c \in NameCols : row.value[c] # Null

Complete(row) ==
    /\ \A c \in CodeCols : row.value[c] \notin {Null, Sentinel}
    /\ \A c \in NameCols : row.value[c] \notin {Null, Empty}

(* The hard invariants: unique keys, no null, no sentinel, not empty. *)
Clean(rows) ==
    /\ \A a, b \in rows : a.gid = b.gid => a = b
    /\ \A row \in rows : /\ \A c \in Columns : row.value[c] # Null
                         /\ \A c \in CodeCols : row.value[c] # Sentinel
    /\ rows # {}

(* The builder's locals end with it, however it ends. *)
BuildEnds ==
    /\ build' = "idle" /\ region' = None /\ read' = <<>> /\ table' = {}
    /\ undisturbed' = FALSE

(* LookupBuildError: the build ends and the file is not touched. *)
MakeTable ==
    LET rows == {row \in Joined(read) : InRegion(row.gid) /\ Complete(row)}
    IN  /\ build = "reading" /\ Len(read) = Len(ColumnOrder)
        /\ IF Clean(rows)
           THEN /\ build' = "stamping" /\ read' = <<>>
                /\ table' = {[gid |-> row.gid, value |-> row.value] : row \in rows}
                /\ UNCHANGED <<region, undisturbed>>
           ELSE BuildEnds
        /\ UNCHANGED <<producer, lookup, builds, delivery>>

StampFirst(dataset) ==         \* mutant: the first entry of the dataset wins
    LET found == {i \in DOMAIN ledger : ledger[i].dataset = dataset}
    IN  IF found = {} THEN None ELSE ledger[Min(found)].digest

(* _provenance: the last entry of the dataset wins, with a digest or not. *)
Provenance(dataset) ==
    LET found == {i \in DOMAIN ledger : ledger[i].dataset = dataset}
    IN  IF found = {} THEN None ELSE ledger[Max(found)].digest

StampDatasetPresent(r) ==      \* mutant: whichever entry happens to be there, a region's first
    LET regional == {ledger[i].dataset : i \in DOMAIN ledger} \ {AreaMajority}
    IN  IF regional # {} THEN CHOOSE d \in regional : TRUE ELSE AreaMajority

(* stamp_dataset: the join stamps "all", its own definition any other.     *)
StampDataset(r) == IF r = "all" THEN AreaMajority ELSE RegionDataset(r)

Version == [region |-> region, digest |-> Provenance(StampDataset(region))]

StampUnknown ==                \* mutant: a build without a digest is stamped all the same
    /\ build = "stamping" /\ build' = "writing"
    /\ lookup' = [rows |-> {}, version |-> Version]
    /\ UNCHANGED <<producer, region, read, table, undisturbed, builds, delivery>>

(* _lookup_version refuses a build without a digest; then write_table opens *)
(* the file, which until it is closed cannot be read.                       *)
StampAndOpen ==
    /\ build = "stamping"
    /\ IF Version.digest = None
       THEN BuildEnds /\ UNCHANGED lookup
       ELSE /\ build' = "writing"
            /\ lookup' = [rows |-> {}, version |-> Version]
            /\ UNCHANGED <<region, read, table, undisturbed>>
    /\ UNCHANGED <<producer, builds, delivery>>

CloseFile ==
    /\ build = "writing"
    /\ lookup' = [lookup EXCEPT !.rows = table]
    /\ builds' = builds \cup {[rows |-> table, version |-> lookup.version,
                               undisturbed |-> undisturbed]}
    /\ BuildEnds
    /\ UNCHANGED <<producer, delivery>>

BuilderDies ==
    /\ build # "idle"
    /\ BuildEnds
    /\ UNCHANGED <<producer, lookup, builds, delivery>>

-----------------------------------------------------------------------------
(* The delivery (_save_contract). *)

GidsOf(rows) == {row.gid : row \in rows}

Readable == lookup # None /\ lookup.rows # {}

Stop ==
    launch' = "refused" /\ UNCHANGED <<loaded, sidecar, history, stamp>>

(* gaul_lookup.load: the one read of the table. *)
Load ==
    /\ launch = "idle"
    /\ IF Readable
       THEN launch' = "loaded" /\ loaded' = lookup.rows /\ UNCHANGED <<sidecar, history, stamp>>
       ELSE Stop
    /\ UNCHANGED <<producer, builder>>

(* build_sidecar: the rows of exactly the forecast's cells. *)
BuildSidecar ==
    /\ launch = "loaded"
    /\ IF ForecastCells \subseteq GidsOf(loaded)
       THEN /\ sidecar' = {row \in loaded : row.gid \in ForecastCells}
            /\ launch' = "forecast"
            /\ UNCHANGED <<loaded, history, stamp>>
       ELSE Stop
    /\ UNCHANGED <<producer, builder>>

(* build_historical_table gathers one row for each cell; of a repeated key  *)
(* the sort decides which.                                                  *)
HistoryTableReread == IF Readable THEN lookup.rows ELSE loaded  \* mutant: a second read

HistoryTable == loaded

(* assert_metadata_complete sees no missing code: it has become NaN. *)
NullGate(rows) == \A row \in rows, c \in NameCols : row.value[c] # Null

BuildHistory ==
    /\ launch = "forecast"
    /\ IF HistoryCells \subseteq GidsOf(HistoryTable)
       THEN \E gather \in [HistoryCells -> HistoryTable] :
               /\ \A g \in HistoryCells : gather[g].gid = g
               /\ IF NullGate(Range(gather))
                  THEN /\ history' = Range(gather)
                       /\ launch' = "history"
                       /\ UNCHANGED <<loaded, sidecar, stamp>>
                  ELSE Stop
       ELSE Stop
    /\ UNCHANGED <<producer, builder>>

(* gaul_lookup.version opens the file again for the description. *)
Describe ==
    /\ launch = "history"
    /\ IF Readable
       THEN stamp' = lookup.version /\ launch' = "shipped" /\ UNCHANGED <<loaded, sidecar, history>>
       ELSE Stop
    /\ UNCHANGED <<producer, builder>>

-----------------------------------------------------------------------------
DataFactory == Ingest \/ Redefine
Builder  == BuildStarts \/ ReadSource \/ MakeTable \/ StampAndOpen \/ CloseFile \/ BuilderDies
Delivery == Load \/ BuildSidecar \/ BuildHistory \/ Describe

Next == DataFactory \/ Builder \/ Delivery

Spec == Init /\ [][Next]_vars

-----------------------------------------------------------------------------
(* Types. *)

Rows   == [gid : Gids, value : [Columns -> Values]]

TypeOK ==
    /\ source \in Sources /\ definition \in [Bundled -> Definitions] /\ ingested \subseteq Sources
    /\ changes \in 0..MaxChanges
    /\ build \in {"idle", "reading", "stamping", "writing"}
    /\ region \in Regions \cup {None}
    /\ Len(read) <= Len(ColumnOrder)
    /\ table \subseteq Rows
    /\ lookup # None => lookup.rows \subseteq Rows /\ lookup.version.digest # None
    /\ launch \in {"idle", "loaded", "forecast", "history", "shipped", "refused"}
    /\ \A rows \in {loaded, sidecar, history} : rows # None => rows \subseteq Rows
    /\ stamp # None => stamp \in {b.version : b \in builds}

-----------------------------------------------------------------------------
(* Safety. *)

(* Geography is the producer's (C-35, C-59): whatever the sources hold,     *)
(* repeated, missing or half-filled cells, each leg of a delivery has       *)
(* exactly one row for each of its cells, and every value of it is one the  *)
(* producer published for that very cell and column, and a real one; never  *)
(* a null, a NaN, the code -1 or an empty name, which the gates of the      *)
(* delivery would let through.                                              *)
FromTheProducer(row) ==
    \A c \in Columns :
        /\ row.value[c] \notin {Null, Sentinel, Empty}
        /\ \E s \in ingested : [gid |-> row.gid, value |-> row.value[c]] \in ToSet(s[c])

GeographyIsTheProducers ==
    /\ \A row \in UNION ({sidecar, history} \ {None}) : FromTheProducer(row)
    /\ sidecar # None => /\ GidsOf(sidecar) = ForecastCells
                         /\ Cardinality(sidecar) = Cardinality(ForecastCells)
    /\ history # None => /\ GidsOf(history) = HistoryCells
                         /\ Cardinality(history) = Cardinality(HistoryCells)

(* One read for both legs (C-66): a cell in the forecast and in the actuals *)
(* of a delivery has one geography, although the file may be rebuilt        *)
(* between the two joins.                                                   *)
OneGeographyPerDelivery ==
    sidecar # None /\ history # None =>
        \A a \in sidecar, b \in history : a.gid = b.gid => a = b

(* The stamp is of what was built (C-60): a lookup built while the          *)
(* datafactory stood still holds, when it is a region's, only cells of the  *)
(* definition its stamp digests, and when it is global, only values of the  *)
(* join its stamp digests; never the digest of another dataset or of an     *)
(* earlier ingestion of the append-only ledger.                             *)
StampNamesWhatWasBuilt ==
    \A b \in builds : b.undisturbed =>
        IF b.version.region = "all"
        THEN \E s \in ingested : /\ b.version.digest = JoinDigest(s)
                                 /\ \A row \in b.rows, c \in Columns :
                                       [gid |-> row.gid, value |-> row.value[c]] \in ToSet(s[c])
        ELSE \E d \in Definitions : /\ b.version.digest = RegionDigest(d)
                                    /\ GidsOf(b.rows) \subseteq d

-----------------------------------------------------------------------------
(* What docs/operations/correction_procedure.md says of lookup_version: it  *)
(* tells which build produced the geography, being "the digest of the       *)
(* views-datafactory ingestion the lookup was built from", "a stamp you can *)
(* trust".  Two lookups of one stamp, each built while the datafactory      *)
(* stood still, are the same.                                               *)
OneStampOneLookup ==
    \A a, b \in builds :
        a.undisturbed /\ b.undisturbed /\ a.version = b.version => a.rows = b.rows
=============================================================================
