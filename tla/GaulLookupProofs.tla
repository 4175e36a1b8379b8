-------------------------- MODULE GaulLookupProofs --------------------------
(***************************************************************************)
(* Where geography comes from, for every history of the three parties.     *)
(*                                                                         *)
(* The builder reads the parquets one by one while the datafactory may     *)
(* rewrite them, so what it joins is a mixture of ingestions: each value   *)
(* is of one of them (ReadInv), each row of the table is one that passed   *)
(* the guards (SoundRows), and only such tables are ever in the file in a  *)
(* form that can be read (LookupInv).  A delivery takes one of them        *)
(* (DeliveryInv).  What the stamp says needs more: while nothing changes,  *)
(* the mixture is one ingestion (ReadInv, TableInv), and the last entry of *)
(* each dataset in the ledger digests what is there (LedgerInv).           *)
(***************************************************************************)
EXTENDS GaulLookup, FiniteSetTheorems, TLAPS

(* Rows fit to be delivered: one for a cell, all of the producer's values. *)
SoundRows(rows) ==
    /\ rows \subseteq Rows
    /\ \A a, b \in rows : a.gid = b.gid => a = b
    /\ \A row \in rows : FromTheProducer(row)

(* Rows that the sources and the definitions account for as they stand.    *)
Current(rows) ==
    /\ \A row \in rows, c \in Columns : [gid |-> row.gid, value |-> row.value[c]] \in ToSet(source[c])
    /\ region \in Bundled => GidsOf(rows) \subseteq definition[region]

(* A stamp that digests what the sources and the definitions hold.         *)
StampIsCurrent(version) ==
    /\ version.region = region
    /\ IF region = "all"
       THEN version.digest = JoinDigest(source)
       ELSE region \in Bundled /\ version.digest = RegionDigest(definition[region])

Datasets == {AreaMajority} \cup {RegionDataset(r) : r \in Regions}

(* The digest that an entry of a dataset may carry when it is the last.    *)
Digests(dataset) ==
    IF dataset = AreaMajority THEN {JoinDigest(source), None}
    ELSE {RegionDigest(definition[r]) : r \in {x \in Bundled : RegionDataset(x) = dataset}}

Of(dataset) == {i \in DOMAIN ledger : ledger[i].dataset = dataset}

Settled(dataset) ==
    Of(dataset) # {} =>
        \E last \in Of(dataset) :
            /\ \A i \in Of(dataset) : i <= last
            /\ ledger[last].digest \in Digests(dataset)

ProducerInv ==
    /\ source \in Sources /\ definition \in [Bundled -> Definitions]
    /\ ingested \subseteq Sources /\ source \in ingested
    /\ changes \in 0..MaxChanges
    /\ ledger \in Seq([dataset : Datasets, digest : {None} \cup {JoinDigest(s) : s \in Sources}
                                                     \cup {RegionDigest(d) : d \in Definitions}])
    /\ \A dataset \in Datasets : Settled(dataset)

ReadInv ==
    /\ read \in Seq(UNION {{s[c] : c \in Columns} : s \in Sources})
    /\ Len(read) <= Len(ColumnOrder)
    /\ \A k \in 1..Len(read) : \E s \in ingested : read[k] = s[ColumnOrder[k]]
    /\ undisturbed => \A k \in 1..Len(read) : read[k] = source[ColumnOrder[k]]

BuilderInv ==
    /\ build \in {"idle", "reading", "stamping", "writing"}
    /\ undisturbed \in BOOLEAN
    /\ IF build = "idle" THEN region = None ELSE region \in Regions
    /\ ReadInv
    /\ SoundRows(table)
    /\ build \in {"idle", "reading"} => table = {}
    /\ undisturbed => Current(table)
    /\ build = "writing" =>
          /\ lookup = [rows |-> {}, version |-> lookup.version]
          /\ lookup.version.digest # None
          /\ undisturbed => StampIsCurrent(lookup.version)

LookupInv ==
    /\ lookup # None => SoundRows(lookup.rows) /\ lookup.version.digest # None
    /\ Readable => \E b \in builds : b.rows = lookup.rows /\ b.version = lookup.version

Leg(rows, cells) ==
    rows # None => SoundRows(loaded) /\ rows \subseteq loaded /\ GidsOf(rows) = cells

DeliveryInv ==
    /\ launch \in {"idle", "loaded", "forecast", "history", "shipped", "refused"}
    /\ launch = "idle" => loaded = None /\ sidecar = None /\ history = None
    /\ launch \in {"loaded", "forecast"} => SoundRows(loaded)
    /\ loaded = None \/ SoundRows(loaded)
    /\ Leg(sidecar, ForecastCells) /\ Leg(history, HistoryCells)
    /\ stamp # None => stamp \in {b.version : b \in builds}

GeographyInv ==
    ProducerInv /\ BuilderInv /\ LookupInv /\ StampNamesWhatWasBuilt /\ DeliveryInv

-----------------------------------------------------------------------------
(* The sources. *)

LEMMA OrderedColumns ==
    /\ Len(ColumnOrder) \in Nat /\ DOMAIN ColumnOrder = 1..Len(ColumnOrder)
    /\ \A k \in 1..Len(ColumnOrder) : ColumnOrder[k] \in Columns
    /\ \A c \in Columns : \E k \in 1..Len(ColumnOrder) : ColumnOrder[k] = c
    /\ Columns # {}
<1>1. ColumnOrder \in Seq(Columns) \ {<<>>}
    BY LookupAssumption
<1> QED
    BY <1>1 DEF Columns, ToSet

LEMMA ParquetRows ==
    ASSUME NEW s \in Sources, NEW c \in Columns, NEW i \in DOMAIN s[c]
    PROVE  /\ s[c][i] = [gid |-> s[c][i].gid, value |-> s[c][i].value]
           /\ s[c][i] \in ToSet(s[c])
           /\ s[c][i].gid \in Gids /\ s[c][i].value \in Values
           /\ s[c][i].value # (IF c \in CodeCols THEN Empty ELSE Sentinel)
<1>1. PICK barred : barred = IF c \in CodeCols THEN Empty ELSE Sentinel
    OBVIOUS
<1>2. PICK rows, sheet : rows = [gid : Gids, value : Values \ {barred}] /\ sheet = s[c]
    OBVIOUS
<1>3. sheet \in Seq(rows)
    BY <1>1, <1>2, LookupAssumption DEF Parquet
<1>4. sheet[i] \in rows
    <2>1. i \in DOMAIN sheet
        BY <1>2
    <2> HIDE <1>1, <1>2
    <2>2. DOMAIN sheet = 1..Len(sheet)
        BY <1>3
    <2> QED
        BY <1>3, <2>1, <2>2
<1>5. s[c][i] \in [gid : Gids, value : Values \ {barred}]
    BY <1>2, <1>4
<1>6. s[c][i] \in ToSet(s[c])
    BY DEF ToSet
<1> QED
    BY <1>1, <1>5, <1>6

(* The position of a column, as Joined looks it up. *)
At(c) == CHOOSE j \in DOMAIN ColumnOrder : ColumnOrder[j] = c

LEMMA ColumnAt ==
    ASSUME NEW c \in Columns
    PROVE  At(c) \in 1..Len(ColumnOrder) /\ ColumnOrder[At(c)] = c
BY OrderedColumns DEF At

(* A row of the join takes from each parquet the value it has for its cell. *)
LEMMA JoinedRows ==
    ASSUME ProducerInv, ReadInv, Len(read) = Len(ColumnOrder), NEW row \in Joined(read)
    PROVE  /\ \A c \in Columns :
                /\ row.gid \in Gids /\ row.value[c] \in Values
                /\ row.value[c] # (IF c \in CodeCols THEN Empty ELSE Sentinel)
                /\ \E s \in ingested : [gid |-> row.gid, value |-> row.value[c]] \in ToSet(s[c])
                /\ undisturbed =>
                      [gid |-> row.gid, value |-> row.value[c]] \in ToSet(source[c])
           /\ row.value = [c \in Columns |-> row.value[c]]
<1>1. PICK pick \in Picks(read) :
          row = [pick |-> pick, gid |-> read[1][pick[1]].gid,
                 value |-> [c \in Columns |-> read[At(c)][pick[At(c)]].value]]
    BY DEF Joined, At
<1>2. /\ row.gid = read[1][pick[1]].gid
      /\ row.value = [c \in Columns |-> read[At(c)][pick[At(c)]].value]
    BY <1>1
<1>3. DOMAIN read = 1..Len(ColumnOrder) /\ Len(ColumnOrder) \in Nat
    BY OrderedColumns DEF ReadInv
<1>4. ASSUME NEW c \in Columns
      PROVE  /\ row.gid \in Gids /\ row.value[c] \in Values
             /\ row.value[c] # (IF c \in CodeCols THEN Empty ELSE Sentinel)
             /\ \E s \in ingested : [gid |-> row.gid, value |-> row.value[c]] \in ToSet(s[c])
             /\ undisturbed => [gid |-> row.gid, value |-> row.value[c]] \in ToSet(source[c])
    <2>1. PICK k : k = At(c)
        OBVIOUS
    <2>2. k \in 1..Len(ColumnOrder) /\ ColumnOrder[k] = c /\ 1 \in 1..Len(ColumnOrder)
        BY <1>3, <2>1, ColumnAt
    <2>3. pick[k] \in DOMAIN read[k] /\ read[1][pick[1]].gid = read[k][pick[k]].gid
        BY <1>3, <2>2 DEF Picks
    <2>4. row.gid = read[k][pick[k]].gid /\ row.value[c] = read[k][pick[k]].value
        BY <1>2, <2>1, <2>3
    <2>5. PICK s \in ingested : read[k] = s[c]
        BY <1>3, <2>2 DEF ReadInv
    <2>6. s \in Sources
        BY DEF ProducerInv
    <2>7. s[c][pick[k]] = [gid |-> row.gid, value |-> row.value[c]]
        BY <2>3, <2>4, <2>5, <2>6, ParquetRows
    <2>8. undisturbed => read[k] = source[c]
        BY <1>3, <2>2 DEF ReadInv
    <2> QED
        BY <2>3, <2>4, <2>5, <2>6, <2>7, <2>8, ParquetRows
<1> QED
    BY <1>2, <1>4

-----------------------------------------------------------------------------
(* What does not change. *)

LEMMA ProducerStands ==
    ASSUME ProducerInv, UNCHANGED producer
    PROVE  ProducerInv'
<1>1. UNCHANGED <<source, definition, ledger, changes, ingested>>
    BY DEF producer
<1>2. \A dataset : Of(dataset)' = Of(dataset) /\ Digests(dataset)' = Digests(dataset)
    BY <1>1 DEF Of, Digests
<1>3. \A dataset \in Datasets : Settled(dataset)'
    BY <1>1, <1>2 DEF ProducerInv, Settled
<1> QED
    BY <1>1, <1>3 DEF ProducerInv

LEMMA DeliveryStands ==
    ASSUME DeliveryInv, UNCHANGED delivery, ingested \subseteq ingested', builds \subseteq builds'
    PROVE  DeliveryInv'
<1>1. UNCHANGED <<launch, loaded, sidecar, history, stamp>>
    BY DEF delivery
<1>2. SoundRows(loaded) => SoundRows(loaded)'
    BY <1>1 DEF SoundRows, FromTheProducer
<1>3. stamp # None => stamp \in {b.version : b \in builds'}
    BY DEF DeliveryInv
<1> QED
    BY <1>1, <1>2, <1>3 DEF DeliveryInv, Leg

LEMMA BuilderStands ==
    ASSUME BuilderInv, LookupInv, StampNamesWhatWasBuilt, UNCHANGED producer, UNCHANGED builder
    PROVE  BuilderInv' /\ LookupInv' /\ StampNamesWhatWasBuilt'
<1> USE DEF producer, builder
<1>1. BuilderInv'
    BY DEF BuilderInv, ReadInv, SoundRows, FromTheProducer, Current, StampIsCurrent
<1>2. LookupInv'
    BY DEF LookupInv, SoundRows, FromTheProducer, Readable
<1>3. StampNamesWhatWasBuilt'
    BY DEF StampNamesWhatWasBuilt
<1> QED
    BY <1>1, <1>2, <1>3

-----------------------------------------------------------------------------
(* The datafactory. *)

LEMMA LedgerGrows ==
    ASSUME ProducerInv, NEW e, e.dataset \in Datasets, ledger' = Append(ledger, e),
           e.digest \in Digests(e.dataset)',
           \A dataset \in Datasets : dataset # e.dataset => Digests(dataset)' = Digests(dataset)
    PROVE  \A dataset \in Datasets : Settled(dataset)'
<1>1. /\ Len(ledger) \in Nat /\ DOMAIN ledger = 1..Len(ledger)
      /\ DOMAIN ledger' = 1..(Len(ledger) + 1)
      /\ ledger'[Len(ledger) + 1] = e
      /\ \A i \in 1..Len(ledger) : ledger'[i] = ledger[i]
    BY DEF ProducerInv
<1> SUFFICES ASSUME NEW dataset \in Datasets, Of(dataset)' # {}
             PROVE  \E last \in Of(dataset)' :
                        /\ \A i \in Of(dataset)' : i <= last
                        /\ ledger'[last].digest \in Digests(dataset)'
    BY DEF Settled
<1>2. CASE dataset = e.dataset
    <2>1. Len(ledger) + 1 \in Of(dataset)'
        BY <1>1, <1>2 DEF Of
    <2>2. \A i \in Of(dataset)' : i <= Len(ledger) + 1
        BY <1>1 DEF Of
    <2> QED
        BY <1>1, <1>2, <2>1, <2>2
<1>3. CASE dataset # e.dataset
    <2>1. Of(dataset)' = Of(dataset)
        BY <1>1, <1>3 DEF Of
    <2>2. PICK last \in Of(dataset) : /\ \A i \in Of(dataset) : i <= last
                                     /\ ledger[last].digest \in Digests(dataset)
        BY <2>1 DEF ProducerInv, Settled
    <2>3. ledger'[last] = ledger[last]
        BY <1>1 DEF Of
    <2> QED
        BY <1>3, <2>1, <2>2, <2>3
<1> QED
    BY <1>2, <1>3

LEMMA DistinctDatasets ==
    /\ \A r : RegionDataset(r) # AreaMajority
    /\ \A q, r : RegionDataset(q) = RegionDataset(r) => q = r
    /\ \A dataset, digest : /\ Entry(dataset, digest).dataset = dataset
                            /\ Entry(dataset, digest).digest = digest
<1>1. ASSUME NEW r PROVE RegionDataset(r) # AreaMajority
    <2>1. RegionDataset(r).kind = "region" /\ AreaMajority.kind = "join"
        BY DEF RegionDataset, AreaMajority
    <2> QED
        BY <2>1
<1>2. ASSUME NEW q, NEW r, RegionDataset(q) = RegionDataset(r) PROVE q = r
    <2>1. RegionDataset(q).name = q /\ RegionDataset(r).name = r
        BY DEF RegionDataset
    <2> QED
        BY <1>2, <2>1
<1>3. ASSUME NEW dataset, NEW digest
      PROVE  Entry(dataset, digest).dataset = dataset /\ Entry(dataset, digest).digest = digest
    BY DEF Entry
<1> QED
    BY <1>1, <1>2, <1>3

LEMMA Disturbed ==
    ASSUME BuilderInv, LookupInv, StampNamesWhatWasBuilt, DeliveryInv,
           UNCHANGED <<build, region, read, table, lookup, builds, delivery>>,
           undisturbed' = FALSE, ingested \subseteq ingested'
    PROVE  BuilderInv' /\ LookupInv' /\ StampNamesWhatWasBuilt' /\ DeliveryInv'
<1>1. BuilderInv'
    BY DEF BuilderInv, ReadInv, SoundRows, FromTheProducer
<1>2. LookupInv'
    BY DEF LookupInv, SoundRows, FromTheProducer, Readable
<1>3. StampNamesWhatWasBuilt'
    BY DEF StampNamesWhatWasBuilt
<1>4. DeliveryInv'
    BY DeliveryStands
<1> QED
    BY <1>1, <1>2, <1>3, <1>4

LEMMA IngestKeeps ==
    ASSUME GeographyInv, Ingest
    PROVE  GeographyInv'
<1>1. PICK s, digest :
          /\ s \in Sources /\ digest \in {JoinDigest(s), None}
          /\ source' = s
          /\ ledger' = Append(ledger, Entry(AreaMajority, digest))
          /\ ingested' = ingested \cup {s}
    BY DEF Ingest
<1>2. /\ changes < MaxChanges /\ changes' = changes + 1 /\ undisturbed' = FALSE
      /\ UNCHANGED <<definition, build, region, read, table, lookup, builds, delivery>>
    BY DEF Ingest
<1>3. ProducerInv
    BY DEF GeographyInv
<1>4. PICK e : e = Entry(AreaMajority, digest)
    OBVIOUS
<1>5. e.dataset = AreaMajority /\ e.digest = digest /\ AreaMajority \in Datasets
    BY <1>4, DistinctDatasets DEF Datasets
<1>6. \A dataset \in Datasets : Settled(dataset)'
    <2>1. digest \in Digests(AreaMajority)'
        BY <1>1 DEF Digests, JoinDigest
    <2>2. \A dataset \in Datasets : dataset # AreaMajority => Digests(dataset)' = Digests(dataset)
        BY <1>2 DEF Digests
    <2> QED
        BY <1>1, <1>3, <1>4, <1>5, <2>1, <2>2, LedgerGrows
<1>7. ledger' \in Seq([dataset : Datasets, digest : {None} \cup {JoinDigest(x) : x \in Sources}
                                                     \cup {RegionDigest(d) : d \in Definitions}])
    <2>1. e \in [dataset : Datasets, digest : {None} \cup {JoinDigest(x) : x \in Sources}
                                                     \cup {RegionDigest(d) : d \in Definitions}]
        BY <1>1, <1>4, <1>5 DEF Entry
    <2> QED
        BY <1>1, <1>3, <1>4, <2>1 DEF ProducerInv
<1>8. changes' \in 0..MaxChanges
    BY <1>2, <1>3, LookupAssumption DEF ProducerInv
<1>9. ProducerInv'
    BY <1>1, <1>2, <1>3, <1>6, <1>7, <1>8 DEF ProducerInv
<1> QED
    BY <1>1, <1>2, <1>9, Disturbed DEF GeographyInv

LEMMA RedefineKeeps ==
    ASSUME GeographyInv, Redefine
    PROVE  GeographyInv'
<1>1. PICK d \in Definitions, r \in Bundled :
          /\ definition' = [definition EXCEPT ![r] = d]
          /\ ledger' = Append(ledger, Entry(RegionDataset(r), RegionDigest(d)))
    BY DEF Redefine
<1>2. /\ changes < MaxChanges /\ changes' = changes + 1 /\ undisturbed' = FALSE
      /\ UNCHANGED <<source, ingested, build, region, read, table, lookup, builds, delivery>>
    BY DEF Redefine
<1>3. ProducerInv
    BY DEF GeographyInv
<1>4. PICK e : e = Entry(RegionDataset(r), RegionDigest(d))
    OBVIOUS
<1>5. e.dataset = RegionDataset(r) /\ e.digest = RegionDigest(d) /\ RegionDataset(r) \in Datasets
    BY <1>4, DistinctDatasets DEF Datasets, Bundled
<1>6. /\ definition'[r] = d
      /\ \A q \in Bundled : q # r => definition'[q] = definition[q]
    BY <1>1, <1>3 DEF ProducerInv
<1>7. \A dataset \in Datasets : Settled(dataset)'
    <2>1. RegionDigest(d) \in Digests(RegionDataset(r))'
        BY <1>6, DistinctDatasets DEF Digests
    <2>2. \A dataset \in Datasets :
              dataset # RegionDataset(r) => Digests(dataset)' = Digests(dataset)
        BY <1>2, <1>6 DEF Digests
    <2> QED
        BY <1>1, <1>3, <1>4, <1>5, <2>1, <2>2, LedgerGrows
<1>8. ledger' \in Seq([dataset : Datasets, digest : {None} \cup {JoinDigest(x) : x \in Sources}
                                                     \cup {RegionDigest(x) : x \in Definitions}])
    <2>1. e \in [dataset : Datasets, digest : {None} \cup {JoinDigest(x) : x \in Sources}
                                                     \cup {RegionDigest(x) : x \in Definitions}]
        BY <1>4, <1>5 DEF Entry
    <2> QED
        BY <1>1, <1>3, <1>4, <2>1 DEF ProducerInv
<1>9. changes' \in 0..MaxChanges
    BY <1>2, <1>3, LookupAssumption DEF ProducerInv
<1>10. ProducerInv'
    BY <1>1, <1>2, <1>3, <1>7, <1>8, <1>9 DEF ProducerInv
<1> QED
    BY <1>2, <1>10, Disturbed DEF GeographyInv

-----------------------------------------------------------------------------
(* The builder. *)

LEMMA EndKeeps ==
    ASSUME BuildEnds
    PROVE  BuilderInv'
<1>1. /\ build' = "idle" /\ region' = None /\ read' = <<>> /\ table' = {}
      /\ undisturbed' = FALSE
    BY DEF BuildEnds
<1>2. ReadInv'
    BY <1>1, OrderedColumns DEF ReadInv
<1>3. SoundRows(table)'
    BY <1>1 DEF SoundRows
<1> QED
    BY <1>1, <1>2, <1>3 DEF BuilderInv

(* A step that leaves the file alone. *)
LEMMA FileStands ==
    ASSUME LookupInv, StampNamesWhatWasBuilt, UNCHANGED <<producer, lookup, builds>>
    PROVE  LookupInv' /\ StampNamesWhatWasBuilt'
<1>1. UNCHANGED ingested
    BY DEF producer
<1> QED
    BY <1>1 DEF LookupInv, StampNamesWhatWasBuilt, SoundRows, FromTheProducer, Readable

LEMMA BuildStartsKeeps ==
    ASSUME GeographyInv, BuildStarts
    PROVE  GeographyInv'
<1>1. PICK r \in Regions : region' = r
    BY DEF BuildStarts
<1>2. /\ build = "idle" /\ build' = "reading" /\ read' = <<>> /\ undisturbed' = TRUE
      /\ UNCHANGED <<producer, table, lookup, builds, delivery>>
    BY DEF BuildStarts
<1>3. UNCHANGED ingested
    BY <1>2 DEF producer
<1>4. BuilderInv'
    <2>1. table' = {}
        BY <1>2 DEF GeographyInv, BuilderInv
    <2>2. SoundRows(table)' /\ Current(table)'
        BY <2>1 DEF SoundRows, Current, GidsOf
    <2>3. ReadInv'
        BY <1>2, OrderedColumns DEF ReadInv
    <2> QED
        BY <1>1, <1>2, <2>1, <2>2, <2>3 DEF BuilderInv
<1> QED
    BY <1>2, <1>3, <1>4, ProducerStands, FileStands, DeliveryStands DEF GeographyInv

LEMMA ReadSourceKeeps ==
    ASSUME GeographyInv, ReadSource
    PROVE  GeographyInv'
<1>1. /\ build = "reading" /\ Len(read) < Len(ColumnOrder)
      /\ read' = Append(read, source[ColumnOrder[Len(read) + 1]])
      /\ UNCHANGED <<producer, build, region, table, lookup, undisturbed, builds, delivery>>
    BY DEF ReadSource
<1>2. UNCHANGED <<source, definition, ingested>>
    BY <1>1 DEF producer
<1>3. ReadInv /\ ProducerInv /\ BuilderInv
    BY DEF GeographyInv, BuilderInv
<1>4. ReadInv'
    <2>1. PICK n, c : n = Len(read) + 1 /\ c = ColumnOrder[Len(read) + 1]
        OBVIOUS
    <2>2. n \in 1..Len(ColumnOrder) /\ c \in Columns
        BY <1>1, <1>3, <2>1, OrderedColumns DEF ReadInv
    <2>3. source[c] \in UNION {{s[x] : x \in Columns} : s \in Sources}
        BY <1>3, <2>2 DEF ProducerInv
    <2>4. /\ read' \in Seq(UNION {{s[x] : x \in Columns} : s \in Sources})
          /\ Len(read') = n /\ read'[n] = source[c]
          /\ \A k \in 1..Len(read) : read'[k] = read[k]
          /\ \A k \in 1..n : k = n \/ k \in 1..Len(read)
        BY <1>1, <1>3, <2>1, <2>3 DEF ReadInv
    <2>5. \A k \in 1..n : \E s \in ingested : read'[k] = s[ColumnOrder[k]]
        BY <1>3, <2>1, <2>4 DEF ReadInv, ProducerInv
    <2>6. undisturbed => \A k \in 1..n : read'[k] = source[ColumnOrder[k]]
        BY <1>3, <2>1, <2>4 DEF ReadInv
    <2>7. n <= Len(ColumnOrder)
        BY <2>2
    <2> QED
        BY <1>1, <1>2, <2>4, <2>5, <2>6, <2>7 DEF ReadInv
<1>5. BuilderInv'
    <2>1. table' = {}
        BY <1>1, <1>3 DEF BuilderInv
    <2>2. SoundRows(table)' /\ Current(table)'
        BY <2>1 DEF SoundRows, Current, GidsOf
    <2> QED
        BY <1>1, <1>3, <1>4, <2>1, <2>2 DEF BuilderInv
<1> QED
    BY <1>1, <1>2, <1>5, ProducerStands, FileStands, DeliveryStands DEF GeographyInv

(* The rows that pass the guards are fit to be delivered.                   *)
LEMMA GuardedRows ==
    ASSUME ProducerInv, ReadInv, Len(read) = Len(ColumnOrder),
           Clean({row \in Joined(read) : InRegion(row.gid) /\ Complete(row)}),
           NEW t, t = {[gid |-> row.gid, value |-> row.value] :
                          row \in {x \in Joined(read) : InRegion(x.gid) /\ Complete(x)}}
    PROVE  SoundRows(t) /\ (undisturbed => Current(t))
<1>1. PICK rows : rows = {row \in Joined(read) : InRegion(row.gid) /\ Complete(row)}
    OBVIOUS
<1>2. t = {[gid |-> row.gid, value |-> row.value] : row \in rows} /\ Clean(rows)
    BY <1>1
<1>3. ASSUME NEW a \in t
      PROVE  /\ a \in Rows /\ FromTheProducer(a)
             /\ undisturbed => \A c \in Columns :
                                  [gid |-> a.gid, value |-> a.value[c]] \in ToSet(source[c])
             /\ region \in Bundled => a.gid \in definition[region]
    <2>1. PICK row \in rows : a = [gid |-> row.gid, value |-> row.value]
        BY <1>2
    <2>2. a.gid = row.gid /\ a.value = row.value
        BY <2>1
    <2>3. row \in Joined(read) /\ InRegion(row.gid) /\ Complete(row)
        BY <1>1
    <2>4. /\ \A c \in Columns :
                /\ row.gid \in Gids /\ row.value[c] \in Values
                /\ row.value[c] # (IF c \in CodeCols THEN Empty ELSE Sentinel)
                /\ \E s \in ingested : [gid |-> row.gid, value |-> row.value[c]] \in ToSet(s[c])
                /\ undisturbed =>
                      [gid |-> row.gid, value |-> row.value[c]] \in ToSet(source[c])
          /\ row.value = [c \in Columns |-> row.value[c]]
        BY <2>3, JoinedRows
    <2>5. a \in Rows
        <3>1. row.gid \in Gids
            BY <2>4, OrderedColumns
        <3>2. row.value \in [Columns -> Values]
            BY <2>4
        <3> QED
            BY <2>1, <3>1, <3>2 DEF Rows
    <2>6. FromTheProducer(a)
        <3>1. \A c \in Columns : row.value[c] \notin {Null, Sentinel, Empty}
            BY <2>3, <2>4 DEF Complete, NameCols
        <3> QED
            BY <2>2, <2>4, <3>1 DEF FromTheProducer
    <2>7. region \in Bundled => a.gid \in definition[region]
        BY <2>2, <2>3 DEF InRegion, Bundled
    <2> QED
        BY <2>2, <2>4, <2>5, <2>6, <2>7
<1>4. ASSUME NEW a \in t, NEW b \in t, a.gid = b.gid PROVE a = b
    <2>1. PICK row \in rows : a = [gid |-> row.gid, value |-> row.value]
        BY <1>2
    <2>2. PICK other \in rows : b = [gid |-> other.gid, value |-> other.value]
        BY <1>2
    <2>3. row.gid = other.gid
        BY <1>4, <2>1, <2>2
    <2>4. row = other
        BY <1>2, <2>3 DEF Clean
    <2> QED
        BY <2>1, <2>2, <2>4
<1>5. SoundRows(t)
    BY <1>3, <1>4 DEF SoundRows
<1>6. undisturbed => Current(t)
    BY <1>3 DEF Current, GidsOf
<1> QED
    BY <1>5, <1>6

LEMMA MakeTableKeeps ==
    ASSUME GeographyInv, MakeTable
    PROVE  GeographyInv'
<1>1. PICK rows : rows = {row \in Joined(read) : InRegion(row.gid) /\ Complete(row)}
    OBVIOUS
<1>2. /\ build = "reading" /\ Len(read) = Len(ColumnOrder)
      /\ UNCHANGED <<producer, lookup, builds, delivery>>
      /\ \/ /\ Clean(rows) /\ build' = "stamping" /\ read' = <<>>
            /\ table' = {[gid |-> row.gid, value |-> row.value] : row \in rows}
            /\ UNCHANGED <<region, undisturbed>>
         \/ BuildEnds
    BY <1>1 DEF MakeTable
<1>3. ProducerInv /\ BuilderInv /\ ReadInv
    BY DEF GeographyInv, BuilderInv
<1>4. UNCHANGED <<source, definition, ingested>>
    BY <1>2 DEF producer
<1>5. ASSUME Clean(rows), build' = "stamping", read' = <<>>,
             table' = {[gid |-> row.gid, value |-> row.value] : row \in rows},
             UNCHANGED <<region, undisturbed>>
      PROVE  BuilderInv'
    <2>1. PICK t : t = {[gid |-> row.gid, value |-> row.value] : row \in rows}
        OBVIOUS
    <2>2. SoundRows(t) /\ (undisturbed => Current(t))
        BY <1>1, <1>2, <1>3, <1>5, <2>1, GuardedRows
    <2>3. SoundRows(table)' /\ (undisturbed' => Current(table)')
        BY <1>4, <1>5, <2>1, <2>2 DEF SoundRows, FromTheProducer, Current
    <2>4. ReadInv'
        BY <1>5, OrderedColumns DEF ReadInv
    <2>5. /\ build' = "stamping" /\ region' \in Regions /\ undisturbed' \in BOOLEAN
        BY <1>2, <1>3, <1>5 DEF BuilderInv
    <2> QED
        BY <2>3, <2>4, <2>5 DEF BuilderInv
<1>6. BuilderInv'
    BY <1>2, <1>5, EndKeeps
<1> QED
    BY <1>2, <1>4, <1>6, ProducerStands, FileStands, DeliveryStands DEF GeographyInv

(* The last entry of the dataset digests what is there. *)
LEMMA ProvenanceIsCurrent ==
    ASSUME ProducerInv, NEW dataset \in Datasets, Provenance(dataset) # None
    PROVE  Provenance(dataset) \in Digests(dataset)
<1>1. Of(dataset) # {} /\ Provenance(dataset) = ledger[Max(Of(dataset))].digest
    BY DEF Provenance, Of
<1>2. PICK last \in Of(dataset) : /\ \A i \in Of(dataset) : i <= last
                                 /\ ledger[last].digest \in Digests(dataset)
    BY <1>1 DEF ProducerInv, Settled
<1>3. Of(dataset) \subseteq Nat
    BY DEF ProducerInv, Of
<1>4. Max(Of(dataset)) = last
    BY <1>2, <1>3 DEF Max
<1> QED
    BY <1>1, <1>2, <1>4

LEMMA StampAndOpenKeeps ==
    ASSUME GeographyInv, StampAndOpen
    PROVE  GeographyInv'
<1>1. /\ build = "stamping" /\ UNCHANGED <<producer, builds, delivery>>
      /\ \/ BuildEnds /\ UNCHANGED lookup
         \/ /\ Version.digest # None /\ build' = "writing"
            /\ lookup' = [rows |-> {}, version |-> Version]
            /\ UNCHANGED <<region, read, table, undisturbed>>
    BY DEF StampAndOpen
<1>2. ProducerInv /\ BuilderInv /\ LookupInv /\ StampNamesWhatWasBuilt /\ DeliveryInv
    BY DEF GeographyInv
<1>3. UNCHANGED <<source, definition, ingested>>
    BY <1>1 DEF producer
<1>4. CASE BuildEnds /\ UNCHANGED lookup
    BY <1>1, <1>2, <1>3, <1>4, EndKeeps, ProducerStands, FileStands, DeliveryStands
       DEF GeographyInv
<1>5. CASE /\ Version.digest # None /\ build' = "writing"
           /\ lookup' = [rows |-> {}, version |-> Version]
           /\ UNCHANGED <<region, read, table, undisturbed>>
    <2>1. lookup'.rows = {} /\ lookup'.version = Version
        BY <1>5
    <2>2. StampIsCurrent(Version)
        <3>1. /\ Version.region = region
              /\ Version.digest = Provenance(StampDataset(region))
              /\ region \in Regions
            BY <1>1, <1>2 DEF Version, BuilderInv
        <3>2. CASE region = "all"
            <4>1. Provenance(AreaMajority) \in Digests(AreaMajority)
                BY <1>2, <1>5, <3>1, <3>2, ProvenanceIsCurrent DEF StampDataset, Datasets
            <4> QED
                BY <1>5, <3>1, <3>2, <4>1 DEF Digests, StampDataset, StampIsCurrent
        <3>3. CASE region # "all"
            <4>1. Provenance(RegionDataset(region)) \in Digests(RegionDataset(region))
                BY <1>2, <1>5, <3>1, <3>3, ProvenanceIsCurrent DEF StampDataset, Datasets
            <4>2. PICK r \in Bundled : /\ RegionDataset(r) = RegionDataset(region)
                                       /\ Provenance(RegionDataset(region)) =
                                               RegionDigest(definition[r])
                BY <4>1, DistinctDatasets DEF Digests
            <4>3. r = region
                BY <4>2, DistinctDatasets
            <4> QED
                BY <3>1, <3>3, <4>2, <4>3 DEF StampDataset, StampIsCurrent
        <3> QED
            BY <3>2, <3>3
    <2>3. StampIsCurrent(lookup.version)'
        BY <1>3, <1>5, <2>1, <2>2 DEF StampIsCurrent
    <2>4. BuilderInv'
        BY <1>1, <1>2, <1>3, <1>5, <2>1, <2>3
           DEF BuilderInv, ReadInv, SoundRows, FromTheProducer, Current
    <2>5. LookupInv'
        BY <1>5, <2>1 DEF LookupInv, SoundRows, Readable
    <2>6. StampNamesWhatWasBuilt'
        BY <1>1, <1>2, <1>3 DEF StampNamesWhatWasBuilt
    <2> QED
        BY <1>1, <1>2, <1>3, <2>4, <2>5, <2>6, ProducerStands, DeliveryStands DEF GeographyInv
<1> QED
    BY <1>1, <1>4, <1>5

LEMMA CloseFileKeeps ==
    ASSUME GeographyInv, CloseFile
    PROVE  GeographyInv'
<1>1. /\ build = "writing" /\ lookup' = [lookup EXCEPT !.rows = table]
      /\ builds' = builds \cup {[rows |-> table, version |-> lookup.version,
                                 undisturbed |-> undisturbed]}
      /\ BuildEnds /\ UNCHANGED <<producer, delivery>>
    BY DEF CloseFile
<1>2. ProducerInv /\ BuilderInv /\ LookupInv /\ StampNamesWhatWasBuilt /\ DeliveryInv
    BY DEF GeographyInv
<1>3. UNCHANGED <<source, definition, ingested>>
    BY <1>1 DEF producer
<1>4. PICK v : v = lookup.version
    OBVIOUS
<1>5. lookup = [rows |-> {}, version |-> v] /\ v.digest # None
    BY <1>1, <1>2, <1>4 DEF BuilderInv
<1>6. lookup' = [rows |-> table, version |-> v]
    BY <1>1, <1>5
<1>7. lookup'.rows = table /\ lookup'.version = v
    BY <1>6
<1>8. PICK b : b = [rows |-> table, version |-> v, undisturbed |-> undisturbed]
    OBVIOUS
<1>9. /\ b.rows = table /\ b.version = v /\ b.undisturbed = undisturbed
      /\ builds' = builds \cup {b}
    BY <1>1, <1>4, <1>8
<1>10. LookupInv'
    <2>1. SoundRows(lookup.rows)'
        BY <1>2, <1>3, <1>7 DEF BuilderInv, SoundRows, FromTheProducer
    <2> QED
        BY <1>5, <1>7, <1>9, <2>1 DEF LookupInv
<1>11. StampNamesWhatWasBuilt'
    <2> SUFFICES ASSUME NEW x \in builds', x.undisturbed
                 PROVE  IF x.version.region = "all"
                        THEN \E s \in ingested :
                                /\ x.version.digest = JoinDigest(s)
                                /\ \A row \in x.rows, c \in Columns :
                                      [gid |-> row.gid, value |-> row.value[c]] \in ToSet(s[c])
                        ELSE \E d \in Definitions : /\ x.version.digest = RegionDigest(d)
                                                    /\ GidsOf(x.rows) \subseteq d
        BY <1>3 DEF StampNamesWhatWasBuilt
    <2>1. CASE x \in builds
        BY <1>2, <2>1 DEF StampNamesWhatWasBuilt
    <2>2. CASE x = b
        <3>1. undisturbed
            BY <1>9, <2>2
        <3>2. Current(table) /\ StampIsCurrent(v)
            BY <1>1, <1>2, <1>4, <3>1 DEF BuilderInv
        <3>3. source \in ingested /\ definition \in [Bundled -> Definitions]
            BY <1>2 DEF ProducerInv
        <3> QED
            BY <1>9, <2>2, <3>2, <3>3 DEF Current, StampIsCurrent
    <2> QED
        BY <1>9, <2>1, <2>2
<1> QED
    BY <1>1, <1>2, <1>3, <1>9, <1>10, <1>11, EndKeeps, ProducerStands, DeliveryStands
       DEF GeographyInv

LEMMA BuilderDiesKeeps ==
    ASSUME GeographyInv, BuilderDies
    PROVE  GeographyInv'
<1>1. BuildEnds /\ UNCHANGED <<producer, lookup, builds, delivery>> /\ UNCHANGED ingested
    BY DEF BuilderDies, producer
<1> QED
    BY <1>1, EndKeeps, ProducerStands, FileStands, DeliveryStands DEF GeographyInv

-----------------------------------------------------------------------------
(* The delivery. *)

LEMMA StopKeeps ==
    ASSUME DeliveryInv, Stop, UNCHANGED <<producer, builder>>
    PROVE  DeliveryInv'
<1>1. UNCHANGED <<loaded, sidecar, history, stamp, ingested, builds>> /\ launch' = "refused"
    BY DEF Stop, producer, builder
<1>2. SoundRows(loaded) => SoundRows(loaded)'
    BY <1>1 DEF SoundRows, FromTheProducer
<1> QED
    BY <1>1, <1>2 DEF DeliveryInv, Leg

(* The rows of a table for some cells it has. *)
LEMMA LegOf ==
    ASSUME NEW cells, cells \subseteq GidsOf(loaded), NEW rows, rows \subseteq loaded,
           \A row \in rows : row.gid \in cells,
           \A g \in cells : \E row \in rows : row.gid = g
    PROVE  GidsOf(rows) = cells
BY DEF GidsOf

LEMMA DeliveryKeeps ==
    ASSUME GeographyInv, Delivery
    PROVE  GeographyInv'
<1>1. UNCHANGED <<producer, builder>>
    BY DEF Delivery, Load, BuildSidecar, BuildHistory, Describe
<1>2. UNCHANGED <<ingested, builds, lookup>>
    BY <1>1 DEF producer, builder
<1>3. DeliveryInv /\ LookupInv
    BY DEF GeographyInv
<1>4. SoundRows(loaded) /\ UNCHANGED loaded => SoundRows(loaded)'
    BY <1>2 DEF SoundRows, FromTheProducer
<1>5. ASSUME Load PROVE DeliveryInv'
    <2>1. /\ launch = "idle" /\ sidecar = None /\ history = None
          /\ \/ /\ Readable /\ launch' = "loaded" /\ loaded' = lookup.rows
                /\ UNCHANGED <<sidecar, history, stamp>>
             \/ Stop
        BY <1>3, <1>5 DEF Load, DeliveryInv
    <2>2. ASSUME Readable, launch' = "loaded", loaded' = lookup.rows,
                 UNCHANGED <<sidecar, history, stamp>>
          PROVE  DeliveryInv'
        <3>1. SoundRows(lookup.rows)
            BY <1>3, <2>2 DEF LookupInv, Readable
        <3>2. SoundRows(loaded)'
            BY <1>2, <2>2, <3>1 DEF SoundRows, FromTheProducer
        <3> QED
            BY <1>2, <1>3, <2>1, <2>2, <3>2 DEF DeliveryInv, Leg
    <2> QED
        BY <1>1, <1>3, <2>1, <2>2, StopKeeps
<1>6. ASSUME BuildSidecar PROVE DeliveryInv'
    <2>1. /\ launch = "loaded"
          /\ \/ /\ ForecastCells \subseteq GidsOf(loaded)
                /\ sidecar' = {row \in loaded : row.gid \in ForecastCells}
                /\ launch' = "forecast" /\ UNCHANGED <<loaded, history, stamp>>
             \/ Stop
        BY <1>6 DEF BuildSidecar
    <2>2. ASSUME ForecastCells \subseteq GidsOf(loaded),
                 sidecar' = {row \in loaded : row.gid \in ForecastCells},
                 launch' = "forecast", UNCHANGED <<loaded, history, stamp>>
          PROVE  DeliveryInv'
        <3>1. SoundRows(loaded) /\ SoundRows(loaded)'
            BY <1>3, <1>4, <2>1, <2>2 DEF DeliveryInv
        <3>2. GidsOf(sidecar') = ForecastCells
            BY <2>2 DEF GidsOf
        <3>3. Leg(sidecar, ForecastCells)'
            BY <2>2, <3>1, <3>2 DEF Leg, GidsOf
        <3> QED
            BY <1>2, <1>3, <2>2, <3>1, <3>3 DEF DeliveryInv, Leg
    <2> QED
        BY <1>1, <1>3, <2>1, <2>2, StopKeeps
<1>7. ASSUME BuildHistory PROVE DeliveryInv'
    <2>1. \/ \E gather \in [HistoryCells -> loaded] :
                /\ \A g \in HistoryCells : gather[g].gid = g
                /\ history' = Range(gather)
                /\ launch' = "history" /\ UNCHANGED <<loaded, sidecar, stamp>>
          \/ Stop
        BY <1>7 DEF BuildHistory, HistoryTable
    <2>2. ASSUME NEW gather \in [HistoryCells -> loaded],
                 \A g \in HistoryCells : gather[g].gid = g,
                 history' = Range(gather),
                 launch' = "history", UNCHANGED <<loaded, sidecar, stamp>>
          PROVE  DeliveryInv'
        <3>1. SoundRows(loaded) /\ SoundRows(loaded)'
            BY <1>3, <1>4, <1>7, <2>2 DEF DeliveryInv, BuildHistory
        <3>2. history' \subseteq loaded /\ GidsOf(history') = HistoryCells
            BY <2>2 DEF GidsOf, Range
        <3>3. Leg(history, HistoryCells)'
            BY <2>2, <3>1, <3>2 DEF Leg, GidsOf
        <3> QED
            BY <1>2, <1>3, <2>2, <3>1, <3>3 DEF DeliveryInv, Leg
    <2> QED
        BY <1>1, <1>3, <2>1, <2>2, StopKeeps
<1>8. ASSUME Describe PROVE DeliveryInv'
    <2>1. \/ /\ Readable /\ stamp' = lookup.version /\ launch' = "shipped"
             /\ UNCHANGED <<loaded, sidecar, history>>
          \/ Stop
        BY <1>8 DEF Describe
    <2>2. ASSUME Readable, stamp' = lookup.version, launch' = "shipped",
                 UNCHANGED <<loaded, sidecar, history>>
          PROVE  DeliveryInv'
        <3>1. stamp' \in {b.version : b \in builds'}
            BY <1>2, <1>3, <2>2 DEF LookupInv
        <3> QED
            BY <1>3, <1>4, <2>2, <3>1 DEF DeliveryInv, Leg
    <2> QED
        BY <1>1, <1>3, <2>1, <2>2, StopKeeps
<1>9. DeliveryInv'
    BY <1>5, <1>6, <1>7, <1>8 DEF Delivery
<1>10. UNCHANGED producer /\ UNCHANGED builder
    BY <1>1
<1> QED
    BY <1>9, <1>10, ProducerStands, BuilderStands DEF GeographyInv

-----------------------------------------------------------------------------
(* The beginning: the ledger has the join, and at most one entry for the    *)
(* definition of each region.                                               *)

LEMMA Listing ==
    ASSUME NEW S, IsFiniteSet(S)
    PROVE  /\ Cardinality(S) \in Nat
           /\ SetToSeq(S) \in [1..Cardinality(S) -> S] /\ IsInjective(SetToSeq(S))
<1>1. Cardinality(S) \in Nat /\ ExistsBijection(1..Cardinality(S), S)
    BY FS_CardinalityType
<1>2. PICK f \in Bijection(1..Cardinality(S), S) : TRUE
    BY <1>1 DEF ExistsBijection
<1>3. f \in [1..Cardinality(S) -> S] /\ IsInjective(f)
    BY <1>2 DEF Bijection, Injection, IsInjective
<1> QED
    BY <1>1, <1>3 DEF SetToSeq

LEMMA InitProducer ==
    ASSUME Init
    PROVE  ProducerInv
<1>1. /\ source \in Sources /\ definition \in [Bundled -> Definitions]
      /\ changes = 0 /\ ingested = {source}
    BY DEF Init
<1>2. PICK S : S = {Entry(RegionDataset(r), RegionDigest(definition[r])) : r \in Bundled}
    OBVIOUS
<1>3. PICK join, rest : /\ join = Entry(AreaMajority, JoinDigest(source))
                        /\ ledger = <<join>> \o rest
                        /\ rest = <<>> \/ rest = SetToSeq(S)
    <2>1. PICK join : join = Entry(AreaMajority, JoinDigest(source))
        OBVIOUS
    <2>2. <<join>> \o <<>> = <<join>>
        OBVIOUS
    <2>3. ledger \in {<<join>>, <<join>> \o SetToSeq(S)}
        BY <1>2, <2>1 DEF Init
    <2>4. \E rest : ledger = <<join>> \o rest /\ (rest = <<>> \/ rest = SetToSeq(S))
        BY <2>2, <2>3
    <2> QED
        BY <2>1, <2>4
<1>4. IsFiniteSet(S)
    <2>1. IsFiniteSet(Bundled)
        BY LookupAssumption, FS_Subset DEF Bundled
    <2>2. PICK f : f = [r \in Bundled |-> Entry(RegionDataset(r), RegionDigest(definition[r]))]
        OBVIOUS
    <2>3. f \in Surjection(Bundled, S)
        BY <1>2, <2>2 DEF Surjection
    <2> QED
        BY <2>1, <2>3, FS_Surjection
<1>5. /\ rest \in Seq(S)
      /\ \A i, j \in 1..Len(rest) : rest[i] = rest[j] => i = j
    <2>1. /\ Cardinality(S) \in Nat /\ SetToSeq(S) \in [1..Cardinality(S) -> S]
          /\ IsInjective(SetToSeq(S))
        BY <1>4, Listing
    <2>2. CASE rest = <<>>
        BY <2>2
    <2>3. CASE rest = SetToSeq(S)
        <3>1. PICK n : n = Cardinality(S)
            OBVIOUS
        <3>2. n \in Nat /\ rest \in [1..n -> S] /\ IsInjective(rest)
            BY <2>1, <2>3, <3>1
        <3>3. rest \in Seq(S) /\ Len(rest) = n /\ DOMAIN rest = 1..n
            BY <3>2
        <3> QED
            BY <3>2, <3>3 DEF IsInjective
    <2> QED
        BY <1>3, <2>2, <2>3
<1>6. /\ Len(rest) \in Nat /\ DOMAIN ledger = 1..(Len(rest) + 1)
      /\ ledger[1] = join /\ \A i \in 2..(Len(rest) + 1) : ledger[i] = rest[i - 1]
    BY <1>3, <1>5
<1>7. \A e \in S : \E r \in Bundled : /\ e.dataset = RegionDataset(r)
                                     /\ e.digest = RegionDigest(definition[r])
                                     /\ e = Entry(RegionDataset(r), RegionDigest(definition[r]))
    BY <1>2, DistinctDatasets
<1>8. join.dataset = AreaMajority /\ join.digest = JoinDigest(source)
    BY <1>3, DistinctDatasets
<1>9. ledger \in Seq([dataset : Datasets, digest : {None} \cup {JoinDigest(x) : x \in Sources}
                                                     \cup {RegionDigest(d) : d \in Definitions}])
    <2>1. PICK R : R = [dataset : Datasets, digest : {None} \cup {JoinDigest(x) : x \in Sources}
                                                     \cup {RegionDigest(d) : d \in Definitions}]
        OBVIOUS
    <2>2. join \in R
        BY <1>1, <1>3, <2>1 DEF Entry, Datasets
    <2>3. S \subseteq R
        BY <1>1, <1>2, <2>1 DEF Entry, Datasets, Bundled
    <2>4. <<join>> \in Seq(R) /\ rest \in Seq(R)
        BY <1>5, <2>2, <2>3
    <2>5. <<join>> \o rest \in Seq(R)
        BY <2>4
    <2> QED
        BY <1>3, <2>1, <2>5
<1>10. ASSUME NEW dataset \in Datasets PROVE Settled(dataset)
    <2>1. CASE dataset = AreaMajority
        <3>1. \A i \in Of(dataset) : i = 1
            BY <1>5, <1>6, <1>7, <2>1, DistinctDatasets DEF Of
        <3>2. 1 \in Of(dataset) /\ ledger[1].digest \in Digests(dataset)
            BY <1>6, <1>8, <2>1 DEF Of, Digests
        <3> QED
            BY <3>1, <3>2 DEF Settled
    <2>2. CASE dataset # AreaMajority
        <3> SUFFICES ASSUME NEW last \in Of(dataset)
                     PROVE  /\ \A i \in Of(dataset) : i = last
                            /\ ledger[last].digest \in Digests(dataset)
            BY <1>6 DEF Settled, Of
        <3>1. \A i \in Of(dataset) : /\ i \in 2..(Len(rest) + 1) /\ i - 1 \in 1..Len(rest)
                                     /\ rest[i - 1] = ledger[i] /\ ledger[i] \in S
            BY <1>5, <1>6, <1>8, <2>2 DEF Of
        <3>2. PICK r \in Bundled : /\ dataset = RegionDataset(r)
                                   /\ ledger[last].digest = RegionDigest(definition[r])
                                   /\ ledger[last] = Entry(RegionDataset(r),
                                                           RegionDigest(definition[r]))
            BY <1>7, <3>1 DEF Of
        <3>3. \A i \in Of(dataset) : ledger[i] = ledger[last]
            BY <1>7, <3>1, <3>2, DistinctDatasets DEF Of
        <3>4. \A i \in Of(dataset) : i = last
            BY <1>5, <1>6, <3>1, <3>3
        <3> QED
            BY <2>2, <3>2, <3>4 DEF Digests
    <2> QED
        BY <2>1, <2>2
<1> QED
    BY <1>1, <1>9, <1>10, LookupAssumption DEF ProducerInv

LEMMA InitGeography == Init => GeographyInv
<1> SUFFICES ASSUME Init PROVE GeographyInv
    OBVIOUS
<1>1. /\ build = "idle" /\ region = None /\ read = <<>> /\ table = {} /\ lookup = None
      /\ launch = "idle" /\ loaded = None /\ sidecar = None /\ history = None /\ stamp = None
      /\ undisturbed = FALSE /\ builds = {}
    BY DEF Init
<1>2. BuilderInv
    <2>1. ReadInv /\ SoundRows(table)
        BY <1>1, OrderedColumns DEF ReadInv, SoundRows
    <2> QED
        BY <1>1, <2>1 DEF BuilderInv
<1>3. LookupInv /\ StampNamesWhatWasBuilt /\ DeliveryInv
    BY <1>1 DEF LookupInv, Readable, StampNamesWhatWasBuilt, DeliveryInv, Leg
<1> QED
    BY <1>2, <1>3, InitProducer DEF GeographyInv

-----------------------------------------------------------------------------
(* All three parties keep the invariant, whatever they do to one another.   *)
THEOREM GeographyHolds == Spec => []GeographyInv
<1>1. ASSUME GeographyInv, [Next]_vars PROVE GeographyInv'
    <2>1. CASE DataFactory
        BY <1>1, <2>1, IngestKeeps, RedefineKeeps DEF DataFactory
    <2>2. CASE Builder
        BY <1>1, <2>2, BuildStartsKeeps, ReadSourceKeeps, MakeTableKeeps, StampAndOpenKeeps,
           CloseFileKeeps, BuilderDiesKeeps DEF Builder
    <2>3. CASE Delivery
        BY <1>1, <2>3, DeliveryKeeps
    <2>4. CASE UNCHANGED vars
        <3>1. /\ UNCHANGED producer /\ UNCHANGED builder /\ UNCHANGED delivery
              /\ UNCHANGED <<ingested, builds>>
            BY <2>4 DEF vars, producer, builder
        <3> QED
            BY <1>1, <3>1, ProducerStands, BuilderStands, DeliveryStands DEF GeographyInv
    <2> QED
        BY <1>1, <2>1, <2>2, <2>3, <2>4 DEF Next
<1> QED
    BY <1>1, InitGeography, PTL DEF Spec

(* The types of the three parties' state. *)
THEOREM GeographyTypes == Spec => []TypeOK
<1>1. ASSUME GeographyInv PROVE TypeOK
    <2>1. ProducerInv /\ BuilderInv /\ LookupInv /\ DeliveryInv
        BY <1>1 DEF GeographyInv
    <2>2. \A rows \in {loaded, sidecar, history} : rows # None => rows \subseteq Rows
        BY <2>1 DEF DeliveryInv, Leg, SoundRows
    <2> QED
        BY <2>1, <2>2 DEF TypeOK, ProducerInv, BuilderInv, ReadInv, LookupInv, DeliveryInv, SoundRows
<1> QED
    BY <1>1, GeographyHolds, PTL

(* Sound rows that have exactly some cells have one row for each.           *)
LEMMA OneRowEach ==
    ASSUME NEW cells, IsFiniteSet(cells), NEW rows, GidsOf(rows) = cells,
           \A a, b \in rows : a.gid = b.gid => a = b
    PROVE  Cardinality(rows) = Cardinality(cells)
<1>1. PICK f : f = [g \in cells |-> CHOOSE row \in rows : row.gid = g]
    OBVIOUS
<1>2. \A g \in cells : f[g] \in rows /\ f[g].gid = g
    BY <1>1 DEF GidsOf
<1>3. f \in [cells -> rows]
    BY <1>1, <1>2
<1>4. \A row \in rows : row.gid \in cells /\ f[row.gid] = row
    BY <1>2 DEF GidsOf
<1>5. f \in Bijection(cells, rows)
    BY <1>2, <1>3, <1>4 DEF Bijection, Injection, Surjection, IsInjective
<1> QED
    BY <1>5, FS_Bijection DEF ExistsBijection

(* Geography is the producer's, in both legs of every delivery.             *)
THEOREM GeographyComesFromTheProducer == Spec => []GeographyIsTheProducers
<1>1. ASSUME GeographyInv PROVE GeographyIsTheProducers
    <2>1. /\ Leg(sidecar, ForecastCells) /\ Leg(history, HistoryCells)
        BY <1>1 DEF GeographyInv, DeliveryInv
    <2>2. \A rows \in {sidecar, history} :
              rows # None => \A row \in rows : FromTheProducer(row)
        BY <2>1 DEF Leg, SoundRows
    <2>3. sidecar # None => /\ GidsOf(sidecar) = ForecastCells
                            /\ Cardinality(sidecar) = Cardinality(ForecastCells)
        BY <2>1, OneRowEach, LookupAssumption DEF Leg, SoundRows
    <2>4. history # None => /\ GidsOf(history) = HistoryCells
                            /\ Cardinality(history) = Cardinality(HistoryCells)
        BY <2>1, OneRowEach, LookupAssumption DEF Leg, SoundRows
    <2> QED
        BY <2>2, <2>3, <2>4 DEF GeographyIsTheProducers
<1> QED
    BY <1>1, GeographyHolds, PTL

(* A cell has one geography in the two legs of a delivery, although the     *)
(* file may be rebuilt between the two joins.                               *)
THEOREM BothLegsAgree == Spec => []OneGeographyPerDelivery
<1>1. ASSUME GeographyInv PROVE OneGeographyPerDelivery
    BY <1>1 DEF GeographyInv, DeliveryInv, Leg, SoundRows, OneGeographyPerDelivery
<1> QED
    BY <1>1, GeographyHolds, PTL

(* The stamp of a lookup built while the datafactory stood still digests    *)
(* what is in it, however many regions the ledger lists.                    *)
THEOREM StampIsTrue == Spec => []StampNamesWhatWasBuilt
<1>1. GeographyInv => StampNamesWhatWasBuilt
    BY DEF GeographyInv
<1> QED
    BY <1>1, GeographyHolds, PTL
=============================================================================
