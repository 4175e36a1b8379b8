--------------------------- MODULE WireSinkProofs ---------------------------
(***************************************************************************)
(* Proofs about WireSink, for any runs, targets, months, cells, launches,  *)
(* lookups and shelf.                                                      *)
(*                                                                         *)
(* Names are a matter of the run alone, whoever else is at work: a launch  *)
(* records, stages and uploads the files its run has.  Bytes are a matter  *)
(* of who wrote: a launch nobody wrote beneath finds in the staging tree   *)
(* what it put there, so that what it pins, uploads and confirms is the    *)
(* content its run and its lookup determine.  The inductive invariant says *)
(* this in layers: Progress (where the loop over targets stands), Recorded *)
(* (what shard_records and the sidecar's record hold), Present and Held    *)
(* (what the staging tree holds for a launch), then, in BucketInv,         *)
(* SoundOrigin (where each file of the bucket comes from), Confirmed (what *)
(* the ledger stands for) and WholeAt (what a manifest finds before it).   *)
(***************************************************************************)
EXTENDS WireSink, FiniteSetTheorems, TLAPS

(* The run-level facts, files and records of run r, if it is delivered, and *)
(* the sidecar and manifest a launch with a given lookup builds for it.     *)
FactsOf(r) ==
    [run |-> r, months |-> MonthsOf(Shelf[TargetOrder[1]][r]),
     cells |-> CellsOf(Shelf[TargetOrder[1]][r])]

ShardOf(r, t, m) ==
    [kind |-> "shard", run |-> r, target |-> t, month |-> m, cells |-> Shelf[t][r].cells[m]]

RecordOf(r, t, m) == ShardRecord(ShardName(r, t, m), t, m, ShardOf(r, t, m))

RecordsOf(r) ==
    {e \in ShardRecords :
        \E i \in DOMAIN TargetOrder : \E m \in MonthsOf(Shelf[TargetOrder[i]][r]) :
            e = RecordOf(r, TargetOrder[i], m)}

SidecarOf(r, g) == SidecarBytes(g, CellsOf(Shelf[TargetOrder[1]][r]))

SidecarEntry(r, g) == [name |-> SidecarName(r), sha256 |-> SidecarOf(r, g)]

ManifestOf(r, g) ==
    [kind |-> "manifest", run |-> r, shards |-> RecordsOf(r),
     months |-> MonthsOf(Shelf[TargetOrder[1]][r]),
     cellCount |-> Cardinality(CellsOf(Shelf[TargetOrder[1]][r])),
     sidecar |-> SidecarEntry(r, g)]

-----------------------------------------------------------------------------
(* Facts about the shelf and the names. *)

(* Every frame on the shelf is a Frame. *)
LEMMA ShelfTyped ==
    ASSUME NEW t \in Targets, NEW r \in Runs
    PROVE  /\ Shelf[t][r] \in Frame
           /\ MonthsOf(Shelf[t][r]) \subseteq Months
           /\ CellsOf(Shelf[t][r]) \subseteq Cells
           /\ Cardinality(CellsOf(Shelf[t][r])) \in Nat
           /\ Len(Shelf[t][r].headers) \in Nat \ {0}
<1>1. Shelf[t][r] \in Frame
    BY SinkAssumption
<1>2. MonthsOf(Shelf[t][r]) \subseteq Months
    BY <1>1 DEF Frame, MonthsOf
<1>3. CellsOf(Shelf[t][r]) \subseteq Cells
    BY <1>1 DEF Frame, CellsOf
<1>4. IsFiniteSet(CellsOf(Shelf[t][r]))
    BY <1>3, SinkAssumption, FS_Subset
<1>5. Cardinality(CellsOf(Shelf[t][r])) \in Nat
    BY <1>4, FS_CardinalityType
<1>6. Len(Shelf[t][r].headers) \in Nat \ {0}
    BY <1>1 DEF Frame
<1> QED
    BY <1>1, <1>2, <1>3, <1>5, <1>6

(* TargetOrder lists targets. *)
LEMMA TargetTyped ==
    /\ Len(TargetOrder) \in Nat \ {0}
    /\ \A i \in 1..Len(TargetOrder) : TargetOrder[i] \in Targets
    /\ 1 \in 1..Len(TargetOrder)
    /\ DOMAIN TargetOrder = 1..Len(TargetOrder)
BY SinkAssumption

(* Headers that agree on one run agree on the run of their manifest. *)
LEMMA HeadersAgree ==
    ASSUME NEW t \in Targets, NEW r \in Runs,
           \E s \in Runs : Shelf[t][r].runs = {s}
    PROVE  Shelf[t][r].runs = {r} /\ RunOf(Shelf[t][r]) = r
<1>1. Shelf[t][r].runs = {r}
    BY PublisherAssumption
<1>2. \A s \in Runs : Shelf[t][r].runs = {s} <=> s = r
    BY <1>1
<1> QED
    BY <1>1, <1>2 DEF RunOf

(* What is staged for a month of a target whose headers agree. *)
LEMMA ShardIsCanonical ==
    ASSUME NEW t \in Targets, NEW r \in Runs, NEW m, Shelf[t][r].runs = {r}
    PROVE  /\ ShardBytes(t, Shelf[t][r], m) = ShardOf(r, t, m)
           /\ RunOf(Shelf[t][r]) = r
BY HeadersAgree DEF ShardBytes, ShardOf

(* Canonical contents and records are well typed. *)
LEMMA CanonicalTyped ==
    ASSUME NEW r \in Runs
    PROVE  /\ \A t \in Targets, m \in Months :
                 ShardOf(r, t, m) \in ShardContents /\ RecordOf(r, t, m) \in ShardRecords
           /\ RecordsOf(r) \subseteq ShardRecords
           /\ FactsOf(r) \in RunFacts
<1>1. \A t \in Targets, m \in Months : ShardOf(r, t, m) \in ShardContents
    BY ShelfTyped DEF ShardOf, ShardContents, Frame
<1>2. \A t \in Targets, m \in Months : RecordOf(r, t, m) \in ShardRecords
    BY <1>1 DEF RecordOf, ShardRecord, ShardRecords, ShardName
<1>3. /\ MonthsOf(Shelf[TargetOrder[1]][r]) \subseteq Months
      /\ CellsOf(Shelf[TargetOrder[1]][r]) \subseteq Cells
    BY ShelfTyped, TargetTyped
<1>4. RecordsOf(r) \subseteq ShardRecords
    BY DEF RecordsOf
<1>5. FactsOf(r) \in RunFacts
    BY <1>3 DEF FactsOf, RunFacts
<1> QED
    BY <1>1, <1>2, <1>4, <1>5

(* The sidecar of cells a lookup knows. *)
LEMMA SidecarTyped ==
    ASSUME NEW g \in Lookups, NEW gids, gids \subseteq DOMAIN g
    PROVE  SidecarBytes(g, gids) \in SidecarContents
<1>1. PICK known \in SUBSET Cells : g \in [known -> Geographies]
    BY SinkAssumption DEF Tables
<1>2. gids \in SUBSET Cells /\ gids \subseteq known
    BY <1>1
<1>3. [c \in gids |-> g[c]] \in [gids -> Geographies]
    BY <1>1, <1>2
<1>4. [c \in gids |-> g[c]] \in Tables
    BY <1>2, <1>3 DEF Tables
<1> QED
    BY <1>4 DEF SidecarBytes, SidecarContents

(* A name determines its kind, run, target and month. *)
LEMMA NamesDistinct ==
    /\ \A r, s, t, u, m, n :
          ShardName(r, t, m) = ShardName(s, u, n) <=> r = s /\ t = u /\ m = n
    /\ \A r, s : SidecarName(r) = SidecarName(s) <=> r = s
    /\ \A r, s : ManifestName(r) = ManifestName(s) <=> r = s
    /\ \A r, s, t, m : /\ ShardName(r, t, m) # SidecarName(s)
                       /\ ShardName(r, t, m) # ManifestName(s)
                       /\ SidecarName(r) # ManifestName(s)
    /\ \A r, t, m : /\ ShardName(r, t, m).run = r
                    /\ SidecarName(r).run = r /\ ManifestName(r).run = r
BY DEF ShardName, SidecarName, ManifestName

(* The names the sink gives its files are file names.                       *)
LEMMA NamesTyped ==
    ASSUME NEW r \in Runs
    PROVE  /\ \A t \in Targets, m \in Months : ShardName(r, t, m) \in FileNames
           /\ SidecarName(r) \in FileNames
           /\ ManifestName(r) \in FileNames
BY DEF ShardName, SidecarName, ManifestName, FileNames

-----------------------------------------------------------------------------
(* The inductive invariant, layer by layer. *)

(* The bucket may also hold the historical artifacts that DeliveryManager   *)
(* ships; to the sink they are files of another type.                       *)
ArtifactFile ==
    [name : [kind : {"history"}, launch : Launches], type : {HistoryType},
     category : {Historical}, content : [kind : {"history"}, rows : SUBSET (Months \X Cells)],
     documented : BOOLEAN, by : Launches]

BucketFile == File \cup ArtifactFile

SinkTypes ==
    /\ bucket \in Seq(BucketFile)
    /\ phase \in [Launches -> {"idle"} \cup Running \cup Finished]
    /\ run \in [Launches -> Runs \cup {None}]
    /\ config \in [Launches -> Configs \cup {None}]
    /\ at \in [Launches -> 0..Len(TargetOrder)]
    /\ sliced \in [Launches -> Nat]
    /\ reference \in [Launches -> RunFacts \cup {None}]
    /\ pen \in [Launches -> {"closed", "open", "clashing", "written"}]
    /\ records \in [Launches -> Seq(ShardRecords)]
    /\ sidecar \in [Launches -> SidecarRecords \cup {None}]
    /\ ledger \in [Launches -> Seq(LedgerEntry)]
    /\ failedOn \in [Launches -> FileNames \cup {None}]
    /\ staging \in [FileNames -> Contents \cup {Partial, None}]
    /\ disturbed \in [Launches -> BOOLEAN]

(* Target i of launch l is sound and has the facts of the first. *)
FrameOf(l, i) == Shelf[TargetOrder[i]][run[l]]

Accepted(l, i) ==
    /\ DrawsUncollapsed(FrameOf(l, i))
    /\ FrameOf(l, i).runs = {run[l]}
    /\ Facts(FrameOf(l, i)) = FactsOf(run[l])

HasRows(l, i) == \A m \in MonthsOf(FrameOf(l, i)) : FrameOf(l, i).cells[m] # {}

Assembled == {"sidecar", "manifest", "uploading", "delivered"}
Recording == {"manifest", "uploading", "delivered"}
Stopped   == {"staged", "refused", "torn", "crashed"}

(* Where launch l stands in the loop over targets, and what is known of     *)
(* the targets it has been through.                                         *)
Progress(l) ==
    /\ phase[l] = "idle" => /\ run[l] = None /\ at[l] = 0 /\ sliced[l] = 0
                            /\ reference[l] = None /\ records[l] = <<>> /\ ledger[l] = <<>>
    /\ phase[l] # "idle" => run[l] \in Runs /\ config[l] \in Configs
    /\ phase[l] \in {"idle", "loading"} => pen[l] = "closed"
    /\ phase[l] \in Writing /\ pen[l] # "closed" => CanBeBuilt(l)
    /\ \A i \in 1..at[l] : Accepted(l, i) /\ HasRows(l, i)
    /\ phase[l] = "loading" =>
          /\ sliced[l] = 0
          /\ reference[l] = IF at[l] = 0 THEN None ELSE FactsOf(run[l])
    /\ phase[l] = "slicing" =>
          /\ at[l] < Len(TargetOrder)
          /\ sliced[l] < Len(FrameOf(l, at[l] + 1).headers)
          /\ Accepted(l, at[l] + 1)
          /\ \A j \in 1..sliced[l] :
                FrameOf(l, at[l] + 1).cells[FrameOf(l, at[l] + 1).headers[j]] # {}
    /\ phase[l] \in {"slicing"} \cup Assembled => reference[l] = FactsOf(run[l])
    /\ phase[l] \in Assembled => at[l] = Len(TargetOrder) /\ sliced[l] = 0
    /\ phase[l] \in Recording => /\ CellsOf(FrameOf(l, 1)) \subseteq DOMAIN config[l].lookup
                                 /\ sidecar[l] \in SidecarRecords
                                 /\ sidecar[l].name = SidecarName(run[l])
    /\ phase[l] \in {"uploading", "delivered"} => config[l].enabled
    /\ phase[l] \in Running \ {"uploading"} => ledger[l] = <<>>

(* The months launch l has been through, target by target; shard_records    *)
(* has one record for each and no other.                                    *)
Past(l, i, m) ==
    \/ i \in 1..at[l] /\ m \in MonthsOf(FrameOf(l, i))
    \/ i = at[l] + 1 /\ \E j \in 1..sliced[l] : m = FrameOf(l, i).headers[j]

NamedFor(e, r, t, m) == e.name = ShardName(r, t, m) /\ e.target = t /\ e.month = m

(* What the records name is settled by the run; what they pin, by the run   *)
(* and the lookup, if nobody wrote beneath the launch.                      *)
Recorded(l) ==
    /\ \A k \in 1..Len(records[l]) : \E i \in 1..Len(TargetOrder), m \in Months :
          Past(l, i, m) /\ NamedFor(records[l][k], run[l], TargetOrder[i], m)
    /\ \A i \in 1..Len(TargetOrder), m \in Months : Past(l, i, m) =>
          \E k \in 1..Len(records[l]) : NamedFor(records[l][k], run[l], TargetOrder[i], m)
    /\ ~disturbed[l] => \A k \in 1..Len(records[l]) :
          records[l][k].sha256 = ShardOf(run[l], records[l][k].target, records[l][k].month)
    /\ ~disturbed[l] /\ phase[l] \in Recording =>
          sidecar[l].sha256 = SidecarOf(run[l], config[l].lookup)

(* What a file of the staging tree may hold by its name; no shard of a      *)
(* target whose draws are collapsed.                                        *)
ManifestsOf(r) == {c \in ManifestContents : c.run = r}

Fits(n, content) ==
    /\ \A r \in Runs, t \in Targets, m \in Months : n = ShardName(r, t, m) =>
          content \in {Partial, ShardOf(r, t, m)} /\ DrawsUncollapsed(Shelf[t][r])
    /\ \A r \in Runs : n = SidecarName(r) => content \in SidecarContents \cup {Partial}
    /\ \A r \in Runs : n = ManifestName(r) => content \in ManifestsOf(r) \cup {Partial}

Canonical == \A n \in FileNames : staging[n] = None \/ Fits(n, staging[n])

(* What a running launch has staged is there ...                            *)
There(n) == Fits(n, staging[n])

Present(l) ==
    phase[l] \in Running =>
        /\ \A k \in 1..Len(records[l]) : There(records[l][k].name)
        /\ phase[l] \in Recording => There(SidecarName(run[l]))
        /\ phase[l] = "uploading" => There(ManifestName(run[l]))
        /\ phase[l] \in Writing /\ pen[l] = "written" => There(AtHand(l))

(* ... and, as long as nobody wrote beneath it, as it wrote it.             *)
Held(l) ==
    phase[l] \in Running /\ ~disturbed[l] =>
        /\ pen[l] # "clashing"
        /\ \A k \in 1..Len(records[l]) : staging[records[l][k].name] = records[l][k].sha256
        /\ phase[l] \in Recording => staging[SidecarName(run[l])] = sidecar[l].sha256
        /\ phase[l] = "uploading" =>
              staging[ManifestName(run[l])] = ManifestOf(run[l], config[l].lookup)
        /\ phase[l] \in Writing /\ pen[l] = "written" => staging[AtHand(l)] = BytesAtHand(l)

LaunchInv(l) == Progress(l) /\ Recorded(l) /\ Present(l) /\ Held(l)

StepInv == SinkTypes /\ Canonical /\ \A l \in Launches : LaunchInv(l)

(* StepInv holds when nothing has happened.                                 *)
LEMMA InitStepInv == Init => StepInv
<1> SUFFICES ASSUME Init PROVE StepInv
    OBVIOUS
<1>1. SinkTypes
    BY DEF Init, SinkTypes
<1>2. Canonical
    BY DEF Init, Canonical
<1>3. ASSUME NEW l \in Launches PROVE LaunchInv(l)
    <2>1. /\ phase[l] = "idle" /\ run[l] = None /\ at[l] = 0 /\ sliced[l] = 0
          /\ reference[l] = None /\ records[l] = <<>> /\ ledger[l] = <<>> /\ pen[l] = "closed"
        BY <1>3 DEF Init
    <2>2. Progress(l)
        BY <2>1 DEF Progress, Assembled, Recording, Running, Writing
    <2>3. Recorded(l)
        <3>1. \A i \in 1..Len(TargetOrder) : \A m : ~Past(l, i, m)
            BY <2>1 DEF Past
        <3> QED
            BY <2>1, <3>1 DEF Recorded, Recording
    <2>4. Present(l) /\ Held(l)
        BY <2>1 DEF Present, Held, Running, Writing
    <2> QED
        BY <2>2, <2>3, <2>4 DEF LaunchInv
<1> QED
    BY <1>1, <1>2, <1>3 DEF StepInv

-----------------------------------------------------------------------------
(* What launch l writes next.                                               *)

(* Between the first target and the end the reference is the run's facts.   *)
LEMMA ReferenceIsTheRun ==
    ASSUME StepInv, NEW l \in Launches, phase[l] \in {"slicing"} \cup Assembled
    PROVE  /\ run[l] \in Runs /\ config[l] \in Configs
           /\ reference[l] = FactsOf(run[l])
           /\ reference[l].run = run[l]
           /\ reference[l].cells = CellsOf(FrameOf(l, 1))
           /\ reference[l].months = MonthsOf(FrameOf(l, 1))
           /\ phase[l] \in Assembled => at[l] = Len(TargetOrder) /\ sliced[l] = 0
<1>1. Progress(l) /\ phase[l] # "idle"
    BY DEF StepInv, LaunchInv, Assembled
<1>2. run[l] \in Runs /\ config[l] \in Configs
    BY <1>1 DEF Progress
<1>3. reference[l] = FactsOf(run[l])
    BY <1>1 DEF Progress
<1>4. phase[l] \in Assembled => at[l] = Len(TargetOrder) /\ sliced[l] = 0
    BY <1>1 DEF Progress
<1> QED
    BY <1>2, <1>3, <1>4 DEF FactsOf, FrameOf

(* The month launch l is about to slice.                                    *)
LEMMA MonthAtHand ==
    ASSUME StepInv, NEW l \in Launches, phase[l] = "slicing"
    PROVE  LET i == at[l] + 1
               f == FrameOf(l, i)
               m == f.headers[sliced[l] + 1]
           IN  /\ at[l] \in Nat /\ i \in 1..Len(TargetOrder) /\ TargetOrder[i] \in Targets
               /\ sliced[l] \in Nat /\ sliced[l] + 1 \in 1..Len(f.headers)
               /\ f \in Frame /\ Len(f.headers) \in Nat /\ DOMAIN f.headers = 1..Len(f.headers)
               /\ Accepted(l, i) /\ m \in Months /\ m \in MonthsOf(f)
               /\ Loaded(l) = f /\ Target(l) = TargetOrder[i] /\ HeaderMonth(l) = m
               /\ run[l] \in Runs
<1> DEFINE i == at[l] + 1
           f == FrameOf(l, i)
           m == f.headers[sliced[l] + 1]
<1>1. Progress(l) /\ SinkTypes /\ run[l] \in Runs
    BY DEF StepInv, LaunchInv, Progress
<1>2. at[l] \in Nat /\ sliced[l] \in Nat /\ at[l] < Len(TargetOrder)
    BY <1>1, TargetTyped DEF SinkTypes, Progress
<1>3. i \in 1..Len(TargetOrder) /\ TargetOrder[i] \in Targets
    BY <1>2, TargetTyped
<1>4. sliced[l] < Len(f.headers) /\ Accepted(l, i)
    BY <1>1 DEF Progress
<1>5. f \in Frame
    BY <1>1, <1>3, ShelfTyped DEF FrameOf
<1>6. f.headers \in Seq(Months)
    BY <1>5 DEF Frame
<1>7. /\ Len(f.headers) \in Nat /\ sliced[l] + 1 \in 1..Len(f.headers)
      /\ DOMAIN f.headers = 1..Len(f.headers)
    <2> HIDE DEF f
    <2> QED
        BY <1>2, <1>4, <1>6
<1>8. m \in Months /\ m \in MonthsOf(f)
    BY <1>6, <1>7 DEF MonthsOf
<1>9. Loaded(l) = f /\ Target(l) = TargetOrder[i] /\ HeaderMonth(l) = m
    BY DEF Loaded, Target, FrameOf, HeaderMonth
<1> QED
    BY <1>1, <1>2, <1>3, <1>4, <1>5, <1>7, <1>8, <1>9

(* The file at hand: its name, and what is to be written to it.             *)
LEMMA FileAtHand ==
    ASSUME StepInv, NEW l \in Launches, phase[l] \in Writing
    PROVE  /\ AtHand(l) \in FileNames /\ AtHand(l).run = run[l]
           /\ phase[l] = "slicing" =>
                 LET i == at[l] + 1
                     m == FrameOf(l, i).headers[sliced[l] + 1]
                 IN  /\ AtHand(l) = ShardName(run[l], TargetOrder[i], m)
                     /\ BytesAtHand(l) = ShardOf(run[l], TargetOrder[i], m)
           /\ phase[l] = "sidecar" => /\ AtHand(l) = SidecarName(run[l])
                                      /\ BytesAtHand(l) = SidecarOf(run[l], config[l].lookup)
           /\ phase[l] = "manifest" =>
                 /\ AtHand(l) = ManifestName(run[l])
                 /\ BytesAtHand(l) = ManifestBytes(reference[l], records[l], sidecar[l])
<1>1. run[l] \in Runs /\ reference[l].run = run[l] /\ reference[l].cells = CellsOf(FrameOf(l, 1))
    BY ReferenceIsTheRun DEF Writing, Assembled
<1>2. CASE phase[l] = "slicing"
    <2> DEFINE i == at[l] + 1
               f == FrameOf(l, i)
               m == f.headers[sliced[l] + 1]
    <2>1. /\ TargetOrder[i] \in Targets /\ m \in Months /\ Accepted(l, i)
          /\ Loaded(l) = f /\ Target(l) = TargetOrder[i] /\ HeaderMonth(l) = m
        BY <1>2, MonthAtHand
    <2>2. f = Shelf[TargetOrder[i]][run[l]] /\ f.runs = {run[l]}
        BY <2>1 DEF Accepted, FrameOf
    <2>3. RunOf(f) = run[l] /\ ShardBytes(TargetOrder[i], f, m) = ShardOf(run[l], TargetOrder[i], m)
        <3> HIDE DEF f, m, i
        <3> QED
            BY <1>1, <2>1, <2>2, ShardIsCanonical
    <2>4. AtHand(l) = ShardName(RunOf(Loaded(l)), Target(l), HeaderMonth(l))
        BY <1>2 DEF AtHand
    <2>5. BytesAtHand(l) = ShardBytes(Target(l), Loaded(l), HeaderMonth(l))
        BY <1>2 DEF BytesAtHand
    <2>6. /\ AtHand(l) = ShardName(run[l], TargetOrder[i], m)
          /\ BytesAtHand(l) = ShardOf(run[l], TargetOrder[i], m)
        BY <2>1, <2>3, <2>4, <2>5
    <2>7. AtHand(l) \in FileNames /\ AtHand(l).run = run[l]
        BY <1>1, <2>1, <2>6, NamesTyped, NamesDistinct
    <2> QED
        BY <1>2, <2>6, <2>7
<1>3. CASE phase[l] = "sidecar"
    <2>1. /\ AtHand(l) = SidecarName(reference[l].run)
          /\ BytesAtHand(l) = SidecarBytes(config[l].lookup, reference[l].cells)
        BY <1>3 DEF AtHand, BytesAtHand
    <2> QED
        BY <1>1, <1>3, <2>1, NamesTyped, NamesDistinct DEF SidecarOf, FrameOf
<1>4. CASE phase[l] = "manifest"
    <2>1. /\ AtHand(l) = ManifestName(reference[l].run)
          /\ BytesAtHand(l) = ManifestBytes(reference[l], records[l], sidecar[l])
        BY <1>4 DEF AtHand, BytesAtHand
    <2> QED
        BY <1>1, <1>4, <2>1, NamesTyped, NamesDistinct
<1> QED
    BY <1>2, <1>3, <1>4 DEF Writing

(* What is written to a file fits its name.                                 *)
LEMMA BytesFit ==
    ASSUME StepInv, NEW l \in Launches, phase[l] \in Writing, CanBeBuilt(l)
    PROVE  /\ BytesAtHand(l) \in Contents
           /\ Fits(AtHand(l), BytesAtHand(l)) /\ Fits(AtHand(l), Partial)
<1>1. run[l] \in Runs /\ config[l] \in Configs /\ reference[l] = FactsOf(run[l])
    BY ReferenceIsTheRun DEF Writing, Assembled
<1>2. CASE phase[l] = "slicing"
    <2> DEFINE i == at[l] + 1
               m == FrameOf(l, i).headers[sliced[l] + 1]
    <2>1. TargetOrder[i] \in Targets /\ m \in Months /\ Accepted(l, i)
        BY <1>2, MonthAtHand
    <2>2. /\ AtHand(l) = ShardName(run[l], TargetOrder[i], m)
          /\ BytesAtHand(l) = ShardOf(run[l], TargetOrder[i], m)
        BY <1>2, FileAtHand DEF Writing
    <2>3. DrawsUncollapsed(Shelf[TargetOrder[i]][run[l]])
        BY <2>1 DEF Accepted, FrameOf
    <2> HIDE DEF i, m
    <2>4. ShardOf(run[l], TargetOrder[i], m) \in Contents
        BY <1>1, <2>1, CanonicalTyped DEF Contents
    <2> QED
        BY <2>2, <2>3, <2>4, NamesDistinct DEF Fits
<1>3. CASE phase[l] = "sidecar"
    <2>1. /\ AtHand(l) = SidecarName(run[l])
          /\ BytesAtHand(l) = SidecarBytes(config[l].lookup, reference[l].cells)
        BY <1>3, FileAtHand DEF Writing, BytesAtHand
    <2>2. reference[l].cells \subseteq DOMAIN config[l].lookup /\ config[l].lookup \in Lookups
        BY <1>1, <1>3 DEF CanBeBuilt, Configs
    <2>3. BytesAtHand(l) \in SidecarContents
        BY <2>1, <2>2, SidecarTyped
    <2> QED
        BY <2>1, <2>3, NamesDistinct DEF Fits, Contents
<1>4. CASE phase[l] = "manifest"
    <2>1. /\ AtHand(l) = ManifestName(run[l])
          /\ BytesAtHand(l) = ManifestBytes(reference[l], records[l], sidecar[l])
        BY <1>4, FileAtHand DEF Writing
    <2>2. /\ reference[l].run \in Runs /\ reference[l].months \subseteq Months
          /\ reference[l].cells = CellsOf(Shelf[TargetOrder[1]][run[l]])
        BY <1>1, CanonicalTyped DEF FactsOf, RunFacts
    <2>3. Cardinality(reference[l].cells) \in Nat
        BY <1>1, <2>2, ShelfTyped, TargetTyped
    <2>4. {records[l][k] : k \in DOMAIN records[l]} \subseteq ShardRecords
        BY DEF StepInv, SinkTypes
    <2>5. sidecar[l] \in SidecarRecords
        BY <1>4 DEF StepInv, LaunchInv, Progress, Recording
    <2>6. BytesAtHand(l) \in ManifestContents
        BY <2>1, <2>2, <2>3, <2>4, <2>5 DEF ManifestBytes, ManifestContents
    <2>7. BytesAtHand(l).run = run[l]
        BY <1>1, <2>1 DEF ManifestBytes, FactsOf
    <2> QED
        BY <2>1, <2>6, <2>7, NamesDistinct DEF Fits, Contents, ManifestsOf
<1> QED
    BY <1>2, <1>3, <1>4 DEF Writing

-----------------------------------------------------------------------------
(* A launch that stands still, or stops, keeps its part of the invariant,   *)
(* whatever file another launch writes: if the file is one of its run, that *)
(* launch has disturbed it.                                                 *)

Same(l) ==
    /\ run'[l] = run[l] /\ config'[l] = config[l] /\ at'[l] = at[l]
    /\ sliced'[l] = sliced[l] /\ reference'[l] = reference[l]
    /\ records'[l] = records[l] /\ sidecar'[l] = sidecar[l]

Stays(l) ==
    /\ \/ phase'[l] = phase[l] /\ (pen'[l] = "closed" <=> pen[l] = "closed")
       \/ phase[l] # "idle" /\ phase'[l] \in Stopped
    /\ Same(l) /\ ledger'[l] = ledger[l]
    /\ pen'[l] = "written" => pen[l] = "written"
    /\ disturbed[l] => disturbed'[l]

(* No file goes, and those of launch l are as they were.                    *)
NoneGone == \A n \in FileNames : There(n) => Fits(n, staging'[n])

Untouched(l) ==
    phase'[l] \in Running /\ ~disturbed'[l] =>
        /\ pen'[l] = "clashing" => pen[l] = "clashing"
        /\ \/ reference[l] = None
           \/ \A n \in FileNames : n.run = run[l] => staging'[n] = staging[n]

(* What only depends on the launch's own variables.                         *)
LEMMA StayFrames ==
    ASSUME NEW l \in Launches, Same(l)
    PROVE  /\ \A i : FrameOf(l, i)' = FrameOf(l, i)
           /\ \A i : (Accepted(l, i)' <=> Accepted(l, i)) /\ (HasRows(l, i)' <=> HasRows(l, i))
           /\ \A i, m : Past(l, i, m)' <=> Past(l, i, m)
<1>1. \A i : FrameOf(l, i)' = FrameOf(l, i)
    BY DEF Same, FrameOf
<1>2. \A i : (Accepted(l, i)' <=> Accepted(l, i)) /\ (HasRows(l, i)' <=> HasRows(l, i))
    BY <1>1 DEF Same, Accepted, HasRows
<1>3. \A i, m : Past(l, i, m)' <=> Past(l, i, m)
    BY <1>1 DEF Same, Past
<1> QED
    BY <1>1, <1>2, <1>3

LEMMA StayAtHand ==
    ASSUME NEW l \in Launches, Same(l), phase'[l] = phase[l], phase[l] \in Writing
    PROVE  /\ AtHand(l)' = AtHand(l) /\ BytesAtHand(l)' = BytesAtHand(l)
           /\ CanBeBuilt(l)' <=> CanBeBuilt(l)
<1>1. Loaded(l)' = Loaded(l) /\ Target(l)' = Target(l) /\ HeaderMonth(l)' = HeaderMonth(l)
    BY DEF Same, Loaded, Target, HeaderMonth
<1>2. CASE phase[l] = "slicing"
    <2>1. /\ AtHand(l) = ShardName(RunOf(Loaded(l)), Target(l), HeaderMonth(l))
          /\ BytesAtHand(l) = ShardBytes(Target(l), Loaded(l), HeaderMonth(l))
          /\ CanBeBuilt(l) <=> Loaded(l).cells[HeaderMonth(l)] # {}
        BY <1>2 DEF AtHand, BytesAtHand, CanBeBuilt
    <2>2. /\ AtHand(l)' = ShardName(RunOf(Loaded(l)), Target(l), HeaderMonth(l))'
          /\ BytesAtHand(l)' = ShardBytes(Target(l), Loaded(l), HeaderMonth(l))'
          /\ CanBeBuilt(l)' <=> Loaded(l)'.cells[HeaderMonth(l)'] # {}
        BY <1>2 DEF AtHand, BytesAtHand, CanBeBuilt
    <2> QED
        BY <1>1, <2>1, <2>2
<1>3. CASE phase[l] = "sidecar"
    <2>1. /\ AtHand(l) = SidecarName(reference[l].run)
          /\ BytesAtHand(l) = SidecarBytes(config[l].lookup, reference[l].cells)
          /\ CanBeBuilt(l) <=> reference[l].cells \subseteq DOMAIN config[l].lookup
        BY <1>3 DEF AtHand, BytesAtHand, CanBeBuilt
    <2>2. /\ AtHand(l)' = SidecarName(reference'[l].run)
          /\ BytesAtHand(l)' = SidecarBytes(config'[l].lookup, reference'[l].cells)
          /\ CanBeBuilt(l)' <=> reference'[l].cells \subseteq DOMAIN config'[l].lookup
        BY <1>3 DEF AtHand, BytesAtHand, CanBeBuilt
    <2> QED
        BY <2>1, <2>2 DEF Same
<1>4. CASE phase[l] = "manifest"
    <2>1. /\ AtHand(l) = ManifestName(reference[l].run)
          /\ BytesAtHand(l) = ManifestBytes(reference[l], records[l], sidecar[l])
          /\ CanBeBuilt(l)
        BY <1>4 DEF AtHand, BytesAtHand, CanBeBuilt
    <2>2. /\ AtHand(l)' = ManifestName(reference'[l].run)
          /\ BytesAtHand(l)' = ManifestBytes(reference'[l], records'[l], sidecar'[l])
          /\ CanBeBuilt(l)'
        BY <1>4 DEF AtHand, BytesAtHand, CanBeBuilt
    <2> QED
        BY <2>1, <2>2 DEF Same
<1> QED
    BY <1>2, <1>3, <1>4 DEF Writing

(* A launch whose part of the state stays keeps its Progress ...            *)
LEMMA StayProgress ==
    ASSUME NEW l \in Launches, Progress(l), Stays(l)
    PROVE  Progress(l)'
<1>1. /\ \A i : FrameOf(l, i)' = FrameOf(l, i)
      /\ \A i : (Accepted(l, i)' <=> Accepted(l, i)) /\ (HasRows(l, i)' <=> HasRows(l, i))
    BY StayFrames DEF Stays
<1>2. CASE phase'[l] = phase[l] /\ (pen'[l] = "closed" <=> pen[l] = "closed")
    <2>1. phase[l] \in Writing => (CanBeBuilt(l)' <=> CanBeBuilt(l))
        BY <1>2, StayAtHand DEF Stays
    <2>2. Same(l) /\ ledger'[l] = ledger[l] /\ phase'[l] = phase[l]
        BY <1>2 DEF Stays
    <2> QED
        BY <1>1, <1>2, <2>1, <2>2 DEF Progress, Same
<1>3. CASE phase[l] # "idle" /\ phase'[l] \in Stopped
    BY <1>1, <1>3 DEF Progress, Same, Stays, Stopped, Assembled, Recording, Running, Writing
<1> QED
    BY <1>2, <1>3 DEF Same, Stays

(* ... what it recorded ...                                                 *)
LEMMA StayRecorded ==
    ASSUME NEW l \in Launches, Recorded(l), Stays(l)
    PROVE  Recorded(l)'
<1>1. \A i, m : Past(l, i, m)' <=> Past(l, i, m)
    BY StayFrames DEF Stays
<1>2. /\ run'[l] = run[l] /\ config'[l] = config[l]
      /\ records'[l] = records[l] /\ sidecar'[l] = sidecar[l]
      /\ phase'[l] \in Recording => phase[l] \in Recording
      /\ ~disturbed'[l] => ~disturbed[l]
    BY DEF Same, Stays, Stopped, Recording
<1> QED
    BY <1>1, <1>2 DEF Recorded

(* The files launch l counts on are files of its run.                       *)
LEMMA CountedOn ==
    ASSUME StepInv, NEW l \in Launches, phase[l] \in Running
    PROVE  /\ \A k \in 1..Len(records[l]) :
                 records[l][k].name \in FileNames /\ records[l][k].name.run = run[l]
           /\ phase[l] \in {"slicing"} \cup Assembled =>
                 /\ SidecarName(run[l]) \in FileNames /\ SidecarName(run[l]).run = run[l]
                 /\ ManifestName(run[l]) \in FileNames /\ ManifestName(run[l]).run = run[l]
           /\ phase[l] \in Writing => AtHand(l) \in FileNames /\ AtHand(l).run = run[l]
           /\ reference[l] = None => phase[l] = "loading" /\ Len(records[l]) = 0
<1>1. Progress(l) /\ Recorded(l) /\ SinkTypes /\ run[l] \in Runs
    BY DEF StepInv, LaunchInv, Progress, Running, Writing
<1>2. ASSUME NEW k \in 1..Len(records[l])
      PROVE  records[l][k].name \in FileNames /\ records[l][k].name.run = run[l]
    <2>1. PICK i \in 1..Len(TargetOrder), m \in Months :
              NamedFor(records[l][k], run[l], TargetOrder[i], m)
        BY <1>1 DEF Recorded
    <2>2. TargetOrder[i] \in Targets
        BY TargetTyped
    <2> QED
        BY <1>1, <2>1, <2>2, NamesTyped, NamesDistinct DEF NamedFor
<1>3. reference[l] = None => phase[l] = "loading" /\ Len(records[l]) = 0
    <2> SUFFICES ASSUME reference[l] = None PROVE phase[l] = "loading" /\ Len(records[l]) = 0
        OBVIOUS
    <2>1. FactsOf(run[l]) # None
        BY <1>1, CanonicalTyped, NoneIsNothing
    <2>2. phase[l] = "loading" /\ at[l] = 0 /\ sliced[l] = 0
        BY <1>1, <2>1 DEF Progress, Running, Writing, Assembled
    <2>3. \A i \in 1..Len(TargetOrder), m \in Months : ~Past(l, i, m)
        BY <2>2 DEF Past
    <2>4. 1..Len(records[l]) = {}
        BY <1>1, <2>3 DEF Recorded
    <2>5. Len(records[l]) \in Nat
        BY <1>1 DEF SinkTypes
    <2> QED
        BY <2>2, <2>4, <2>5
<1> QED
    BY <1>1, <1>2, <1>3, NamesTyped, NamesDistinct, FileAtHand

(* ... and what it finds staged.                                            *)
LEMMA StayPresent ==
    ASSUME StepInv, NEW l \in Launches, Stays(l), NoneGone
    PROVE  Present(l)'
<1> SUFFICES ASSUME phase'[l] \in Running PROVE Present(l)'
    BY DEF Present
<1>1. phase'[l] = phase[l] /\ records'[l] = records[l] /\ run'[l] = run[l]
      /\ (pen'[l] = "written" => pen[l] = "written")
    BY DEF Same, Stays, Stopped, Running, Writing
<1>2. Present(l)
    BY DEF StepInv, LaunchInv
<1>3. phase[l] \in Writing => AtHand(l)' = AtHand(l)
    BY <1>1, StayAtHand DEF Stays
<1>4. /\ \A k \in 1..Len(records[l]) : There(records[l][k].name)'
      /\ phase[l] \in Recording => There(SidecarName(run[l]))'
      /\ phase[l] = "uploading" => There(ManifestName(run[l]))'
      /\ phase[l] \in Writing /\ pen[l] = "written" => There(AtHand(l))'
    <2>1. \A n \in FileNames : There(n) => There(n)'
        BY DEF NoneGone, There
    <2>2. /\ \A k \in 1..Len(records[l]) : records[l][k].name \in FileNames
          /\ phase[l] \in Recording => SidecarName(run[l]) \in FileNames
          /\ phase[l] = "uploading" => ManifestName(run[l]) \in FileNames
          /\ phase[l] \in Writing => AtHand(l) \in FileNames
        BY <1>1, CountedOn DEF Assembled, Recording
    <2> QED
        BY <1>1, <1>2, <1>3, <2>1, <2>2 DEF Present, There
<1> QED
    BY <1>1, <1>4 DEF Present

LEMMA StayHeld ==
    ASSUME StepInv, NEW l \in Launches, Stays(l), Untouched(l)
    PROVE  Held(l)'
<1> SUFFICES ASSUME phase'[l] \in Running, ~disturbed'[l] PROVE Held(l)'
    BY DEF Held
<1>1. /\ phase'[l] = phase[l] /\ records'[l] = records[l] /\ run'[l] = run[l]
      /\ sidecar'[l] = sidecar[l] /\ config'[l] = config[l]
      /\ pen'[l] = "written" => pen[l] = "written"
      /\ pen'[l] = "clashing" => pen[l] = "clashing"
      /\ ~disturbed[l]
    BY DEF Same, Stays, Stopped, Running, Writing, Untouched
<1>2. Held(l)
    BY DEF StepInv, LaunchInv
<1>3. phase[l] \in Writing => AtHand(l)' = AtHand(l) /\ BytesAtHand(l)' = BytesAtHand(l)
    BY <1>1, StayAtHand DEF Stays
<1>4. /\ pen[l] # "clashing"
      /\ \A k \in 1..Len(records[l]) : staging'[records[l][k].name] = records[l][k].sha256
      /\ phase[l] \in Recording => staging'[SidecarName(run[l])] = sidecar[l].sha256
      /\ phase[l] = "uploading" =>
            staging'[ManifestName(run[l])] = ManifestOf(run[l], config[l].lookup)
      /\ phase[l] \in Writing /\ pen[l] = "written" => staging'[AtHand(l)] = BytesAtHand(l)
    <2>1. CASE reference[l] = None
        <3>1. phase[l] = "loading" /\ Len(records[l]) = 0
            BY <1>1, <2>1, CountedOn
        <3>2. phase[l] \notin Recording /\ phase[l] # "uploading" /\ phase[l] \notin Writing
            BY <3>1 DEF Recording, Writing
        <3> QED
            BY <1>1, <1>2, <3>1, <3>2 DEF Held
    <2>2. CASE reference[l] # None
        <3>1. \A n \in FileNames : n.run = run[l] => staging'[n] = staging[n]
            BY <2>2 DEF Untouched
        <3>2. phase[l] \in Recording => phase[l] \in {"slicing"} \cup Assembled
            BY DEF Recording, Assembled
        <3>3. phase[l] = "uploading" => phase[l] \in Recording
            BY DEF Recording
        <3> QED
            BY <1>1, <1>2, <3>1, <3>2, <3>3, CountedOn DEF Held
    <2> QED
        BY <2>1, <2>2
<1>5. phase[l] \in Writing /\ pen[l] = "written" => staging'[AtHand(l)'] = BytesAtHand(l)'
    BY <1>3, <1>4
<1>6. pen'[l] # "clashing"
    BY <1>1, <1>4
<1> QED
    BY <1>1, <1>4, <1>5, <1>6 DEF Held

(* A step of one launch: what is left to show is that launch's own part. *)
LEMMA OwnPart ==
    ASSUME StepInv, NEW l \in Launches,
           SinkTypes', Canonical', NoneGone,
           \A q \in Launches : q # l => Stays(q) /\ Untouched(q),
           LaunchInv(l)'
    PROVE  StepInv'
<1>1. ASSUME NEW q \in Launches PROVE LaunchInv(q)'
    <2>1. CASE q = l
        BY <2>1
    <2>2. CASE q # l
        <3>1. Stays(q) /\ Untouched(q) /\ Progress(q) /\ Recorded(q)
            BY <2>2 DEF StepInv, LaunchInv
        <3>2. Progress(q)' /\ Recorded(q)'
            BY <3>1, StayProgress, StayRecorded
        <3>3. Present(q)' /\ Held(q)'
            BY <3>1, StayPresent, StayHeld
        <3> QED
            BY <3>2, <3>3 DEF LaunchInv
    <2> QED
        BY <2>1, <2>2
<1> QED
    BY <1>1 DEF StepInv

(* A step that writes no file.                                              *)
LEMMA NothingWritten ==
    ASSUME Canonical, UNCHANGED staging
    PROVE  Canonical' /\ NoneGone
BY DEF Canonical, NoneGone, There

(* A launch that stops: refused, torn, crashed or left staged. *)
LEMMA StopKeeps ==
    ASSUME StepInv, NEW l \in Launches, NEW p \in Stopped,
           phase[l] # "idle",
           phase' = [phase EXCEPT ![l] = p],
           pen' \in [Launches -> {"closed", "open", "clashing", "written"}],
           \A q \in Launches : q # l => pen'[q] = pen[q],
           pen'[l] = pen[l] \/ pen'[l] = "closed",
           UNCHANGED <<run, config, at, sliced, reference, records, sidecar, ledger, staging,
                       disturbed>>,
           failedOn' \in [Launches -> FileNames \cup {None}],
           bucket' \in Seq(BucketFile)
    PROVE  StepInv'
<1>1. SinkTypes'
    BY DEF StepInv, SinkTypes, Finished, Stopped
<1>2. Canonical' /\ NoneGone
    BY NothingWritten DEF StepInv
<1>3. \A q \in Launches : Stays(q)
    BY DEF StepInv, SinkTypes, Same, Stays
<1>4. \A q \in Launches : Untouched(q)
    BY DEF Untouched
<1>5. LaunchInv(l)'
    BY <1>2, <1>3, <1>4, StayProgress, StayRecorded, StayPresent, StayHeld DEF StepInv, LaunchInv
<1> QED
    BY <1>1, <1>2, <1>3, <1>4, <1>5, OwnPart

-----------------------------------------------------------------------------
(* Every action of a launch keeps the invariant. *)

(* Start, of deliver_run itself.                                            *)
LEMMA StartKeeps ==
    ASSUME StepInv, NEW l \in Launches, NEW r \in Runs, NEW c \in Configs, Start(l, r, c)
    PROVE  StepInv'
<1>1. SinkTypes'
    BY DEF StepInv, SinkTypes, Start, Goto, Running
<1>2. Canonical' /\ NoneGone
    BY NothingWritten DEF StepInv, Start
<1>3. \A q \in Launches : q # l => Stays(q) /\ Untouched(q)
    BY DEF StepInv, SinkTypes, Same, Stays, Untouched, Start, Goto
<1>4. /\ phase[l] = "idle" /\ phase'[l] = "loading"
      /\ run'[l] = r /\ config'[l] = c
      /\ UNCHANGED <<at, sliced, reference, pen, records, sidecar, ledger, staging, disturbed>>
    BY DEF StepInv, SinkTypes, Start, Goto
<1>5. /\ at[l] = 0 /\ sliced[l] = 0 /\ reference[l] = None
      /\ records[l] = <<>> /\ ledger[l] = <<>> /\ pen[l] = "closed"
    BY <1>4 DEF StepInv, LaunchInv, Progress
<1>6. Progress(l)'
    BY <1>4, <1>5 DEF Progress, Assembled, Recording, Running, Writing
<1>7. Recorded(l)'
    <2>1. \A i \in 1..Len(TargetOrder) : \A m : ~Past(l, i, m)'
        BY <1>4, <1>5 DEF Past
    <2> QED
        BY <1>4, <1>5, <2>1 DEF Recorded, Recording
<1>8. Present(l)' /\ Held(l)'
    BY <1>4, <1>5 DEF Present, Held, Recording, Running, Writing
<1> QED
    BY <1>1, <1>2, <1>3, <1>6, <1>7, <1>8, OwnPart DEF LaunchInv

(* A target that passes the gate has the facts of the first one. *)
LEMMA AcceptedTarget ==
    ASSUME StepInv, NEW l \in Launches,
           phase[l] = "loading", at[l] < Len(TargetOrder), Acceptable(l)
    PROVE  /\ at[l] + 1 \in 1..Len(TargetOrder)
           /\ Loaded(l) = FrameOf(l, at[l] + 1)
           /\ Facts(Loaded(l)) = FactsOf(run[l])
           /\ Accepted(l, at[l] + 1)
<1>1. /\ at[l] + 1 \in 1..Len(TargetOrder) /\ run[l] \in Runs
      /\ reference[l] = IF at[l] = 0 THEN None ELSE FactsOf(run[l])
    BY TargetTyped DEF StepInv, SinkTypes, LaunchInv, Progress
<1>2. Loaded(l) = FrameOf(l, at[l] + 1) /\ Target(l) \in Targets
    BY <1>1, TargetTyped DEF Loaded, Target, FrameOf
<1>3. Loaded(l).runs = {run[l]} /\ RunOf(Loaded(l)) = run[l]
    BY <1>1, <1>2, HeadersAgree DEF Acceptable, Loaded
<1>4. Facts(Loaded(l)) = FactsOf(run[l])
    <2>1. CASE at[l] = 0
        BY <1>2, <1>3, <2>1 DEF Facts, FactsOf, FrameOf
    <2>2. CASE at[l] # 0
        <3>1. FactsOf(run[l]) # None
            BY <1>1, CanonicalTyped, NoneIsNothing
        <3> QED
            BY <1>1, <2>2, <3>1 DEF Acceptable
    <2> QED
        BY <2>1, <2>2
<1>5. Accepted(l, at[l] + 1)
    BY <1>2, <1>3, <1>4 DEF Accepted, Acceptable
<1> QED
    BY <1>1, <1>2, <1>4, <1>5

(* AcceptTarget: the accepted target has the facts of the first.            *)
LEMMA AcceptTargetKeeps ==
    ASSUME StepInv, NEW l \in Launches, AcceptTarget(l)
    PROVE  StepInv'
<1>1. /\ phase[l] = "loading" /\ at[l] < Len(TargetOrder) /\ Acceptable(l)
      /\ phase'[l] = "slicing" /\ reference'[l] = Facts(Loaded(l))
      /\ UNCHANGED <<bucket, run, config, at, sliced, pen, records, sidecar, ledger, failedOn,
                     staging, disturbed>>
      /\ run[l] \in Runs /\ config[l] \in Configs /\ sliced[l] = 0 /\ ledger[l] = <<>>
      /\ pen[l] = "closed"
    BY DEF StepInv, SinkTypes, LaunchInv, Progress, AcceptTarget, Goto, Running
<1>2. /\ at[l] + 1 \in 1..Len(TargetOrder)
      /\ reference'[l] = FactsOf(run[l]) /\ Accepted(l, at[l] + 1)
    BY <1>1, AcceptedTarget
<1>3. Len(FrameOf(l, at[l] + 1).headers) \in Nat \ {0}
    BY <1>1, <1>2, ShelfTyped, TargetTyped DEF FrameOf
<1>4. SinkTypes'
    <2>1. reference' \in [Launches -> RunFacts \cup {None}]
        BY <1>1, <1>2, CanonicalTyped DEF StepInv, SinkTypes, AcceptTarget
    <2> QED
        BY <2>1 DEF StepInv, SinkTypes, AcceptTarget, Goto, Running, Writing
<1>5. Canonical' /\ NoneGone
    BY <1>1, NothingWritten DEF StepInv
<1>6. \A q \in Launches : q # l => Stays(q) /\ Untouched(q)
    BY DEF StepInv, SinkTypes, Same, Stays, Untouched, AcceptTarget, Goto
<1>7. Progress(l)'
    <2>1. \A i : /\ FrameOf(l, i)' = FrameOf(l, i)
                 /\ Accepted(l, i)' <=> Accepted(l, i)
                 /\ HasRows(l, i)' <=> HasRows(l, i)
        BY <1>1 DEF FrameOf, Accepted, HasRows
    <2>2. \A i \in 1..at[l] : Accepted(l, i) /\ HasRows(l, i)
        BY DEF StepInv, LaunchInv, Progress
    <2> QED
        BY <1>1, <1>2, <1>3, <2>1, <2>2 DEF Progress, Assembled, Recording, Running
<1>8. Recorded(l)'
    <2>1. \A i, m : Past(l, i, m)' <=> Past(l, i, m)
        BY <1>1 DEF Past, FrameOf
    <2>2. phase'[l] \notin Recording /\ Recorded(l)
        BY <1>1 DEF Recording, StepInv, LaunchInv
    <2> QED
        BY <1>1, <2>1, <2>2 DEF Recorded
<1>9. Present(l)' /\ Held(l)'
    <2>1. Present(l) /\ Held(l)
        BY DEF StepInv, LaunchInv
    <2> QED
        BY <1>1, <2>1 DEF Present, Held, There, Recording, Running
<1> QED
    BY <1>4, <1>5, <1>6, <1>7, <1>8, <1>9, OwnPart DEF LaunchInv

(* The file at hand is none of those the launch has recorded.               *)
LEMMA AtHandIsNew ==
    ASSUME StepInv, NEW l \in Launches, phase[l] \in Writing
    PROVE  /\ \A k \in 1..Len(records[l]) : records[l][k].name # AtHand(l)
           /\ phase[l] \in Recording => SidecarName(run[l]) # AtHand(l)
<1>1. Recorded(l) /\ SinkTypes
    BY DEF StepInv, LaunchInv
<1>2. ASSUME NEW k \in 1..Len(records[l]) PROVE records[l][k].name # AtHand(l)
    <2>1. PICK x \in 1..Len(TargetOrder), n \in Months :
              Past(l, x, n) /\ records[l][k].name = ShardName(run[l], TargetOrder[x], n)
        BY <1>1 DEF Recorded, NamedFor
    <2>2. CASE phase[l] = "slicing"
        <3> DEFINE i == at[l] + 1
                   f == FrameOf(l, i)
                   m == f.headers[sliced[l] + 1]
        <3>1. /\ i \in 1..Len(TargetOrder) /\ at[l] \in Nat /\ sliced[l] \in Nat
              /\ sliced[l] + 1 \in 1..Len(f.headers) /\ Len(f.headers) \in Nat
              /\ DOMAIN f.headers = 1..Len(f.headers)
              /\ TargetOrder[i] \in Targets /\ run[l] \in Runs
            BY <2>2, MonthAtHand
        <3>2. AtHand(l) = ShardName(run[l], TargetOrder[i], m)
            BY <2>2, FileAtHand DEF Writing
        <3>3. CASE x \in 1..at[l]
            <4>1. x # i /\ x \in DOMAIN TargetOrder /\ i \in DOMAIN TargetOrder
                BY <3>1, <3>3, TargetTyped
            <4>2. TargetOrder[x] # TargetOrder[i]
                BY <4>1, SinkAssumption
            <4> HIDE DEF i, m
            <4> QED
                BY <2>1, <3>2, <4>2, NamesDistinct
        <3>4. CASE x = i /\ \E j \in 1..sliced[l] : n = f.headers[j]
            <4>1. PICK j \in 1..sliced[l] : n = f.headers[j]
                BY <3>4
            <4>2. j \in DOMAIN f.headers /\ sliced[l] + 1 \in DOMAIN f.headers /\ j # sliced[l] + 1
                BY <3>1
            <4>3. n # m
                <5>1. f = Shelf[TargetOrder[i]][run[l]]
                    BY DEF FrameOf
                <5> HIDE DEF f, i
                <5> QED
                    BY <3>1, <4>1, <4>2, <5>1, PublisherAssumption
            <4> HIDE DEF i, m
            <4> QED
                BY <2>1, <3>2, <4>3, NamesDistinct
        <3> QED
            BY <2>1, <3>3, <3>4 DEF Past
    <2>3. CASE phase[l] # "slicing"
        <3>1. AtHand(l) \in {SidecarName(run[l]), ManifestName(run[l])}
            BY <2>3, FileAtHand DEF Writing
        <3> QED
            BY <2>1, <3>1, NamesDistinct
    <2> QED
        BY <2>2, <2>3
<1>3. phase[l] \in Recording => SidecarName(run[l]) # AtHand(l)
    <2>1. phase[l] \in Recording => AtHand(l) = ManifestName(run[l])
        BY FileAtHand DEF Recording, Writing
    <2> QED
        BY <2>1, NamesDistinct
<1> QED
    BY <1>2, <1>3

(* Writing to the file at hand, or emptying it, as long as the launches at  *)
(* work on the same run are marked as disturbed.                            *)
LEMMA WriterKeeps ==
    ASSUME StepInv, NEW l \in Launches, phase[l] \in Writing, CanBeBuilt(l),
           NEW v \in {Partial, BytesAtHand(l)},
           staging' = [staging EXCEPT ![AtHand(l)] = v],
           pen' \in [Launches -> {"closed", "open", "clashing", "written"}],
           disturbed' \in [Launches -> BOOLEAN],
           \A q \in Launches : disturbed[q] => disturbed'[q],
           \A q \in Neighbours(l) : disturbed'[q],
           \A q \in Launches : q # l =>
               \/ pen'[q] = pen[q]
               \/ pen[q] = "open" /\ pen'[q] = "clashing" /\ disturbed'[q]
               \/ pen[q] = "clashing" /\ pen'[q] = "clashing",
           pen'[l] # "closed",
           ~disturbed'[l] => pen'[l] # "clashing",
           ~disturbed'[l] /\ pen'[l] = "written" => v = BytesAtHand(l),
           UNCHANGED <<bucket, phase, run, config, at, sliced, reference, records, sidecar,
                       ledger, failedOn>>
    PROVE  StepInv'
<1>1. /\ AtHand(l) \in FileNames /\ AtHand(l).run = run[l]
      /\ v \in Contents \cup {Partial} /\ Fits(AtHand(l), v)
    BY FileAtHand, BytesFit
<1>2. SinkTypes /\ Canonical /\ LaunchInv(l)
    BY DEF StepInv
<1>3. \A n \in FileNames : staging'[n] = IF n = AtHand(l) THEN v ELSE staging[n]
    BY <1>2 DEF SinkTypes
<1>4. SinkTypes'
    <2>1. staging' \in [FileNames -> Contents \cup {Partial, None}]
        BY <1>1, <1>2 DEF SinkTypes
    <2> QED
        BY <1>2, <2>1 DEF SinkTypes
<1>5. Canonical' /\ NoneGone
    BY <1>1, <1>2, <1>3 DEF Canonical, NoneGone, There
<1>6. ASSUME NEW q \in Launches, q # l PROVE Stays(q) /\ Untouched(q)
    <2>1. Stays(q)
        BY <1>2, <1>6 DEF SinkTypes, Same, Stays
    <2>2. ASSUME phase'[q] \in Running, ~disturbed'[q], reference[q] # None,
                 NEW n \in FileNames, n.run = run[q]
          PROVE  staging'[n] = staging[n]
        <3>1. q \notin Neighbours(l)
            BY <2>2
        <3>2. reference[q].run # reference[l].run
            BY <1>6, <2>2, <3>1 DEF Neighbours
        <3>3. reference[l].run = run[l]
            BY ReferenceIsTheRun DEF Writing, Assembled
        <3>4. reference[q].run = run[q]
            <4>1. Progress(q) /\ phase[q] \in Running
                BY <2>2 DEF StepInv, LaunchInv
            <4>2. reference[q] = FactsOf(run[q])
                BY <2>2, <4>1 DEF Progress, Running, Writing, Assembled
            <4> QED
                BY <4>2 DEF FactsOf
        <3> QED
            BY <1>1, <1>3, <2>2, <3>2, <3>3, <3>4
    <2>3. ~disturbed'[q] /\ pen'[q] = "clashing" => pen[q] = "clashing"
        BY <1>6
    <2>4. Untouched(q)
        BY <2>2, <2>3 DEF Untouched
    <2> QED
        BY <2>1, <2>4
<1>7. /\ Same(l) /\ phase'[l] = phase[l]
      /\ AtHand(l)' = AtHand(l) /\ BytesAtHand(l)' = BytesAtHand(l)
      /\ CanBeBuilt(l)' <=> CanBeBuilt(l)
    <2>1. Same(l) /\ phase'[l] = phase[l]
        BY DEF Same
    <2> QED
        BY <2>1, StayAtHand
<1>8. Progress(l)'
    <2>1. /\ \A i : FrameOf(l, i)' = FrameOf(l, i)
          /\ \A i : (Accepted(l, i)' <=> Accepted(l, i)) /\ (HasRows(l, i)' <=> HasRows(l, i))
        BY <1>7, StayFrames
    <2>2. Progress(l) /\ CanBeBuilt(l)' /\ phase[l] \notin {"idle", "loading"}
        BY <1>2, <1>7 DEF LaunchInv, Writing
    <2> QED
        BY <1>7, <2>1, <2>2 DEF Progress
<1>9. Recorded(l)'
    <2>1. \A i, m : Past(l, i, m)' <=> Past(l, i, m)
        BY <1>7, StayFrames
    <2>2. Recorded(l) /\ (~disturbed'[l] => ~disturbed[l])
        BY <1>2 DEF LaunchInv
    <2> QED
        BY <2>1, <2>2 DEF Recorded
<1>10. phase[l] \in Running /\ phase[l] # "uploading"
    BY DEF Running, Writing
<1>11. /\ \A k \in 1..Len(records[l]) :
             records[l][k].name \in FileNames /\ records[l][k].name # AtHand(l)
       /\ phase[l] \in Recording =>
             SidecarName(run[l]) \in FileNames /\ SidecarName(run[l]) # AtHand(l)
    BY <1>10, CountedOn, AtHandIsNew DEF Recording, Assembled
<1>12. Present(l)'
    <2>1. /\ \A k \in 1..Len(records[l]) : There(records[l][k].name)
          /\ phase[l] \in Recording => There(SidecarName(run[l]))
        BY <1>2, <1>10 DEF LaunchInv, Present
    <2>2. \A n \in FileNames : There(n) => There(n)'
        BY <1>5 DEF NoneGone, There
    <2>3. /\ \A k \in 1..Len(records[l]) : There(records[l][k].name)'
          /\ phase[l] \in Recording => There(SidecarName(run[l]))'
        BY <1>11, <2>1, <2>2
    <2>4. Fits(AtHand(l), staging'[AtHand(l)])
        BY <1>1, <1>3
    <2>5. There(AtHand(l))'
        BY <1>7, <2>4 DEF There
    <2> QED
        BY <1>7, <1>10, <2>3, <2>5 DEF Present
<1>13. Held(l)'
    <2> SUFFICES ASSUME ~disturbed'[l] PROVE Held(l)'
        BY DEF Held
    <2>1. /\ \A k \in 1..Len(records[l]) : staging[records[l][k].name] = records[l][k].sha256
          /\ phase[l] \in Recording => staging[SidecarName(run[l])] = sidecar[l].sha256
        BY <1>2, <1>10 DEF LaunchInv, Held
    <2>2. /\ \A k \in 1..Len(records[l]) : staging'[records[l][k].name] = records[l][k].sha256
          /\ phase[l] \in Recording => staging'[SidecarName(run[l])] = sidecar[l].sha256
        BY <1>3, <1>11, <2>1
    <2>3. pen'[l] = "written" => staging'[AtHand(l)'] = BytesAtHand(l)'
        BY <1>1, <1>3, <1>7
    <2> QED
        BY <1>7, <1>10, <2>2, <2>3 DEF Held
<1> QED
    BY <1>4, <1>5, <1>6, <1>8, <1>9, <1>12, <1>13, OwnPart DEF LaunchInv

(* OpenFile.                                                                *)
LEMMA OpenFileKeeps ==
    ASSUME StepInv, NEW l \in Launches, OpenFile(l)
    PROVE  StepInv'
<1>1. /\ phase[l] \in Writing /\ CanBeBuilt(l)
      /\ staging' = [staging EXCEPT ![AtHand(l)] = Partial]
      /\ UNCHANGED <<bucket, phase, run, config, at, sliced, reference, records, sidecar,
                     ledger, failedOn>>
    BY DEF OpenFile
<1>2. /\ pen \in [Launches -> {"closed", "open", "clashing", "written"}]
      /\ disturbed \in [Launches -> BOOLEAN]
    BY DEF StepInv, SinkTypes
<1>3. /\ pen' = [k \in Launches |->
                  IF k \in Clashing(l) THEN "clashing" ELSE IF k = l THEN "open" ELSE pen[k]]
      /\ disturbed' = [k \in Launches |->
                        disturbed[k] \/ k \in Neighbours(l) \cup Clashing(l)]
    BY DEF OpenFile
<1>4. /\ pen' \in [Launches -> {"closed", "open", "clashing", "written"}]
      /\ disturbed' \in [Launches -> BOOLEAN]
    BY <1>2, <1>3
<1>5. /\ \A q \in Launches : disturbed[q] => disturbed'[q]
      /\ \A q \in Launches : q \in Clashing(l) => disturbed'[q]
      /\ \A q \in Neighbours(l) : disturbed'[q]
    BY <1>3 DEF Neighbours
<1>6. ASSUME NEW q \in Launches, q # l
      PROVE  \/ pen'[q] = pen[q]
             \/ pen[q] = "open" /\ pen'[q] = "clashing" /\ disturbed'[q]
             \/ pen[q] = "clashing" /\ pen'[q] = "clashing"
    <2>1. CASE q \notin Clashing(l)
        BY <1>3, <1>6, <2>1
    <2>2. CASE q \in Clashing(l)
        <3>1. pen[q] \in {"open", "clashing"}
            BY <1>6, <2>2 DEF Clashing, Rivals
        <3> QED
            BY <1>3, <1>5, <2>2, <3>1
    <2> QED
        BY <2>1, <2>2
<1>7. pen'[l] \in {"open", "clashing"} /\ (pen'[l] = "clashing" => disturbed'[l])
    BY <1>3, <1>5
<1> QED
    BY <1>1, <1>4, <1>5, <1>6, <1>7, WriterKeeps

(* WriteFile.                                                               *)
LEMMA WriteFileKeeps ==
    ASSUME StepInv, NEW l \in Launches, WriteFile(l)
    PROVE  StepInv'
<1>1. /\ phase[l] \in Writing /\ pen[l] \in {"open", "clashing"}
      /\ UNCHANGED <<bucket, phase, run, config, at, sliced, reference, records, sidecar,
                     ledger, failedOn>>
      /\ pen' = [pen EXCEPT ![l] = "written"]
      /\ disturbed' = [k \in Launches |-> disturbed[k] \/ k \in Neighbours(l)]
    BY DEF WriteFile
<1>2. CanBeBuilt(l)
    BY <1>1 DEF StepInv, LaunchInv, Progress
<1>3. PICK v \in {Partial, BytesAtHand(l)} :
          /\ staging' = [staging EXCEPT ![AtHand(l)] = v]
          /\ v # BytesAtHand(l) => pen[l] = "clashing"
    BY DEF WriteFile
<1>4. /\ pen \in [Launches -> {"closed", "open", "clashing", "written"}]
      /\ disturbed \in [Launches -> BOOLEAN]
    BY DEF StepInv, SinkTypes
<1>5. /\ pen' \in [Launches -> {"closed", "open", "clashing", "written"}]
      /\ disturbed' \in [Launches -> BOOLEAN]
      /\ \A q \in Launches : disturbed[q] => disturbed'[q]
      /\ \A q \in Neighbours(l) : disturbed'[q]
      /\ \A q \in Launches : q # l => pen'[q] = pen[q]
      /\ pen'[l] = "written"
    BY <1>1, <1>4 DEF Neighbours
<1>6. ~disturbed'[l] => v = BytesAtHand(l)
    <2>1. phase[l] \in Running /\ Held(l)
        BY <1>1 DEF StepInv, LaunchInv, Running
    <2> QED
        BY <1>3, <1>5, <2>1 DEF Held
<1> QED
    BY <1>1, <1>2, <1>3, <1>5, <1>6, WriterKeeps

(* What a reader makes of a staged file. *)
LEMMA ReadingsFit ==
    ASSUME NEW n \in FileNames, There(n), NEW hash \in Readings(n)
    PROVE  /\ \A r \in Runs, t \in Targets, m \in Months : n = ShardName(r, t, m) =>
                 hash \in {ShardOf(r, t, m)} \cup Fragments
           /\ \A r \in Runs : n = SidecarName(r) => hash \in SidecarContents \cup Fragments
           /\ \A r \in Runs : n = ManifestName(r) => hash \in ManifestsOf(r) \cup Fragments
           /\ staging[n] # Partial => hash = staging[n]
<1>1. CASE staging[n] = Partial
    BY <1>1 DEF Readings
<1>2. CASE staging[n] # Partial
    <2>1. hash = staging[n]
        BY <1>2 DEF Readings
    <2> QED
        BY <1>2, <2>1 DEF There, Fits
<1> QED
    BY <1>1, <1>2

(* No content is a partial one. *)
LEMMA WholeIsNotPartial ==
    /\ \A r, t, m : ShardOf(r, t, m) # Partial
    /\ \A r, g : SidecarOf(r, g) # Partial
    /\ \A r, g : ManifestOf(r, g) # Partial
<1>1. \A r, t, m : ShardOf(r, t, m).kind = "shard"
    BY DEF ShardOf
<1>2. \A r, g : SidecarOf(r, g).kind = "sidecar"
    BY DEF SidecarOf, SidecarBytes
<1>3. \A r, g : ManifestOf(r, g).kind = "manifest"
    BY DEF ManifestOf
<1>4. Partial.kind = "partial"
    BY DEF Partial
<1> QED
    BY <1>1, <1>2, <1>3, <1>4

(* RecordShard: one more record, and at the last month of a target one more *)
(* target.                                                                  *)
LEMMA RecordShardKeeps ==
    ASSUME StepInv, NEW l \in Launches, RecordShard(l)
    PROVE  StepInv'
<1> DEFINE i == at[l] + 1
           f == FrameOf(l, i)
           j == sliced[l] + 1
           m == f.headers[j]
           last == j = Len(f.headers)
           name == ShardName(run[l], TargetOrder[i], m)
           shard == ShardOf(run[l], TargetOrder[i], m)
<1>1. /\ phase[l] = "slicing" /\ pen[l] = "written" /\ CanBeBuilt(l)
      /\ config[l] \in Configs /\ ledger[l] = <<>> /\ reference[l] = FactsOf(run[l])
      /\ SinkTypes /\ Canonical /\ LaunchInv(l)
      /\ \A x \in 1..sliced[l] : f.cells[f.headers[x]] # {}
    <2>1. phase[l] = "slicing" /\ pen[l] = "written" /\ Progress(l)
          /\ SinkTypes /\ Canonical /\ LaunchInv(l)
        BY DEF StepInv, LaunchInv, RecordShard
    <2>2. config[l] \in Configs /\ ledger[l] = <<>> /\ reference[l] = FactsOf(run[l])
          /\ CanBeBuilt(l)
        BY <2>1 DEF Progress, Running, Writing
    <2>3. \A x \in 1..sliced[l] : f.cells[f.headers[x]] # {}
        BY <2>1 DEF Progress
    <2> QED
        BY <2>1, <2>2, <2>3
<1>2. /\ at[l] \in Nat /\ i \in 1..Len(TargetOrder) /\ TargetOrder[i] \in Targets
      /\ sliced[l] \in Nat /\ j \in 1..Len(f.headers) /\ Len(f.headers) \in Nat
      /\ DOMAIN f.headers = 1..Len(f.headers) /\ Len(TargetOrder) \in Nat
      /\ Accepted(l, i) /\ m \in Months /\ m \in MonthsOf(f)
      /\ Loaded(l) = f /\ Target(l) = TargetOrder[i] /\ HeaderMonth(l) = m
      /\ run[l] \in Runs
    BY <1>1, MonthAtHand, TargetTyped
<1>3. /\ AtHand(l) = name /\ BytesAtHand(l) = shard /\ name \in FileNames
    BY <1>1, FileAtHand DEF Writing
<1>4. f.cells[m] # {}
    BY <1>1, <1>2 DEF CanBeBuilt
<1>5. PICK hash \in Readings(name) :
          records' = [records EXCEPT ![l] = Append(@, ShardRecord(name, TargetOrder[i], m, hash))]
    BY <1>2, <1>3 DEF RecordShard
<1> DEFINE e == ShardRecord(name, TargetOrder[i], m, hash)
<1>6. /\ pen' = [pen EXCEPT ![l] = "closed"]
      /\ sliced' = [sliced EXCEPT ![l] = IF last THEN 0 ELSE @ + 1]
      /\ at' = [at EXCEPT ![l] = IF last THEN @ + 1 ELSE @]
      /\ phase' = [phase EXCEPT ![l] =
                      IF ~last THEN "slicing"
                      ELSE IF i = Len(TargetOrder) THEN "sidecar" ELSE "loading"]
      /\ UNCHANGED <<bucket, run, config, reference, sidecar, ledger, failedOn, staging, disturbed>>
    BY <1>2 DEF RecordShard, Goto
<1>7. There(name)
    BY <1>1, <1>3 DEF LaunchInv, Present, Running, Writing
<1>8. hash \in {shard} \cup Fragments /\ (staging[name] # Partial => hash = staging[name])
    <2> HIDE DEF i, m
    <2> QED
        BY <1>2, <1>3, <1>7, ReadingsFit
<1>9. ~disturbed[l] => staging[name] = shard /\ hash = shard
    <2>1. ~disturbed[l] => staging[name] = shard
        BY <1>1, <1>3 DEF LaunchInv, Held, Running, Writing
    <2>2. shard # Partial
        BY WholeIsNotPartial
    <2> HIDE DEF shard, name
    <2> QED
        BY <1>8, <2>1, <2>2
<1>10. /\ e \in ShardRecords /\ e.name = name /\ e.sha256 = hash
       /\ e.target = TargetOrder[i] /\ e.month = m
       /\ NamedFor(e, run[l], TargetOrder[i], m)
    <2>1. shard \in ShardContents
        BY <1>2, CanonicalTyped
    <2>2. hash \in ShardContents \cup Fragments
        BY <1>8, <2>1
    <2> HIDE DEF i, m, shard
    <2> QED
        BY <1>2, <2>2 DEF ShardRecord, ShardRecords, NamedFor, ShardName
<1>11. SinkTypes'
    <2> HIDE DEF e, last, j, i
    <2>1. phase' \in [Launches -> {"idle"} \cup Running \cup Finished]
        BY <1>1, <1>6 DEF SinkTypes, Running, Writing
    <2>2. at' \in [Launches -> 0..Len(TargetOrder)]
        BY <1>1, <1>2, <1>6 DEF SinkTypes, i
    <2>3. sliced' \in [Launches -> Nat] /\ pen' \in [Launches -> {"closed", "open", "clashing", "written"}]
        BY <1>1, <1>6 DEF SinkTypes
    <2>4. records' \in [Launches -> Seq(ShardRecords)]
        BY <1>1, <1>5, <1>10 DEF SinkTypes, e
    <2> QED
        BY <1>1, <1>6, <2>1, <2>2, <2>3, <2>4 DEF SinkTypes
<1>12. Canonical' /\ NoneGone
    BY <1>1, <1>6, NothingWritten
<1>13. \A q \in Launches : q # l => Stays(q) /\ Untouched(q)
    <2>1. \A q \in Launches : q # l => /\ phase'[q] = phase[q] /\ pen'[q] = pen[q]
                                       /\ at'[q] = at[q] /\ sliced'[q] = sliced[q]
                                       /\ records'[q] = records[q]
        BY <1>1, <1>5, <1>6 DEF SinkTypes
    <2> QED
        BY <1>6, <2>1 DEF Same, Stays, Untouched
<1>14. /\ phase'[l] = IF ~last THEN "slicing"
                      ELSE IF i = Len(TargetOrder) THEN "sidecar" ELSE "loading"
       /\ at'[l] = IF last THEN i ELSE at[l]
       /\ sliced'[l] = IF last THEN 0 ELSE j
       /\ records'[l] = Append(records[l], e) /\ pen'[l] = "closed"
    BY <1>1, <1>5, <1>6 DEF SinkTypes
<1>15. \A x : /\ FrameOf(l, x)' = FrameOf(l, x)
              /\ Accepted(l, x)' <=> Accepted(l, x)
              /\ HasRows(l, x)' <=> HasRows(l, x)
    BY <1>6 DEF FrameOf, Accepted, HasRows
<1>16. \A x \in 1..j : f.cells[f.headers[x]] # {}
    <2>1. \A x \in 1..j : x \in 1..sliced[l] \/ x = j
        BY <1>2
    <2> HIDE DEF f, j
    <2> QED
        BY <1>1, <1>4, <2>1
<1>17. last => HasRows(l, i) /\ MonthsOf(f) = {f.headers[x] : x \in 1..j}
    BY <1>2, <1>16 DEF HasRows, MonthsOf
<1>18. \A x \in 1..at'[l] : Accepted(l, x) /\ HasRows(l, x)
    <2>1. \A x \in 1..at[l] : Accepted(l, x) /\ HasRows(l, x)
        BY <1>1 DEF LaunchInv, Progress
    <2> QED
        BY <1>2, <1>14, <1>17, <2>1
<1>19. Progress(l)'
    <2>1. CASE ~last
        <3>1. /\ phase'[l] = "slicing" /\ at'[l] = at[l] /\ sliced'[l] = j
              /\ sliced'[l] < Len(f.headers) /\ pen'[l] = "closed"
            BY <1>2, <1>14, <2>1
        <3>2. /\ run'[l] = run[l] /\ config'[l] = config[l]
              /\ reference'[l] = reference[l] /\ ledger'[l] = ledger[l]
              /\ f' = f
            BY <1>6, <1>15, <3>1
        <3>3. /\ sliced'[l] < Len(FrameOf(l, at[l] + 1)'.headers)
              /\ Accepted(l, at[l] + 1)'
              /\ \A x \in 1..sliced'[l] :
                    FrameOf(l, at[l] + 1)'.cells[FrameOf(l, at[l] + 1)'.headers[x]] # {}
              /\ at'[l] < Len(TargetOrder)
            BY <1>2, <1>15, <1>16, <3>1, <3>2
        <3>4. \A x \in 1..at'[l] : Accepted(l, x)' /\ HasRows(l, x)'
            BY <1>15, <1>18
        <3> QED
            BY <1>1, <1>2, <3>1, <3>2, <3>3, <3>4 DEF Progress, Assembled, Recording, Running
    <2>2. CASE last
        <3>1. /\ phase'[l] = IF i = Len(TargetOrder) THEN "sidecar" ELSE "loading"
              /\ at'[l] = i /\ sliced'[l] = 0 /\ pen'[l] = "closed"
            BY <1>14, <2>2
        <3>2. /\ run'[l] \in Runs /\ config'[l] \in Configs
              /\ reference'[l] = FactsOf(run'[l]) /\ ledger'[l] = <<>>
            BY <1>1, <1>2, <1>6
        <3>3. \A x \in 1..at'[l] : Accepted(l, x)' /\ HasRows(l, x)'
            BY <1>15, <1>18
        <3>4. i # 0
            BY <1>2
        <3> HIDE DEF i, last
        <3> QED
            BY <3>1, <3>2, <3>3, <3>4 DEF Progress, Assembled, Recording, Running
    <2> QED
        BY <2>1, <2>2
<1>20. /\ records[l] \in Seq(ShardRecords) /\ Len(records[l]) \in Nat
       /\ Len(records'[l]) = Len(records[l]) + 1
       /\ \A k \in 1..Len(records[l]) : records'[l][k] = records[l][k]
       /\ records'[l][Len(records[l]) + 1] = e
    <2>1. records[l] \in Seq(ShardRecords)
        BY <1>1 DEF SinkTypes
    <2> HIDE DEF e
    <2> QED
        BY <1>10, <1>14, <2>1
<1>21. \A k \in 1..Len(records'[l]) : k \in 1..Len(records[l]) \/ k = Len(records[l]) + 1
    BY <1>20
<1>22. \A x \in 1..Len(TargetOrder), n \in Months :
          Past(l, x, n)' <=> Past(l, x, n) \/ (x = i /\ n = m)
    <2> SUFFICES ASSUME NEW x \in 1..Len(TargetOrder), NEW n \in Months
                 PROVE  Past(l, x, n)' <=> Past(l, x, n) \/ (x = i /\ n = m)
        OBVIOUS
    <2>0. Past(l, x, n)' <=> \/ x \in 1..at'[l] /\ n \in MonthsOf(FrameOf(l, x))
                             \/ x = at'[l] + 1 /\ \E y \in 1..sliced'[l] : n = FrameOf(l, x).headers[y]
        BY <1>15 DEF Past
    <2>1. (\E y \in 1..j : n = f.headers[y]) <=> (\E y \in 1..sliced[l] : n = f.headers[y]) \/ n = m
        <3>1. \A y : y \in 1..j <=> y \in 1..sliced[l] \/ y = j
            BY <1>2
        <3> HIDE DEF f, j
        <3> QED
            BY <3>1
    <2>2. CASE ~last
        <3>1. at'[l] = at[l] /\ sliced'[l] = j
            BY <1>14, <2>2
        <3> QED
            BY <2>0, <2>1, <3>1 DEF Past
    <2>3. CASE last
        <3>1. at'[l] = i /\ sliced'[l] = 0 /\ 1..sliced'[l] = {}
            BY <1>14, <2>3
        <3>2. x \in 1..i <=> x \in 1..at[l] \/ x = i
            BY <1>2
        <3>3. n \in MonthsOf(f) <=> \E y \in 1..j : n = f.headers[y]
            BY <1>17, <2>3
        <3>4. x = i => x \notin 1..at[l]
            BY <1>2
        <3> HIDE DEF m, j
        <3> QED
            BY <2>0, <2>1, <3>1, <3>2, <3>3, <3>4 DEF Past
    <2> QED
        BY <2>2, <2>3
<1>23. Recorded(l)'
    <2>1. ASSUME NEW k \in 1..Len(records'[l])
          PROVE  \E x \in 1..Len(TargetOrder), n \in Months :
                    Past(l, x, n)' /\ NamedFor(records'[l][k], run[l], TargetOrder[x], n)
        <3>1. CASE k \in 1..Len(records[l])
            <4>1. PICK x \in 1..Len(TargetOrder), n \in Months :
                      Past(l, x, n) /\ NamedFor(records[l][k], run[l], TargetOrder[x], n)
                BY <1>1, <3>1 DEF LaunchInv, Recorded
            <4>2. Past(l, x, n)'
                BY <1>22, <4>1
            <4> QED
                BY <1>20, <3>1, <4>1, <4>2
        <3>2. CASE k = Len(records[l]) + 1
            <4>1. PICK x \in 1..Len(TargetOrder), n \in Months : x = i /\ n = m
                BY <1>2
            <4>2. Past(l, x, n)'
                BY <1>22, <4>1
            <4>3. NamedFor(records'[l][k], run[l], TargetOrder[x], n)
                BY <1>10, <1>20, <3>2, <4>1
            <4> QED
                BY <4>2, <4>3
        <3> QED
            BY <1>21, <3>1, <3>2
    <2>2. ASSUME NEW x \in 1..Len(TargetOrder), NEW n \in Months, Past(l, x, n)'
          PROVE  \E k \in 1..Len(records'[l]) :
                    NamedFor(records'[l][k], run[l], TargetOrder[x], n)
        <3>1. CASE Past(l, x, n)
            <4>1. PICK k \in 1..Len(records[l]) : NamedFor(records[l][k], run[l], TargetOrder[x], n)
                BY <1>1, <3>1 DEF LaunchInv, Recorded
            <4>2. k \in 1..Len(records'[l]) /\ records'[l][k] = records[l][k]
                BY <1>20
            <4> QED
                BY <4>1, <4>2
        <3>2. CASE x = i /\ n = m
            <4>1. Len(records[l]) + 1 \in 1..Len(records'[l])
                BY <1>20
            <4>2. NamedFor(records'[l][Len(records[l]) + 1], run[l], TargetOrder[x], n)
                BY <1>10, <1>20, <3>2
            <4> QED
                BY <4>1, <4>2
        <3> QED
            BY <1>22, <2>2, <3>1, <3>2
    <2>3. ASSUME ~disturbed[l], NEW k \in 1..Len(records'[l])
          PROVE  records'[l][k].sha256
                     = ShardOf(run[l], records'[l][k].target, records'[l][k].month)
        <3>1. CASE k \in 1..Len(records[l])
            BY <1>1, <1>20, <2>3, <3>1 DEF LaunchInv, Recorded
        <3>2. CASE k = Len(records[l]) + 1
            BY <1>9, <1>10, <1>20, <2>3, <3>2
        <3> QED
            BY <1>21, <3>1, <3>2
    <2>4. phase'[l] \notin Recording
        BY <1>14 DEF Recording
    <2> QED
        BY <1>6, <2>1, <2>2, <2>3, <2>4 DEF Recorded
<1>24. Present(l)' /\ Held(l)'
    <2>1. Present(l) /\ Held(l) /\ phase[l] \in Running
        BY <1>1 DEF LaunchInv, Running, Writing
    <2>2. phase'[l] \notin Recording /\ phase'[l] # "uploading" /\ pen'[l] = "closed"
        BY <1>14 DEF Recording
    <2>3. \A k \in 1..Len(records'[l]) : There(records'[l][k].name)
        <3>1. \A k \in 1..Len(records[l]) : There(records[l][k].name)
            BY <2>1 DEF Present
        <3> HIDE DEF e, name
        <3> QED
            BY <1>7, <1>10, <1>20, <1>21, <3>1
    <2>4. ~disturbed[l] => \A k \in 1..Len(records'[l]) :
              staging[records'[l][k].name] = records'[l][k].sha256
        <3>1. ~disturbed[l] => \A k \in 1..Len(records[l]) :
                  staging[records[l][k].name] = records[l][k].sha256
            BY <2>1 DEF Held
        <3>2. ~disturbed[l] => staging[e.name] = e.sha256
            BY <1>9, <1>10
        <3> HIDE DEF e
        <3> QED
            BY <1>20, <1>21, <3>1, <3>2
    <2>5. Present(l)'
        BY <1>6, <2>2, <2>3 DEF Present, There
    <2>6. Held(l)'
        BY <1>6, <2>2, <2>4 DEF Held
    <2> QED
        BY <2>5, <2>6
<1> QED
    BY <1>11, <1>12, <1>13, <1>19, <1>23, <1>24, OwnPart DEF LaunchInv

(* RecordSidecar.                                                           *)
LEMMA RecordSidecarKeeps ==
    ASSUME StepInv, NEW l \in Launches, RecordSidecar(l)
    PROVE  StepInv'
<1> DEFINE name == SidecarName(run[l])
<1>1. /\ phase[l] = "sidecar" /\ pen[l] = "written" /\ CanBeBuilt(l)
      /\ SinkTypes /\ Canonical /\ LaunchInv(l) /\ ledger[l] = <<>>
    <2>1. phase[l] = "sidecar" /\ pen[l] = "written" /\ Progress(l)
          /\ SinkTypes /\ Canonical /\ LaunchInv(l)
        BY DEF StepInv, LaunchInv, RecordSidecar
    <2> QED
        BY <2>1 DEF Progress, Running, Writing
<1>2. /\ run[l] \in Runs /\ config[l] \in Configs /\ reference[l] = FactsOf(run[l])
      /\ reference[l].cells = CellsOf(FrameOf(l, 1))
      /\ at[l] = Len(TargetOrder) /\ sliced[l] = 0
    BY <1>1, ReferenceIsTheRun DEF Assembled
<1>3. /\ AtHand(l) = name /\ BytesAtHand(l) = SidecarOf(run[l], config[l].lookup)
      /\ name \in FileNames
    BY <1>1, FileAtHand DEF Writing
<1>4. CellsOf(FrameOf(l, 1)) \subseteq DOMAIN config[l].lookup
    BY <1>1, <1>2 DEF CanBeBuilt
<1>5. PICK hash \in Readings(name) :
          sidecar' = [sidecar EXCEPT ![l] = [name |-> name, sha256 |-> hash]]
    BY <1>3 DEF RecordSidecar
<1>6. /\ pen' = [pen EXCEPT ![l] = "closed"]
      /\ phase' = [phase EXCEPT ![l] = "manifest"]
      /\ UNCHANGED <<bucket, run, config, at, sliced, reference, records, ledger, failedOn,
                     staging, disturbed>>
    BY DEF RecordSidecar, Goto
<1>7. There(name)
    BY <1>1, <1>3 DEF LaunchInv, Present, Running, Writing
<1>8. hash \in SidecarContents \cup Fragments /\ (staging[name] # Partial => hash = staging[name])
    BY <1>2, <1>3, <1>7, ReadingsFit
<1>9. ~disturbed[l] => staging[name] = SidecarOf(run[l], config[l].lookup) /\ hash = staging[name]
    <2>1. ~disturbed[l] => staging[name] = SidecarOf(run[l], config[l].lookup)
        BY <1>1, <1>3 DEF LaunchInv, Held, Running, Writing
    <2> QED
        BY <1>8, <2>1, WholeIsNotPartial
<1>10. [name |-> name, sha256 |-> hash] \in SidecarRecords
    BY <1>2, <1>8 DEF SidecarRecords, SidecarName
<1>11. /\ phase'[l] = "manifest" /\ pen'[l] = "closed"
       /\ sidecar'[l] = [name |-> name, sha256 |-> hash]
       /\ \A q \in Launches : q # l => /\ phase'[q] = phase[q] /\ pen'[q] = pen[q]
                                       /\ sidecar'[q] = sidecar[q]
    BY <1>1, <1>5, <1>6 DEF SinkTypes
<1>12. SinkTypes'
    BY <1>1, <1>5, <1>6, <1>10 DEF SinkTypes, Running, Writing
<1>13. Canonical' /\ NoneGone
    BY <1>1, <1>6, NothingWritten
<1>14. \A q \in Launches : q # l => Stays(q) /\ Untouched(q)
    BY <1>6, <1>11 DEF Same, Stays, Untouched
<1>15. \A x : /\ FrameOf(l, x)' = FrameOf(l, x)
              /\ Accepted(l, x)' <=> Accepted(l, x)
              /\ HasRows(l, x)' <=> HasRows(l, x)
              /\ \A n : Past(l, x, n)' <=> Past(l, x, n)
    BY <1>6 DEF FrameOf, Accepted, HasRows, Past
<1>16. Progress(l)'
    <2>1. \A x \in 1..at[l] : Accepted(l, x) /\ HasRows(l, x)
        BY <1>1 DEF LaunchInv, Progress
    <2>2. sidecar'[l] \in SidecarRecords /\ sidecar'[l].name = SidecarName(run[l])
        BY <1>10, <1>11
    <2> QED
        BY <1>1, <1>2, <1>4, <1>6, <1>11, <1>15, <2>1, <2>2
           DEF Progress, Assembled, Recording, Running
<1>17. Recorded(l)'
    <2>1. Recorded(l)
        BY <1>1 DEF LaunchInv
    <2>2. ~disturbed[l] => sidecar'[l].sha256 = SidecarOf(run[l], config[l].lookup)
        BY <1>9, <1>11
    <2> QED
        BY <1>6, <1>15, <2>1, <2>2 DEF Recorded
<1>18. Present(l)' /\ Held(l)'
    <2>1. Present(l) /\ Held(l) /\ phase[l] \in Running
        BY <1>1 DEF LaunchInv, Running, Writing
    <2>2. Present(l)'
        BY <1>6, <1>7, <1>11, <2>1 DEF Present, There
    <2>3. ~disturbed[l] => staging[name] = sidecar'[l].sha256
        BY <1>9, <1>11
    <2>4. Held(l)'
        BY <1>6, <1>11, <2>1, <2>3 DEF Held
    <2> QED
        BY <2>2, <2>4
<1> QED
    BY <1>12, <1>13, <1>14, <1>16, <1>17, <1>18, OwnPart DEF LaunchInv

(* Once all targets are staged, the records are named for the run's months  *)
(* and for nothing else ...                                                 *)
LEMMA RecordsNamed ==
    ASSUME StepInv, NEW l \in Launches, phase[l] \in Assembled
    PROVE  /\ run[l] \in Runs /\ Len(records[l]) \in Nat
           /\ DOMAIN records[l] = 1..Len(records[l])
           /\ \A k \in 1..Len(records[l]) : \E e \in RecordsOf(run[l]) :
                 /\ records[l][k].name = e.name
                 /\ ~disturbed[l] => records[l][k] = e
           /\ \A e \in RecordsOf(run[l]) : \E k \in 1..Len(records[l]) :
                 /\ records[l][k].name = e.name
                 /\ ~disturbed[l] => records[l][k] = e
<1>1. /\ run[l] \in Runs /\ at[l] = Len(TargetOrder) /\ sliced[l] = 0
      /\ records[l] \in Seq(ShardRecords) /\ Recorded(l)
    BY ReferenceIsTheRun DEF StepInv, SinkTypes, LaunchInv
<1>2. Len(records[l]) \in Nat /\ DOMAIN records[l] = 1..Len(records[l])
    BY <1>1
<1>3. \A i \in 1..Len(TargetOrder) : \A m : Past(l, i, m) <=> m \in MonthsOf(Shelf[TargetOrder[i]][run[l]])
    <2>1. \A i \in 1..Len(TargetOrder) : i \in 1..at[l] /\ i # at[l] + 1
        BY <1>1, TargetTyped
    <2> QED
        BY <2>1 DEF Past, FrameOf
<1>4. ASSUME NEW i \in 1..Len(TargetOrder), NEW m \in MonthsOf(Shelf[TargetOrder[i]][run[l]])
      PROVE  RecordOf(run[l], TargetOrder[i], m) \in RecordsOf(run[l])
    <2>1. TargetOrder[i] \in Targets /\ m \in Months
        BY <1>1, <1>4, TargetTyped, ShelfTyped
    <2>2. RecordOf(run[l], TargetOrder[i], m) \in ShardRecords
        BY <1>1, <2>1, CanonicalTyped
    <2> QED
        BY <2>2, TargetTyped DEF RecordsOf
<1>5. ASSUME NEW k \in 1..Len(records[l]), NEW t, NEW m, NamedFor(records[l][k], run[l], t, m)
      PROVE  /\ records[l][k].name = RecordOf(run[l], t, m).name
             /\ ~disturbed[l] => records[l][k] = RecordOf(run[l], t, m)
    <2>1. records[l][k] \in ShardRecords
        BY <1>1
    <2>2. ~disturbed[l] => records[l][k].sha256 = ShardOf(run[l], t, m)
        BY <1>1, <1>5 DEF Recorded, NamedFor
    <2> DEFINE d == records[l][k]
    <2>3. d = [name |-> d.name, target |-> d.target, month |-> d.month, sha256 |-> d.sha256]
        BY <2>1 DEF ShardRecords
    <2>4. d.name = ShardName(run[l], t, m) /\ d.target = t /\ d.month = m
        BY <1>5 DEF NamedFor
    <2> HIDE DEF d
    <2>6. ~disturbed[l] => d = RecordOf(run[l], t, m)
        BY <2>2, <2>3, <2>4 DEF RecordOf, ShardRecord, d
    <2> QED
        BY <2>4, <2>6 DEF RecordOf, ShardRecord, d
<1>6. ASSUME NEW k \in 1..Len(records[l])
      PROVE  \E e \in RecordsOf(run[l]) :
                 /\ records[l][k].name = e.name
                 /\ ~disturbed[l] => records[l][k] = e
    <2>1. PICK i \in 1..Len(TargetOrder), m \in Months :
              Past(l, i, m) /\ NamedFor(records[l][k], run[l], TargetOrder[i], m)
        BY <1>1, <1>6 DEF Recorded
    <2>2. RecordOf(run[l], TargetOrder[i], m) \in RecordsOf(run[l])
        BY <1>3, <1>4, <2>1
    <2>3. /\ records[l][k].name = RecordOf(run[l], TargetOrder[i], m).name
          /\ ~disturbed[l] => records[l][k] = RecordOf(run[l], TargetOrder[i], m)
        BY <1>5, <2>1
    <2> QED
        BY <2>2, <2>3
<1>7. ASSUME NEW e \in RecordsOf(run[l])
      PROVE  \E k \in 1..Len(records[l]) :
                 /\ records[l][k].name = e.name
                 /\ ~disturbed[l] => records[l][k] = e
    <2>1. PICK i \in DOMAIN TargetOrder : \E m \in MonthsOf(Shelf[TargetOrder[i]][run[l]]) :
              e = RecordOf(run[l], TargetOrder[i], m)
        BY <1>7 DEF RecordsOf
    <2>2. PICK m \in MonthsOf(Shelf[TargetOrder[i]][run[l]]) : e = RecordOf(run[l], TargetOrder[i], m)
        BY <2>1
    <2>3. i \in 1..Len(TargetOrder) /\ m \in Months
        BY <1>1, TargetTyped, ShelfTyped
    <2>4. PICK k \in 1..Len(records[l]) : NamedFor(records[l][k], run[l], TargetOrder[i], m)
        BY <1>1, <1>3, <2>3 DEF Recorded
    <2>5. /\ records[l][k].name = RecordOf(run[l], TargetOrder[i], m).name
          /\ ~disturbed[l] => records[l][k] = RecordOf(run[l], TargetOrder[i], m)
        BY <1>5, <2>4
    <2> QED
        BY <2>2, <2>5
<1> QED
    BY <1>1, <1>2, <1>6, <1>7

(* ... and are those of the run, all of them, if nobody wrote beneath.      *)
LEMMA RecordsAreTheRun ==
    ASSUME StepInv, NEW l \in Launches, phase[l] \in Assembled, ~disturbed[l]
    PROVE  {records[l][k] : k \in DOMAIN records[l]} = RecordsOf(run[l])
<1>1. DOMAIN records[l] = 1..Len(records[l])
    BY RecordsNamed
<1>2. ASSUME NEW k \in 1..Len(records[l]) PROVE records[l][k] \in RecordsOf(run[l])
    <2>1. \E e \in RecordsOf(run[l]) : records[l][k] = e
        BY RecordsNamed
    <2> QED
        BY <2>1
<1>3. ASSUME NEW e \in RecordsOf(run[l]) PROVE \E k \in 1..Len(records[l]) : records[l][k] = e
    BY <1>3, RecordsNamed
<1> QED
    BY <1>1, <1>2, <1>3

(* The sidecar's record, likewise.                                          *)
LEMMA SidecarIsTheRun ==
    ASSUME StepInv, NEW l \in Launches, phase[l] \in Recording
    PROVE  /\ sidecar[l].name = SidecarName(run[l])
           /\ sidecar[l].sha256 \in SidecarContents \cup Fragments
           /\ ~disturbed[l] => sidecar[l] = SidecarEntry(run[l], config[l].lookup)
<1>1. sidecar[l] \in SidecarRecords /\ sidecar[l].name = SidecarName(run[l])
    BY DEF StepInv, LaunchInv, Progress
<1>2. ~disturbed[l] => sidecar[l].sha256 = SidecarOf(run[l], config[l].lookup)
    BY DEF StepInv, LaunchInv, Recorded
<1>3. sidecar[l] = [name |-> sidecar[l].name, sha256 |-> sidecar[l].sha256]
    BY <1>1 DEF SidecarRecords
<1>4. sidecar[l].sha256 \in SidecarContents \cup Fragments
    BY <1>1 DEF SidecarRecords
<1> QED
    BY <1>1, <1>2, <1>3, <1>4 DEF SidecarEntry

(* A launch that has written everything, as it uploads.                     *)
LEMMA UploadingKeeps ==
    ASSUME StepInv, NEW l \in Launches, phase[l] \in {"manifest", "uploading"},
           phase[l] = "manifest" => pen[l] = "written",
           NEW p \in {"uploading", "delivered"}, config[l].enabled,
           phase' = [phase EXCEPT ![l] = p],
           pen' = pen \/ pen' = [pen EXCEPT ![l] = "closed"],
           UNCHANGED <<run, config, at, sliced, reference, records, sidecar, failedOn, staging,
                       disturbed>>,
           bucket' \in Seq(BucketFile),
           ledger' \in [Launches -> Seq(LedgerEntry)],
           \A q \in Launches : q # l => ledger'[q] = ledger[q]
    PROVE  StepInv'
<1>1. SinkTypes /\ Canonical /\ LaunchInv(l)
    BY DEF StepInv
<1>2. SinkTypes'
    BY <1>1 DEF SinkTypes, Running, Finished
<1>3. Canonical' /\ NoneGone
    BY <1>1, NothingWritten
<1>4. \A q \in Launches : q # l => Stays(q) /\ Untouched(q)
    BY <1>1 DEF SinkTypes, Same, Stays, Untouched
<1>5. /\ phase'[l] = p /\ phase[l] \in Assembled /\ phase[l] \in Recording
      /\ phase[l] \in Running /\ phase[l] # "idle" /\ run[l] \in Runs
    BY <1>1 DEF SinkTypes, Assembled, Recording, Running, Writing, LaunchInv, Progress
<1>6. \A x : /\ FrameOf(l, x)' = FrameOf(l, x)
             /\ Accepted(l, x)' <=> Accepted(l, x)
             /\ HasRows(l, x)' <=> HasRows(l, x)
             /\ \A n : Past(l, x, n)' <=> Past(l, x, n)
    BY DEF FrameOf, Accepted, HasRows, Past
<1>7. Progress(l)'
    BY <1>1, <1>5, <1>6 DEF LaunchInv, Progress, Assembled, Recording, Running, Writing
<1>8. Recorded(l)'
    BY <1>1, <1>5, <1>6 DEF LaunchInv, Recorded, Recording
<1>9. There(ManifestName(run[l]))
    <2>1. CASE phase[l] = "manifest"
        <3>1. AtHand(l) = ManifestName(run[l])
            BY <2>1, FileAtHand DEF Writing
        <3> QED
            BY <1>1, <1>5, <2>1, <3>1 DEF LaunchInv, Present, Writing
    <2>2. CASE phase[l] = "uploading"
        BY <1>1, <1>5, <2>2 DEF LaunchInv, Present
    <2> QED
        BY <2>1, <2>2
<1>10. ~disturbed[l] => staging[ManifestName(run[l])] = ManifestOf(run[l], config[l].lookup)
    <2>1. CASE phase[l] = "manifest"
        <3>1. /\ AtHand(l) = ManifestName(run[l])
              /\ BytesAtHand(l) = ManifestBytes(reference[l], records[l], sidecar[l])
            BY <2>1, FileAtHand DEF Writing
        <3>2. ~disturbed[l] => staging[AtHand(l)] = BytesAtHand(l)
            BY <1>1, <1>5, <2>1 DEF LaunchInv, Held, Writing
        <3>3. ~disturbed[l] => /\ {records[l][k] : k \in DOMAIN records[l]} = RecordsOf(run[l])
                               /\ sidecar[l] = SidecarEntry(run[l], config[l].lookup)
            BY <1>5, RecordsAreTheRun, SidecarIsTheRun
        <3>4. /\ reference[l].run = run[l] /\ reference[l].cells = CellsOf(FrameOf(l, 1))
              /\ reference[l].months = MonthsOf(FrameOf(l, 1))
            BY <1>5, ReferenceIsTheRun
        <3> QED
            BY <3>1, <3>2, <3>3, <3>4 DEF ManifestBytes, ManifestOf, FrameOf
    <2>2. CASE phase[l] = "uploading"
        BY <1>1, <1>5, <2>2 DEF LaunchInv, Held
    <2> QED
        BY <2>1, <2>2
<1>11. Present(l)'
    <2>1. Present(l) /\ phase'[l] \notin Writing
        BY <1>1, <1>5 DEF LaunchInv, Writing
    <2> QED
        BY <1>5, <1>9, <2>1 DEF Present, There
<1>12. Held(l)'
    <2>1. Held(l) /\ phase'[l] \notin Writing
        BY <1>1, <1>5 DEF LaunchInv, Writing
    <2>2. ~disturbed[l] => pen'[l] # "clashing"
        BY <1>1, <1>5, <2>1 DEF Held, SinkTypes
    <2> QED
        BY <1>5, <1>10, <2>1, <2>2 DEF Held
<1> QED
    BY <1>2, <1>3, <1>4, <1>7, <1>8, <1>11, <1>12, OwnPart DEF LaunchInv

(* Interlock.                                                               *)
LEMMA InterlockKeeps ==
    ASSUME StepInv, NEW l \in Launches, Interlock(l)
    PROVE  StepInv'
<1>1. /\ phase[l] = "manifest" /\ pen[l] = "written"
      /\ pen' = [pen EXCEPT ![l] = "closed"]
      /\ phase' = [phase EXCEPT ![l] = AfterStaging(l)]
      /\ UNCHANGED <<bucket, run, config, at, sliced, reference, records, sidecar, ledger,
                     failedOn, staging, disturbed>>
    BY DEF Interlock, Goto
<1>2. SinkTypes
    BY DEF StepInv
<1>3. CASE config[l].enabled /\ config[l].store
    <2>1. phase' = [phase EXCEPT ![l] = "uploading"]
        BY <1>1, <1>3 DEF AfterStaging
    <2> QED
        BY <1>1, <1>2, <1>3, <2>1, UploadingKeeps DEF SinkTypes
<1>4. CASE ~(config[l].enabled /\ config[l].store)
    <2>1. PICK p \in {"staged", "refused"} : phase' = [phase EXCEPT ![l] = p]
        BY <1>1, <1>4 DEF AfterStaging
    <2>2. p \in Stopped
        BY DEF Stopped
    <2>3. /\ pen' \in [Launches -> {"closed", "open", "clashing", "written"}]
          /\ \A q \in Launches : q # l => pen'[q] = pen[q]
          /\ pen'[l] = "closed"
          /\ failedOn' \in [Launches -> FileNames \cup {None}]
          /\ bucket' \in Seq(BucketFile)
        BY <1>1, <1>2 DEF SinkTypes
    <2> QED
        BY <1>1, <2>1, <2>2, <2>3, StopKeeps
<1> QED
    BY <1>3, <1>4

-----------------------------------------------------------------------------
(* The uploads.  A file of a run: its name and type go together; its bytes  *)
(* are what its writer meant, or were read while another launch wrote.      *)

IsFileOf(f, r) ==
    \/ /\ f.type = ShardType
       /\ \E e \in RecordsOf(r) : f.name = e.name /\ f.content \in {e.sha256} \cup Fragments
    \/ f.type = SidecarType /\ f.name = SidecarName(r) /\ f.content \in SidecarContents \cup Fragments
    \/ f.type = ManifestType /\ f.name = ManifestName(r) /\ f.content \in ManifestsOf(r) \cup Fragments

IsAsMeant(f, r, g) ==
    \/ /\ f.type = ShardType
       /\ \E e \in RecordsOf(r) : f.name = e.name /\ f.content = e.sha256
    \/ f.type = SidecarType /\ f.name = SidecarName(r) /\ f.content = SidecarOf(r, g)
    \/ f.type = ManifestType /\ f.name = ManifestName(r) /\ f.content = ManifestOf(r, g)

(* What is uploaded next is a file of the run.                              *)
LEMMA NextUploadIs ==
    ASSUME StepInv, NEW l \in Launches, phase[l] = "uploading", NEW obj \in NextUploads(l)
    PROVE  LET k == Len(ledger[l]) + 1
           IN  /\ run[l] \in Runs /\ k \in Nat \ {0} /\ Len(records[l]) \in Nat
               /\ obj.category = Forecast
               /\ IsFileOf(obj, run[l])
               /\ ~disturbed[l] => IsAsMeant(obj, run[l], config[l].lookup)
               /\ k <= Len(records[l]) =>
                     /\ obj.type = ShardType /\ obj.name = records[l][k].name
                     /\ ~disturbed[l] => obj.content = records[l][k].sha256
               /\ k = Len(records[l]) + 1 =>
                     obj.type = SidecarType /\ obj.name = SidecarName(run[l])
               /\ k > Len(records[l]) + 1 =>
                     obj.type = ManifestType /\ obj.name = ManifestName(run[l])
<1> DEFINE k == Len(ledger[l]) + 1
<1>1. /\ phase[l] \in Assembled /\ phase[l] \in Recording /\ phase[l] \in Running
      /\ SinkTypes /\ Present(l) /\ Held(l)
    BY DEF Assembled, Recording, Running, StepInv, LaunchInv
<1>2. run[l] \in Runs /\ reference[l].run = run[l]
    BY <1>1, ReferenceIsTheRun
<1>3. k \in Nat \ {0} /\ Len(records[l]) \in Nat
    BY <1>1 DEF SinkTypes
<1>4. ASSUME k <= Len(records[l])
      PROVE  /\ obj.category = Forecast /\ obj.type = ShardType /\ obj.name = records[l][k].name
             /\ IsFileOf(obj, run[l])
             /\ ~disturbed[l] => /\ obj.content = records[l][k].sha256
                                 /\ IsAsMeant(obj, run[l], config[l].lookup)
    <2>1. k \in 1..Len(records[l])
        BY <1>3, <1>4
    <2>2. PICK d : d = records[l][k]
        OBVIOUS
    <2>3. PICK e \in RecordsOf(run[l]) : d.name = e.name /\ (~disturbed[l] => d = e)
        BY <1>1, <2>1, <2>2, RecordsNamed
    <2>4. PICK bytes \in Readings(d.name) : obj = Upload(d.name, ShardType, Forecast, bytes)
        BY <1>4, <2>2 DEF NextUploads, Staged
    <2>5. There(d.name) /\ (~disturbed[l] => staging[d.name] = d.sha256)
        BY <1>1, <2>1, <2>2 DEF Present, Held
    <2>6. d.name \in FileNames
        BY <1>1, <2>1, <2>2, CountedOn
    <2>7. PICK t, m : e = RecordOf(run[l], t, m) /\ t \in Targets /\ m \in Months
        <3>1. PICK i \in DOMAIN TargetOrder : \E m \in MonthsOf(Shelf[TargetOrder[i]][run[l]]) :
                  e = RecordOf(run[l], TargetOrder[i], m)
            BY DEF RecordsOf
        <3>2. PICK m \in MonthsOf(Shelf[TargetOrder[i]][run[l]]) :
                  e = RecordOf(run[l], TargetOrder[i], m)
            BY <3>1
        <3> QED
            BY <1>2, <3>2, TargetTyped, ShelfTyped
    <2>8. e.name = ShardName(run[l], t, m) /\ e.sha256 = ShardOf(run[l], t, m)
        BY <2>7 DEF RecordOf, ShardRecord
    <2>9. bytes \in {e.sha256} \cup Fragments /\ (staging[d.name] # Partial => bytes = staging[d.name])
        BY <1>2, <2>3, <2>4, <2>5, <2>6, <2>7, <2>8, ReadingsFit
    <2>10. ~disturbed[l] => bytes = d.sha256 /\ bytes = e.sha256
        BY <2>3, <2>5, <2>8, <2>9, WholeIsNotPartial
    <2>11. /\ obj.name = d.name /\ obj.type = ShardType /\ obj.category = Forecast
           /\ obj.content = bytes
        BY <2>4 DEF Upload
    <2> QED
        BY <2>2, <2>3, <2>9, <2>10, <2>11 DEF IsFileOf, IsAsMeant
<1>5. ASSUME k = Len(records[l]) + 1
      PROVE  /\ obj.category = Forecast /\ obj.type = SidecarType /\ obj.name = SidecarName(run[l])
             /\ IsFileOf(obj, run[l])
             /\ ~disturbed[l] => IsAsMeant(obj, run[l], config[l].lookup)
    <2> DEFINE name == SidecarName(run[l])
    <2>1. PICK bytes \in Readings(name) : obj = Upload(name, SidecarType, Forecast, bytes)
        BY <1>2, <1>3, <1>5 DEF NextUploads, Staged
    <2>2. There(name) /\ name \in FileNames
        BY <1>1, <1>2, NamesTyped DEF Present
    <2>3. ~disturbed[l] => staging[name] = SidecarOf(run[l], config[l].lookup)
        <3>1. ~disturbed[l] => staging[name] = sidecar[l].sha256
            BY <1>1 DEF Held
        <3>2. ~disturbed[l] => sidecar[l] = SidecarEntry(run[l], config[l].lookup)
            BY <1>1, SidecarIsTheRun
        <3>3. SidecarEntry(run[l], config[l].lookup).sha256 = SidecarOf(run[l], config[l].lookup)
            BY DEF SidecarEntry
        <3> QED
            BY <3>1, <3>2, <3>3
    <2>4. bytes \in SidecarContents \cup Fragments /\ (staging[name] # Partial => bytes = staging[name])
        BY <1>2, <2>1, <2>2, ReadingsFit
    <2>5. ~disturbed[l] => bytes = SidecarOf(run[l], config[l].lookup)
        BY <2>3, <2>4, WholeIsNotPartial
    <2>6. /\ obj.name = name /\ obj.type = SidecarType /\ obj.category = Forecast
          /\ obj.content = bytes
        BY <2>1 DEF Upload
    <2> QED
        BY <2>4, <2>5, <2>6 DEF IsFileOf, IsAsMeant
<1>6. ASSUME k > Len(records[l]) + 1
      PROVE  /\ obj.category = Forecast /\ obj.type = ManifestType /\ obj.name = ManifestName(run[l])
             /\ IsFileOf(obj, run[l])
             /\ ~disturbed[l] => IsAsMeant(obj, run[l], config[l].lookup)
    <2> DEFINE name == ManifestName(run[l])
    <2>1. PICK bytes \in Readings(name) : obj = Upload(name, ManifestType, Forecast, bytes)
        BY <1>2, <1>3, <1>6 DEF NextUploads, Staged
    <2>2. There(name) /\ name \in FileNames
        BY <1>1, <1>2, NamesTyped DEF Present
    <2>3. ~disturbed[l] => staging[name] = ManifestOf(run[l], config[l].lookup)
        BY <1>1 DEF Held
    <2>4. bytes \in ManifestsOf(run[l]) \cup Fragments /\ (staging[name] # Partial => bytes = staging[name])
        BY <1>2, <2>1, <2>2, ReadingsFit
    <2>5. ~disturbed[l] => bytes = ManifestOf(run[l], config[l].lookup)
        BY <2>3, <2>4, WholeIsNotPartial
    <2>6. /\ obj.name = name /\ obj.type = ManifestType /\ obj.category = Forecast
          /\ obj.content = bytes
        BY <2>1 DEF Upload
    <2> QED
        BY <2>4, <2>5, <2>6 DEF IsFileOf, IsAsMeant
<1> QED
    BY <1>2, <1>3, <1>4, <1>5, <1>6

(* ... and has the type of a file of the bucket.                            *)
LEMMA NextUploadTyped ==
    ASSUME StepInv, NEW l \in Launches, phase[l] = "uploading", NEW obj \in NextUploads(l)
    PROVE  /\ obj.name \in FileNames
           /\ obj.type \in {ShardType, SidecarType, ManifestType}
           /\ obj.category = Forecast
           /\ obj.content \in Contents
<1>1. run[l] \in Runs /\ obj.category = Forecast /\ IsFileOf(obj, run[l])
    BY NextUploadIs
<1>2. ASSUME NEW e \in RecordsOf(run[l]), obj.name = e.name, obj.content \in {e.sha256} \cup Fragments
      PROVE  obj.name \in FileNames /\ obj.content \in Contents
    <2>1. e \in ShardRecords
        BY DEF RecordsOf
    <2> QED
        BY <1>2, <2>1 DEF ShardRecords, FileNames, Contents
<1> QED
    BY <1>1, <1>2, NamesTyped DEF IsFileOf, Contents, ManifestsOf

(* What an upload may leave in the bucket.                                  *)
LEMMA BucketGrows ==
    ASSUME StepInv, NEW l \in Launches, phase[l] = "uploading", NEW obj \in NextUploads(l),
           NEW d \in BOOLEAN
    PROVE  /\ Stored(l, obj, d) \in Seq(BucketFile)
           /\ Len(Stored(l, obj, d)) = Len(bucket) + 1
           /\ \A i \in 1..Len(bucket) : Stored(l, obj, d)[i] = bucket[i]
           /\ Stored(l, obj, d)[Len(bucket) + 1] =
                 [name |-> obj.name, type |-> obj.type, category |-> Forecast,
                  content |-> obj.content, documented |-> d, by |-> l]
<1> DEFINE f == [name |-> obj.name, type |-> obj.type, category |-> Forecast,
                 content |-> obj.content, documented |-> d, by |-> l]
<1>1. f \in BucketFile
    BY NextUploadTyped DEF File, Types, BucketFile
<1>2. Stored(l, obj, d) = Append(bucket, f)
    BY NextUploadTyped DEF Stored
<1>3. bucket \in Seq(BucketFile)
    BY DEF StepInv, SinkTypes
<1> HIDE DEF f
<1>4. /\ Append(bucket, f) \in Seq(BucketFile)
      /\ Len(Append(bucket, f)) = Len(bucket) + 1
      /\ \A i \in 1..Len(bucket) : Append(bucket, f)[i] = bucket[i]
      /\ Append(bucket, f)[Len(bucket) + 1] = f
    BY <1>1, <1>3
<1> QED
    BY <1>2, <1>4 DEF f

(* UploadConfirmed.                                                         *)
LEMMA UploadConfirmedKeeps ==
    ASSUME StepInv, NEW l \in Launches, UploadConfirmed(l)
    PROVE  StepInv'
<1>1. PICK obj \in NextUploads(l), id \in 1..(Len(bucket) + 1) :
          /\ UploadSucceeds(l, obj, id)
          /\ ledger' = [ledger EXCEPT ![l] =
                           Append(@, [name |-> obj.name, id |-> id, type |-> obj.type])]
          /\ Goto(l, IF obj.type = ManifestType THEN "delivered" ELSE "uploading")
    BY DEF UploadConfirmed
<1>2. /\ phase[l] = "uploading"
      /\ UNCHANGED <<run, config, at, sliced, reference, pen, records, sidecar, failedOn,
                     staging, disturbed>>
    BY DEF UploadConfirmed
<1>3. PICK p \in {"uploading", "delivered"} : phase' = [phase EXCEPT ![l] = p]
    BY <1>1 DEF Goto
<1>4. bucket' \in Seq(BucketFile)
    <2>1. bucket \in Seq(BucketFile)
        BY DEF StepInv, SinkTypes
    <2>2. Stored(l, obj, TRUE) \in Seq(BucketFile)
        BY <1>2, BucketGrows
    <2>3. bucket' = bucket \/ bucket' = Stored(l, obj, TRUE)
        BY <1>1 DEF UploadSucceeds
    <2> QED
        BY <2>1, <2>2, <2>3
<1>5. /\ ledger' \in [Launches -> Seq(LedgerEntry)]
      /\ \A q \in Launches : q # l => ledger'[q] = ledger[q]
    <2> DEFINE x == [name |-> obj.name, id |-> id, type |-> obj.type]
    <2>1. /\ ledger \in [Launches -> Seq(LedgerEntry)]
          /\ Len(bucket) \in Nat
        BY DEF StepInv, SinkTypes
    <2>2. x \in LedgerEntry
        BY <1>2, <2>1, NextUploadTyped DEF LedgerEntry, Types
    <2>3. ledger' = [ledger EXCEPT ![l] = Append(@, x)]
        BY <1>1
    <2> HIDE DEF x
    <2> QED
        BY <2>1, <2>2, <2>3
<1>6. config[l].enabled
    BY <1>2 DEF StepInv, LaunchInv, Progress
<1> QED
    BY <1>2, <1>3, <1>4, <1>5, <1>6, UploadingKeeps

(* Refusals, torn runs and crashes.                                         *)
LEMMA StopsKeep ==
    ASSUME StepInv, NEW l \in Launches,
           LoadFails(l) \/ RefuseTarget(l) \/ RefuseFile(l) \/ UploadTears(l) \/ Crash(l)
    PROVE  StepInv'
<1>1. /\ bucket \in Seq(BucketFile)
      /\ failedOn \in [Launches -> FileNames \cup {None}]
      /\ pen \in [Launches -> {"closed", "open", "clashing", "written"}]
    BY DEF StepInv, SinkTypes
<1>2. ASSUME phase[l] = "uploading", NEW obj \in NextUploads(l), UploadFails(l, obj)
      PROVE  bucket' \in Seq(BucketFile)
    <2>1. \A d \in BOOLEAN : Stored(l, obj, d) \in Seq(BucketFile)
        BY <1>2, BucketGrows
    <2>2. bucket' = bucket \/ \E d \in BOOLEAN : bucket' = Stored(l, obj, d)
        BY <1>2 DEF UploadFails
    <2> QED
        BY <1>1, <2>1, <2>2
<1>3. CASE LoadFails(l) \/ RefuseTarget(l) \/ RefuseFile(l)
    <2>1. /\ phase[l] # "idle" /\ phase' = [phase EXCEPT ![l] = "refused"]
          /\ UNCHANGED <<bucket, run, config, at, sliced, reference, pen, records, sidecar,
                         ledger, failedOn, staging, disturbed>>
        BY <1>3 DEF LoadFails, RefuseTarget, RefuseFile, Move, Goto, Writing
    <2> QED
        BY <1>1, <2>1, StopKeeps DEF Stopped
<1>4. CASE UploadTears(l)
    <2>1. PICK obj \in NextUploads(l) :
              /\ UploadFails(l, obj)
              /\ failedOn' = [failedOn EXCEPT ![l] = obj.name]
        BY <1>4 DEF UploadTears
    <2>2. /\ phase[l] = "uploading" /\ phase' = [phase EXCEPT ![l] = "torn"]
          /\ UNCHANGED <<run, config, at, sliced, reference, pen, records, sidecar, ledger,
                         staging, disturbed>>
        BY <1>4 DEF UploadTears, Goto
    <2>3. failedOn' \in [Launches -> FileNames \cup {None}]
        BY <1>1, <2>1, <2>2, NextUploadTyped
    <2>4. bucket' \in Seq(BucketFile)
        BY <1>2, <2>1, <2>2
    <2> QED
        BY <1>1, <2>2, <2>3, <2>4, StopKeeps DEF Stopped
<1>5. CASE Crash(l)
    <2>1. /\ phase[l] # "idle" /\ phase' = [phase EXCEPT ![l] = "crashed"]
          /\ pen' = [pen EXCEPT ![l] = "closed"]
          /\ UNCHANGED <<run, config, at, sliced, reference, records, sidecar, ledger, failedOn,
                         staging, disturbed>>
        BY <1>5 DEF Crash, Goto, Running, Writing
    <2>2. bucket' \in Seq(BucketFile)
        BY <1>1, <1>2, <1>5 DEF Crash
    <2>3. /\ pen' \in [Launches -> {"closed", "open", "clashing", "written"}]
          /\ \A q \in Launches : q # l => pen'[q] = pen[q]
          /\ pen'[l] = "closed"
        BY <1>1, <2>1
    <2> QED
        BY <1>1, <2>1, <2>2, <2>3, StopKeeps DEF Stopped
<1> QED
    BY <1>3, <1>4, <1>5

(* What is staged and recorded, whatever step is taken.                     *)
LEMMA StepKeepsStaging ==
    ASSUME StepInv, [Next]_vars
    PROVE  StepInv'
<1>1. CASE Next
    <2>1. PICK l \in Launches : \/ \E r \in Runs, c \in Configs : Start(l, r, c)
                                \/ Step(l) \/ Crash(l)
        BY <1>1 DEF Next
    <2>2. CASE \E r \in Runs, c \in Configs : Start(l, r, c)
        BY <2>2, StartKeeps
    <2>3. CASE Step(l)
        BY <2>3, AcceptTargetKeeps, OpenFileKeeps, WriteFileKeeps, RecordShardKeeps,
           RecordSidecarKeeps, InterlockKeeps, UploadConfirmedKeeps, StopsKeep
           DEF Step, Advance
    <2>4. CASE Crash(l)
        BY <2>4, StopsKeep
    <2> QED
        BY <2>1, <2>2, <2>3, <2>4
<1>2. CASE UNCHANGED vars
    <2>1. UNCHANGED <<bucket, phase, run, config, at, sliced, reference, pen, records, sidecar,
                      ledger, failedOn, staging, disturbed>>
        BY <1>2 DEF vars, sinkVars, progress
    <2>2. SinkTypes'
        BY <2>1 DEF StepInv, SinkTypes
    <2>3. Canonical' /\ NoneGone
        BY <2>1, NothingWritten DEF StepInv
    <2>4. ASSUME NEW q \in Launches PROVE LaunchInv(q)'
        <3>1. Stays(q) /\ Untouched(q) /\ Progress(q) /\ Recorded(q)
            BY <2>1 DEF StepInv, LaunchInv, Same, Stays, Untouched
        <3> QED
            BY <2>3, <3>1, StayProgress, StayRecorded, StayPresent, StayHeld DEF LaunchInv
    <2> QED
        BY <2>2, <2>3, <2>4 DEF StepInv
<1> QED
    BY <1>1, <1>2

(* As long as no other launch writes beneath it, a launch finds in the      *)
(* staging tree what its records pin; and whoever writes, the tree never    *)
(* holds a shard of a target whose draws are collapsed.                     *)
THEOREM StagingHolds == Spec => []StepInv
<1>1. StepInv /\ [Next]_vars => StepInv'
    BY StepKeepsStaging
<1> QED
    BY <1>1, InitStepInv, PTL DEF Spec

(* No collapsed payload is ever staged (the gate of sink.py step 1 precedes *)
(* staging), for any number of launches sharing the tree.                   *)
THEOREM GatePrecedesStaging == Spec => []CollapsedNeverStaged
<1>1. ASSUME StepInv PROVE CollapsedNeverStaged
    <2> SUFFICES ASSUME NEW n \in FileNames, n.kind = "shard", staging[n] # None
                 PROVE  DrawsUncollapsed(Shelf[n.target][n.run])
        BY DEF CollapsedNeverStaged
    <2>1. n \in [kind : {"shard"}, run : Runs, target : Targets, month : Months]
        BY DEF FileNames
    <2>2. n = ShardName(n.run, n.target, n.month)
        BY <2>1 DEF ShardName
    <2> QED
        BY <1>1, <2>1, <2>2 DEF StepInv, Canonical, Fits
<1> QED
    BY <1>1, StagingHolds, PTL

-----------------------------------------------------------------------------
(* The bucket.  Every file in it comes from a launch that was allowed to    *)
(* upload and whose run is fit, and is a file of that run, with the bytes   *)
(* its launch meant if nobody wrote beneath it; what a ledger confirms is   *)
(* there; and when a manifest lands, all it lists is there.  The last two   *)
(* need a store that never declines a copy: with Dedup the sidecar that     *)
(* another run of the same cells left may stand for the launch's own.       *)

SoundOrigin(f) ==
    /\ f.category = Forecast
    /\ phase[f.by] # "idle"
    /\ run[f.by] \in Runs
    /\ config[f.by].enabled
    /\ FitToDeliver(run[f.by], config[f.by].lookup)
    /\ IsFileOf(f, run[f.by])
    /\ ~disturbed[f.by] => IsAsMeant(f, run[f.by], config[f.by].lookup)

InBucket(e) ==
    \E i \in 1..Len(bucket) :
        Documented(i) /\ bucket[i].name = e.name /\ bucket[i].content = e.sha256

Confirmed(l) ==
    phase[l] = "uploading" =>
        /\ Len(ledger[l]) <= Len(records[l]) + 1
        /\ ~disturbed[l] =>
              /\ \A k \in 1..Len(ledger[l]) : k <= Len(records[l]) => InBucket(records[l][k])
              /\ Len(ledger[l]) = Len(records[l]) + 1 =>
                    InBucket(SidecarEntry(run[l], config[l].lookup))

(* All that the manifest file i lists was in the bucket before it, if       *)
(* nobody wrote beneath its launch.                                         *)
WholeAt(i) ==
    bucket[i].type = ManifestType /\ ~disturbed[bucket[i].by] =>
        \A e \in bucket[i].content.shards \cup {bucket[i].content.sidecar} :
            \E j \in 1..(i - 1) : /\ Documented(j)
                                  /\ bucket[j].name = e.name
                                  /\ bucket[j].content = e.sha256

BucketInv ==
    /\ \A i \in 1..Len(bucket) : bucket[i] \in ArtifactFile \/ SoundOrigin(bucket[i])
    /\ ~Dedup => /\ \A l \in Launches : Confirmed(l)
                 /\ \A i \in 1..Len(bucket) : WholeAt(i)

(* A launch that uploads has a fit run.                                     *)
LEMMA UploadingIsFit ==
    ASSUME StepInv, NEW l \in Launches, phase[l] = "uploading"
    PROVE  /\ run[l] \in Runs /\ config[l].enabled
           /\ FitToDeliver(run[l], config[l].lookup)
<1>1. Progress(l) /\ phase[l] \in Assembled
    BY DEF StepInv, LaunchInv, Assembled
<1>2. run[l] \in Runs /\ at[l] = Len(TargetOrder)
    BY <1>1, ReferenceIsTheRun
<1>3. config[l].enabled /\ CellsOf(FrameOf(l, 1)) \subseteq DOMAIN config[l].lookup
    BY <1>1 DEF Progress, Recording
<1>4. ASSUME NEW k \in DOMAIN TargetOrder
      PROVE  /\ FrameOf(l, k).runs = {run[l]}
             /\ DrawsUncollapsed(FrameOf(l, k))
             /\ \A m \in MonthsOf(FrameOf(l, k)) : FrameOf(l, k).cells[m] # {}
             /\ MonthsOf(FrameOf(l, k)) = MonthsOf(FrameOf(l, 1))
             /\ CellsOf(FrameOf(l, k)) = CellsOf(FrameOf(l, 1))
    <2>1. k \in 1..at[l]
        BY <1>2, TargetTyped
    <2>2. Accepted(l, k) /\ HasRows(l, k)
        BY <1>1, <2>1 DEF Progress
    <2> QED
        BY <2>2 DEF Accepted, HasRows, Facts, FactsOf, FrameOf
<1> QED
    BY <1>2, <1>3, <1>4 DEF FitToDeliver, FrameOf

(* A file of the bucket has the fields of a File.                           *)
LEMMA FileTyped ==
    ASSUME StepInv, NEW i \in 1..Len(bucket)
    PROVE  bucket[i] \in BucketFile /\ bucket[i].by \in Launches
<1>1. bucket \in Seq(BucketFile)
    BY DEF StepInv, SinkTypes
<1>2. bucket[i] \in BucketFile
    BY <1>1
<1> QED
    BY <1>2 DEF BucketFile, File, ArtifactFile

(* The launches that are not at work keep what they delivered.              *)
OthersStay(l) ==
    \A q \in Launches : q # l =>
        /\ phase'[q] = phase[q] /\ run'[q] = run[q] /\ config'[q] = config[q]
        /\ records'[q] = records[q] /\ ledger'[q] = ledger[q]

MoreDisturbed == \A q \in Launches : disturbed[q] => disturbed'[q]

(* A file keeps its origin.                                                 *)
LEMMA OriginStays ==
    ASSUME NEW f, f.by \in Launches, SoundOrigin(f), MoreDisturbed,
           phase'[f.by] # "idle", run'[f.by] = run[f.by], config'[f.by] = config[f.by]
    PROVE  SoundOrigin(f)'
<1>1. ~disturbed'[f.by] => ~disturbed[f.by]
    BY DEF MoreDisturbed
<1> QED
    BY <1>1 DEF SoundOrigin

(* A step of launch l that uploads nothing, or whose copy the store         *)
(* declined.                                                                *)
LEMMA QuietKeeps ==
    ASSUME StepInv, BucketInv, NEW l \in Launches, UNCHANGED bucket,
           OthersStay(l), MoreDisturbed,
           phase'[l] # "idle",
           phase[l] # "idle" => run'[l] = run[l] /\ config'[l] = config[l],
           ~Dedup /\ phase'[l] = "uploading" => ledger'[l] = <<>> /\ Len(records'[l]) \in Nat
    PROVE  BucketInv'
<1>1. ASSUME NEW i \in 1..Len(bucket), bucket[i] \notin ArtifactFile
      PROVE  SoundOrigin(bucket[i])'
    <2>1. PICK f : f = bucket[i]
        OBVIOUS
    <2>2. SoundOrigin(f) /\ f.by \in Launches
        BY <1>1, <2>1, FileTyped DEF BucketInv
    <2>3. /\ phase'[f.by] # "idle" /\ run'[f.by] = run[f.by] /\ config'[f.by] = config[f.by]
        BY <2>2 DEF SoundOrigin, OthersStay
    <2>4. SoundOrigin(f)'
        BY <2>2, <2>3, OriginStays
    <2> QED
        BY <2>1, <2>4 DEF SoundOrigin
<1>2. ASSUME ~Dedup, NEW q \in Launches PROVE Confirmed(q)'
    <2>1. \A e : InBucket(e)' <=> InBucket(e)
        BY DEF InBucket, Documented
    <2>2. CASE q = l
        <3>1. phase'[l] = "uploading" => Len(ledger'[l]) = 0 /\ Len(records'[l]) \in Nat
            BY <1>2
        <3> QED
            BY <2>2, <3>1 DEF Confirmed
    <2>3. CASE q # l
        <3>1. Confirmed(q)
            BY <1>2 DEF BucketInv
        <3>2. /\ phase'[q] = phase[q] /\ run'[q] = run[q] /\ config'[q] = config[q]
              /\ records'[q] = records[q] /\ ledger'[q] = ledger[q]
              /\ ~disturbed'[q] => ~disturbed[q]
              /\ bucket' = bucket
            BY <2>3 DEF OthersStay, MoreDisturbed
        <3> QED
            BY <3>1, <3>2 DEF Confirmed, InBucket, Documented
    <2> QED
        BY <2>2, <2>3
<1>3. ASSUME ~Dedup, NEW i \in 1..Len(bucket) PROVE WholeAt(i)'
    <2>1. WholeAt(i) /\ bucket[i].by \in Launches
        BY <1>3, FileTyped DEF BucketInv
    <2> QED
        BY <2>1 DEF WholeAt, Documented, MoreDisturbed
<1> QED
    BY <1>1, <1>2, <1>3 DEF BucketInv

(* A step of launch l that leaves its next object in the bucket.            *)
LEMMA LandsKeeps ==
    ASSUME StepInv, BucketInv, NEW l \in Launches, phase[l] = "uploading",
           NEW obj \in NextUploads(l), NEW d \in BOOLEAN, bucket' = Stored(l, obj, d),
           UNCHANGED <<run, config, records, disturbed>>,
           \A q \in Launches : q # l => phase'[q] = phase[q] /\ ledger'[q] = ledger[q],
           phase'[l] # "idle",
           phase'[l] = "uploading" =>
               d /\ obj.type # ManifestType
                 /\ \E x : ledger'[l] = Append(ledger[l], x) /\ x \in LedgerEntry
    PROVE  BucketInv'
<1> DEFINE Landed(e) == \E i \in 1..Len(bucket') : /\ bucket'[i].documented
                                                   /\ bucket'[i].name = e.name
                                                   /\ bucket'[i].content = e.sha256
<1>0. PICK n, f, k, g : n = Len(bucket) + 1 /\ f = bucket'[n] /\ k = Len(ledger[l]) + 1
                        /\ g = config[l].lookup
    OBVIOUS
<1>1. /\ Len(bucket') = n /\ n \in Nat \ {0} /\ n - 1 = Len(bucket)
      /\ \A i \in 1..Len(bucket) : bucket'[i] = bucket[i]
      /\ f.name = obj.name /\ f.type = obj.type
      /\ f.category = Forecast /\ f.content = obj.content
      /\ f.documented = d /\ f.by = l
    <2>1. Len(bucket) \in Nat
        BY DEF StepInv, SinkTypes
    <2>2. /\ Len(bucket') = n
          /\ \A i \in 1..Len(bucket) : bucket'[i] = bucket[i]
          /\ f = [name |-> obj.name, type |-> obj.type, category |-> Forecast,
                  content |-> obj.content, documented |-> d, by |-> l]
        BY <1>0, BucketGrows
    <2> QED
        BY <1>0, <2>1, <2>2
<1>2. MoreDisturbed
    BY DEF MoreDisturbed
<1>3. ASSUME NEW i \in 1..Len(bucket), bucket[i] \notin ArtifactFile
      PROVE  SoundOrigin(bucket[i])'
    <2>1. PICK h : h = bucket[i]
        OBVIOUS
    <2>2. SoundOrigin(h) /\ h.by \in Launches
        BY <1>3, <2>1, FileTyped DEF BucketInv
    <2>3. phase'[h.by] # "idle" /\ run'[h.by] = run[h.by] /\ config'[h.by] = config[h.by]
        BY <2>2 DEF SoundOrigin
    <2>4. SoundOrigin(h)'
        BY <1>2, <2>2, <2>3, OriginStays
    <2>5. bucket'[i] = h
        BY <1>1, <2>1
    <2> QED
        BY <2>4, <2>5 DEF SoundOrigin
<1>4. SoundOrigin(f)'
    <2>1. run[l] \in Runs /\ config[l].enabled /\ FitToDeliver(run[l], config[l].lookup)
        BY UploadingIsFit
    <2>2. IsFileOf(f, run[l]) /\ (~disturbed[l] => IsAsMeant(f, run[l], config[l].lookup))
        <3>1. IsFileOf(obj, run[l]) /\ (~disturbed[l] => IsAsMeant(obj, run[l], config[l].lookup))
            BY NextUploadIs
        <3> QED
            BY <1>1, <3>1 DEF IsFileOf, IsAsMeant
    <2>3. /\ f.by = l /\ phase'[f.by] # "idle" /\ run'[f.by] = run[l]
          /\ config'[f.by] = config[l] /\ f.category = Forecast
          /\ disturbed'[f.by] = disturbed[l]
        BY <1>1
    <2> QED
        BY <2>1, <2>2, <2>3 DEF SoundOrigin
<1>5. \A e : InBucket(e) => Landed(e)
    BY <1>1 DEF InBucket, Documented
<1>6. ASSUME d, NEW e, e.name = obj.name, e.sha256 = obj.content PROVE Landed(e)
    <2>1. n \in 1..Len(bucket') /\ bucket'[n] = f
        BY <1>0, <1>1
    <2>2. e.name = f.name /\ e.sha256 = f.content
        BY <1>1, <1>6
    <2>3. f.documented
        BY <1>1, <1>6, Zenon
    <2> QED
        BY <2>1, <2>2, <2>3
<1>7. ASSUME ~Dedup, NEW q \in Launches PROVE Confirmed(q)'
    <2>1. Confirmed(q)
        BY <1>7 DEF BucketInv
    <2>2. CASE q # l
        <3>1. /\ phase'[q] = phase[q] /\ ledger'[q] = ledger[q] /\ config'[q] = config[q]
              /\ records'[q] = records[q] /\ run'[q] = run[q] /\ disturbed'[q] = disturbed[q]
            BY <2>2
        <3>2. phase[q] = "uploading" =>
                  /\ Len(ledger[q]) <= Len(records[q]) + 1
                  /\ ~disturbed[q] =>
                     /\ \A y \in 1..Len(ledger[q]) : y <= Len(records[q]) => Landed(records[q][y])
                     /\ Len(ledger[q]) = Len(records[q]) + 1 =>
                            Landed(SidecarEntry(run[q], config[q].lookup))
            BY <1>5, <2>1 DEF Confirmed
        <3> QED
            BY <3>1, <3>2 DEF Confirmed, InBucket, Documented
    <2>3. CASE q = l /\ phase'[l] = "uploading"
        <3>1. d /\ obj.type # ManifestType /\ Len(ledger'[l]) = k
            <4>1. PICK x : ledger'[l] = Append(ledger[l], x) /\ x \in LedgerEntry
                BY <2>3
            <4>2. ledger[l] \in Seq(LedgerEntry)
                BY DEF StepInv, SinkTypes
            <4> QED
                BY <1>0, <2>3, <4>1, <4>2
        <3>2. k \in Nat \ {0} /\ Len(records[l]) \in Nat
            BY <1>0, NextUploadIs
        <3>3. k <= Len(records[l]) + 1
            <4>1. k > Len(records[l]) + 1 => obj.type = ManifestType
                BY <1>0, NextUploadIs
            <4> QED
                BY <3>1, <3>2, <4>1
        <3>4. ~disturbed[l] /\ k <= Len(records[l]) => Landed(records[l][k])
            <4>1. ~disturbed[l] /\ k <= Len(records[l]) =>
                      records[l][k].name = obj.name /\ records[l][k].sha256 = obj.content
                BY <1>0, NextUploadIs
            <4> HIDE DEF Landed
            <4> QED
                BY <1>6, <3>1, <4>1
        <3>5. ~disturbed[l] /\ k = Len(records[l]) + 1 => Landed(SidecarEntry(run[l], g))
            <4>1. ~disturbed[l] /\ k = Len(records[l]) + 1 =>
                      obj.name = SidecarName(run[l]) /\ obj.content = SidecarOf(run[l], g)
                BY <1>0, NextUploadIs DEF IsAsMeant, ShardType, SidecarType, ManifestType
            <4>2. /\ SidecarEntry(run[l], g).name = SidecarName(run[l])
                  /\ SidecarEntry(run[l], g).sha256 = SidecarOf(run[l], g)
                BY DEF SidecarEntry
            <4> HIDE DEF Landed
            <4> QED
                BY <1>6, <3>1, <4>1, <4>2
        <3>6. ~disturbed[l] =>
                  \A y \in 1..Len(ledger[l]) : y <= Len(records[l]) => Landed(records[l][y])
            BY <1>5, <2>1, <2>3 DEF Confirmed
        <3>7. \A y \in 1..k : y \in 1..Len(ledger[l]) \/ y = k
            BY <1>0, <3>2
        <3>8. ~disturbed[l] => \A y \in 1..k : y <= Len(records[l]) => Landed(records[l][y])
            <4> HIDE DEF Landed
            <4> QED
                BY <3>4, <3>6, <3>7
        <3>9. /\ config'[l].lookup = g /\ run'[l] = run[l] /\ records'[l] = records[l]
              /\ disturbed'[l] = disturbed[l] /\ Len(ledger'[l]) = k
            BY <1>0, <3>1
        <3>10. \A e : Landed(e) => InBucket(e)'
            BY DEF InBucket, Documented
        <3>11. Len(ledger'[l]) <= Len(records'[l]) + 1
            BY <3>3, <3>9
        <3>12. ~disturbed'[l] =>
                   \A y \in 1..Len(ledger'[l]) :
                       y <= Len(records'[l]) => InBucket(records[l][y])'
            <4>1. ~disturbed[l] => \A y \in 1..k : y <= Len(records[l]) =>
                      Landed(records'[l][y])
                BY <3>8, <3>9
            <4>2. ~disturbed[l] => \A y \in 1..k : y <= Len(records[l]) =>
                      InBucket(records[l][y])'
                BY <4>1 DEF InBucket, Documented
            <4> QED
                BY <3>9, <4>2
        <3>13. ~disturbed'[l] => (Len(ledger'[l]) = Len(records'[l]) + 1 =>
                   InBucket(SidecarEntry(run[l], config[l].lookup))')
            <4>1. SidecarEntry(run[l], config[l].lookup)' = SidecarEntry(run[l], g)
                BY <3>9 DEF SidecarEntry, SidecarOf
            <4>2. ~disturbed[l] /\ k = Len(records[l]) + 1 =>
                      InBucket(SidecarEntry(run[l], config[l].lookup))'
                BY <3>5, <4>1 DEF InBucket, Documented
            <4> QED
                BY <3>9, <4>2
        <3> QED
            BY <2>3, <3>11, <3>12, <3>13 DEF Confirmed
    <2>4. CASE q = l /\ phase'[l] # "uploading"
        BY <2>4 DEF Confirmed
    <2> QED
        BY <2>2, <2>3, <2>4
<1>8. ASSUME ~Dedup, NEW i \in 1..Len(bucket) PROVE WholeAt(i)'
    <2>1. WholeAt(i)
        BY <1>8 DEF BucketInv
    <2>2. Len(bucket) \in Nat
        BY DEF StepInv, SinkTypes
    <2>3. bucket'[i] = bucket[i] /\ \A j \in 1..(i - 1) : bucket'[j] = bucket[j]
        BY <1>1, <2>2
    <2> QED
        BY <2>1, <2>3 DEF WholeAt, Documented
<1>9. ASSUME ~Dedup PROVE WholeAt(n)'
    <2>1. Confirmed(l) /\ Len(ledger[l]) \in Nat /\ Len(records[l]) \in Nat
        BY <1>9 DEF BucketInv, StepInv, SinkTypes
    <2>2. CASE f.type # ManifestType \/ disturbed[l]
        BY <1>0, <1>1, <2>2 DEF WholeAt
    <2>3. CASE f.type = ManifestType /\ ~disturbed[l]
        <3>1. k > Len(records[l]) + 1
            <4>1. k <= Len(records[l]) => obj.type = ShardType
                BY <1>0, NextUploadIs
            <4>2. k = Len(records[l]) + 1 => obj.type = SidecarType
                BY <1>0, NextUploadIs
            <4> QED
                BY <1>0, <1>1, <2>1, <2>3, <4>1, <4>2 DEF ShardType, SidecarType, ManifestType
        <3>2. Len(ledger[l]) = Len(records[l]) + 1
            BY <1>0, <2>1, <3>1 DEF Confirmed
        <3>3. f.content = ManifestOf(run[l], g)
            <4>1. IsAsMeant(obj, run[l], g)
                BY <1>0, <2>3, NextUploadIs
            <4> QED
                BY <1>1, <2>3, <4>1 DEF IsAsMeant, ShardType, SidecarType, ManifestType
        <3>4. InBucket(SidecarEntry(run[l], g))
            BY <1>0, <2>1, <2>3, <3>2 DEF Confirmed
        <3>5. \A y \in 1..Len(records[l]) : InBucket(records[l][y])
            <4>1. \A y \in 1..Len(records[l]) : y \in 1..Len(ledger[l]) /\ y <= Len(records[l])
                BY <2>1, <3>2
            <4> QED
                BY <2>1, <2>3, <4>1 DEF Confirmed
        <3>6. ASSUME NEW e \in RecordsOf(run[l]) PROVE InBucket(e)
            <4>1. DOMAIN records[l] = 1..Len(records[l]) /\ phase[l] \in Assembled
                BY DEF StepInv, SinkTypes, Assembled
            <4>2. {records[l][x] : x \in DOMAIN records[l]} = RecordsOf(run[l])
                BY <2>3, <4>1, RecordsAreTheRun
            <4>3. PICK y \in 1..Len(records[l]) : records[l][y] = e
                BY <3>6, <4>1, <4>2
            <4> QED
                BY <3>5, <4>3
        <3>7. \A e \in f.content.shards \cup {f.content.sidecar} : InBucket(e)
            BY <3>3, <3>4, <3>6 DEF ManifestOf
        <3>8. \A e \in f.content.shards \cup {f.content.sidecar} :
                 \E j \in 1..(n - 1) : /\ bucket'[j].documented
                                       /\ bucket'[j].name = e.name
                                       /\ bucket'[j].content = e.sha256
            BY <1>1, <3>7 DEF InBucket, Documented
        <3> QED
            BY <1>0, <3>8 DEF WholeAt, Documented
    <2> QED
        BY <2>2, <2>3
<1>10. \A i \in 1..Len(bucket') : i \in 1..Len(bucket) \/ i = n
    BY <1>1
<1>11. ASSUME NEW i \in 1..Len(bucket'), bucket'[i] \notin ArtifactFile
       PROVE  SoundOrigin(bucket[i])'
    <2>1. CASE i \in 1..Len(bucket)
        <3>1. bucket'[i] = bucket[i] /\ SoundOrigin(bucket[i])'
            BY <1>1, <1>3, <1>11, <2>1
        <3> QED
            BY <3>1 DEF SoundOrigin
    <2>2. CASE i = n
        <3>1. bucket'[i] = f
            BY <1>0, <2>2
        <3> QED
            BY <1>4, <3>1 DEF SoundOrigin
    <2> QED
        BY <1>10, <2>1, <2>2
<1>12. ASSUME ~Dedup, NEW i \in 1..Len(bucket') PROVE WholeAt(i)'
    BY <1>8, <1>9, <1>10, <1>12
<1> QED
    BY <1>7, <1>11, <1>12 DEF BucketInv

(* What an upload of launch l leaves keeps the bucket's part.               *)
LEMMA UploadFailureKeeps ==
    ASSUME StepInv, BucketInv, NEW l \in Launches, phase[l] = "uploading",
           NEW obj \in NextUploads(l), UploadFails(l, obj),
           NEW p \in {"torn", "crashed"}, phase' = [phase EXCEPT ![l] = p],
           UNCHANGED <<run, config, records, ledger, disturbed>>
    PROVE  BucketInv'
<1>1. /\ phase'[l] = p /\ p # "idle" /\ p # "uploading"
      /\ \A q \in Launches : q # l => phase'[q] = phase[q]
    BY DEF StepInv, SinkTypes
<1>2. CASE UNCHANGED bucket
    BY <1>1, <1>2, QuietKeeps DEF OthersStay, MoreDisturbed
<1>3. CASE \E d \in BOOLEAN : bucket' = Stored(l, obj, d)
    BY <1>1, <1>3, LandsKeeps
<1> QED
    BY <1>2, <1>3 DEF UploadFails

(* A confirmed upload: landed anew, or a twin the store recognised.         *)
LEMMA UploadConfirmedKeepsBucket ==
    ASSUME StepInv, BucketInv, NEW l \in Launches, UploadConfirmed(l)
    PROVE  BucketInv'
<1>1. PICK obj \in NextUploads(l), id \in 1..(Len(bucket) + 1) :
          /\ UploadSucceeds(l, obj, id)
          /\ ledger' = [ledger EXCEPT ![l] =
                           Append(@, [name |-> obj.name, id |-> id, type |-> obj.type])]
          /\ Goto(l, IF obj.type = ManifestType THEN "delivered" ELSE "uploading")
    BY DEF UploadConfirmed
<1> DEFINE x == [name |-> obj.name, id |-> id, type |-> obj.type]
<1>2. phase[l] = "uploading" /\ UNCHANGED <<run, config, records, disturbed>>
    BY DEF UploadConfirmed
<1>3. /\ phase'[l] = IF obj.type = ManifestType THEN "delivered" ELSE "uploading"
      /\ phase'[l] # "idle"
      /\ \A q \in Launches : q # l => phase'[q] = phase[q] /\ ledger'[q] = ledger[q]
    BY <1>1, <1>2 DEF StepInv, SinkTypes, Goto
<1>4. x \in LedgerEntry /\ ledger'[l] = Append(ledger[l], x)
    <2>1. Len(bucket) \in Nat /\ ledger \in [Launches -> Seq(LedgerEntry)]
        BY DEF StepInv, SinkTypes
    <2>2. x \in LedgerEntry
        BY <1>2, <2>1, NextUploadTyped DEF LedgerEntry, Types
    <2>3. ledger' = [ledger EXCEPT ![l] = Append(@, x)]
        BY <1>1
    <2> HIDE DEF x
    <2> QED
        BY <2>1, <2>2, <2>3
<1>5. CASE bucket' = Stored(l, obj, TRUE)
    <2>1. phase'[l] = "uploading" =>
              TRUE /\ obj.type # ManifestType
              /\ \E y : ledger'[l] = Append(ledger[l], y) /\ y \in LedgerEntry
        BY <1>3, <1>4
    <2> QED
        BY <1>2, <1>3, <1>5, <2>1, LandsKeeps
<1>6. CASE UNCHANGED bucket /\ Dedup
    BY <1>2, <1>3, <1>6, QuietKeeps DEF OthersStay, MoreDisturbed
<1>7. UNCHANGED bucket /\ id \in Twins(obj) => Dedup
    BY DEF Twins
<1> QED
    BY <1>1, <1>5, <1>6, <1>7 DEF UploadSucceeds

(* The bucket is empty at first.                                            *)
LEMMA InitBucketInv == Init => BucketInv
BY DEF Init, BucketInv, Confirmed

(* Every step keeps BucketInv.                                              *)
LEMMA StepKeepsBucket ==
    ASSUME StepInv, BucketInv, [Next]_vars
    PROVE  BucketInv'
<1>1. CASE Next
    <2>1. PICK l \in Launches : \/ \E r \in Runs, c \in Configs : Start(l, r, c)
                                \/ Step(l) \/ Crash(l)
        BY <1>1 DEF Next
    <2>2. CASE \E r \in Runs, c \in Configs : Start(l, r, c)
        <3>1. PICK r \in Runs, c \in Configs : Start(l, r, c)
            BY <2>2
        <3>2. /\ UNCHANGED <<bucket, records, ledger, disturbed>> /\ phase[l] = "idle"
              /\ phase'[l] = "loading"
              /\ \A q \in Launches : q # l => phase'[q] = phase[q] /\ run'[q] = run[q]
                                              /\ config'[q] = config[q]
            BY <3>1 DEF StepInv, SinkTypes, Start, Goto
        <3> QED
            BY <3>2, QuietKeeps DEF OthersStay, MoreDisturbed
    <2>3. CASE OpenFile(l) \/ WriteFile(l)
        <3>1. /\ UNCHANGED <<bucket, phase, run, config, records, ledger>>
              /\ phase[l] \in Writing
            BY <2>3 DEF OpenFile, WriteFile
        <3>2. MoreDisturbed
            BY <2>3 DEF OpenFile, WriteFile, MoreDisturbed
        <3> QED
            BY <3>1, <3>2, QuietKeeps DEF OthersStay, Writing
    <2>4. CASE LoadFails(l) \/ RefuseTarget(l) \/ RefuseFile(l)
        <3>1. /\ UNCHANGED <<bucket, run, config, records, ledger, disturbed>>
              /\ phase' = [phase EXCEPT ![l] = "refused"]
            BY <2>4 DEF LoadFails, RefuseTarget, RefuseFile, Move, Goto
        <3>2. phase'[l] = "refused" /\ \A q \in Launches : q # l => phase'[q] = phase[q]
            BY <3>1 DEF StepInv, SinkTypes
        <3> QED
            BY <3>1, <3>2, QuietKeeps DEF OthersStay, MoreDisturbed
    <2>5. CASE AcceptTarget(l) \/ RecordShard(l) \/ RecordSidecar(l)
        <3>1. /\ UNCHANGED <<bucket, run, config, ledger, disturbed>>
              /\ \A q \in Launches : q # l => records'[q] = records[q]
            BY <2>5 DEF AcceptTarget, RecordShard, RecordSidecar, StepInv, SinkTypes
        <3>2. PICK p \in {"slicing", "sidecar", "loading", "manifest"} :
                  phase' = [phase EXCEPT ![l] = p]
            BY <2>5 DEF AcceptTarget, RecordShard, RecordSidecar, Goto
        <3>3. /\ phase'[l] # "idle" /\ phase'[l] # "uploading"
              /\ \A q \in Launches : q # l => phase'[q] = phase[q]
            BY <3>2 DEF StepInv, SinkTypes
        <3> QED
            BY <3>1, <3>3, QuietKeeps DEF OthersStay, MoreDisturbed
    <2>6. CASE Interlock(l)
        <3>1. /\ UNCHANGED <<bucket, run, config, records, ledger, disturbed>>
              /\ phase[l] = "manifest"
              /\ \E p \in {"staged", "refused", "uploading"} : phase' = [phase EXCEPT ![l] = p]
            BY <2>6 DEF Interlock, Goto, AfterStaging
        <3>2. /\ phase'[l] # "idle" /\ \A q \in Launches : q # l => phase'[q] = phase[q]
            BY <3>1 DEF StepInv, SinkTypes
        <3>3. ledger[l] = <<>> /\ Len(records[l]) \in Nat
            BY <3>1 DEF StepInv, SinkTypes, LaunchInv, Progress, Running, Writing
        <3> QED
            BY <3>1, <3>2, <3>3, QuietKeeps DEF OthersStay, MoreDisturbed
    <2>7. CASE UploadConfirmed(l)
        BY <2>7, UploadConfirmedKeepsBucket
    <2>8. CASE UploadTears(l)
        BY <2>8, UploadFailureKeeps DEF UploadTears, Goto
    <2>9. CASE Crash(l)
        <3>1. /\ phase[l] \in Running /\ phase' = [phase EXCEPT ![l] = "crashed"]
              /\ UNCHANGED <<run, config, records, ledger, disturbed>>
            BY <2>9 DEF Crash, Goto
        <3>2. CASE ~UNCHANGED bucket
            <4>1. phase[l] = "uploading" /\ \E obj \in NextUploads(l) : UploadFails(l, obj)
                BY <2>9, <3>2 DEF Crash
            <4> QED
                BY <3>1, <4>1, UploadFailureKeeps
        <3>3. CASE UNCHANGED bucket
            <4>1. /\ phase'[l] = "crashed" /\ \A q \in Launches : q # l => phase'[q] = phase[q]
                BY <3>1 DEF StepInv, SinkTypes
            <4> QED
                BY <3>1, <3>3, <4>1, QuietKeeps DEF OthersStay, MoreDisturbed
        <3> QED
            BY <3>2, <3>3
    <2> QED
        BY <2>1, <2>2, <2>3, <2>4, <2>5, <2>6, <2>7, <2>8, <2>9 DEF Step, Advance
<1>2. CASE UNCHANGED vars
    BY <1>2 DEF BucketInv, SoundOrigin, IsFileOf, IsAsMeant, Confirmed, WholeAt, InBucket,
                Documented, vars, sinkVars, progress
<1> QED
    BY <1>1, <1>2

(* Every file in the bucket is a file of a fit run whose upload was         *)
(* declared, with the bytes its run and lookup determine if nobody wrote    *)
(* beneath its launch; and, in a store that keeps every copy, such a        *)
(* launch's ledger is backed by the bucket and its manifest by what it      *)
(* lists.                                                                   *)
THEOREM BucketIsSound == Spec => [](StepInv /\ BucketInv)
<1>1. Init => BucketInv
    BY InitBucketInv
<1>2. StepInv /\ BucketInv /\ [Next]_vars => BucketInv'
    BY StepKeepsBucket
<1> QED
    BY <1>1, <1>2, StagingHolds, PTL DEF Spec

(* Under the sink's own specification nothing else is in the bucket. *)
SinkAlone == \A i \in 1..Len(bucket) : bucket[i] \notin ArtifactFile

(* What a step of the sink may do to the bucket. *)
LEMMA BucketSteps ==
    ASSUME [Next]_vars
    PROVE  \/ UNCHANGED bucket
           \/ \E l \in Launches : phase[l] = "uploading" /\
                 \E obj \in NextUploads(l), d \in BOOLEAN : bucket' = Stored(l, obj, d)
<1>1. ASSUME NEW l \in Launches,
             \/ \E obj \in NextUploads(l) : \/ UploadFails(l, obj)
                                            \/ \E id : UploadSucceeds(l, obj, id)
      PROVE  \/ UNCHANGED bucket
             \/ \E obj \in NextUploads(l), d \in BOOLEAN : bucket' = Stored(l, obj, d)
    BY <1>1 DEF UploadSucceeds, UploadFails
<1>2. ASSUME NEW l \in Launches, UploadConfirmed(l) \/ UploadTears(l) \/ Crash(l), ~UNCHANGED bucket
      PROVE  /\ phase[l] = "uploading"
             /\ \E obj \in NextUploads(l) : \/ UploadFails(l, obj)
                                            \/ \E id : UploadSucceeds(l, obj, id)
    BY <1>2 DEF UploadConfirmed, UploadTears, Crash
<1>3. ASSUME NEW l \in Launches,
             \/ LoadFails(l) \/ RefuseTarget(l) \/ AcceptTarget(l) \/ OpenFile(l) \/ WriteFile(l)
             \/ RecordShard(l) \/ RecordSidecar(l) \/ RefuseFile(l) \/ Interlock(l)
      PROVE  UNCHANGED bucket
    BY <1>3 DEF LoadFails, RefuseTarget, AcceptTarget, OpenFile, WriteFile, RecordShard,
                RecordSidecar, RefuseFile, Interlock, Move
<1>4. ASSUME NEW l \in Launches, NEW r \in Runs, NEW c \in Configs, Start(l, r, c)
      PROVE  UNCHANGED bucket
    BY <1>4 DEF Start
<1>5. CASE UNCHANGED vars
    BY <1>5 DEF vars
<1> QED
    BY <1>1, <1>2, <1>3, <1>4, <1>5 DEF Next, Step, Advance

LEMMA LandsAlone ==
    ASSUME StepInv, SinkAlone, NEW l \in Launches, phase[l] = "uploading",
           NEW obj \in NextUploads(l), NEW d \in BOOLEAN, bucket' = Stored(l, obj, d)
    PROVE  SinkAlone'
<1>1. /\ Len(bucket') = Len(bucket) + 1
      /\ \A i \in 1..Len(bucket) : bucket'[i] = bucket[i]
      /\ bucket'[Len(bucket) + 1].type = obj.type
    <2>1. PICK n, f : n = Len(bucket) + 1 /\ f = bucket'[n]
        OBVIOUS
    <2>2. /\ Len(bucket') = n
          /\ \A i \in 1..Len(bucket) : bucket'[i] = bucket[i]
          /\ f = [name |-> obj.name, type |-> obj.type, category |-> Forecast,
                  content |-> obj.content, documented |-> d, by |-> l]
        BY <2>1, BucketGrows
    <2> QED
        BY <2>1, <2>2
<1>2. Len(bucket) \in Nat
    BY DEF StepInv, SinkTypes
<1>3. bucket'[Len(bucket) + 1].type # HistoryType
    BY <1>1, NextUploadTyped DEF ShardType, SidecarType, ManifestType, HistoryType
<1>4. bucket'[Len(bucket) + 1] \notin ArtifactFile
    BY <1>3 DEF ArtifactFile
<1> QED
    BY <1>1, <1>2, <1>4 DEF SinkAlone

(* The sink uploads nothing of the historical leg's type, so that by itself *)
(* it leaves no historical artifact in the bucket.                          *)
LEMMA OnlyTheSinkUploads == Spec => []SinkAlone
<1>1. Init => SinkAlone
    BY DEF Init, SinkAlone
<1>2. ASSUME StepInv, SinkAlone, [Next]_vars PROVE SinkAlone'
    <2>1. CASE UNCHANGED bucket
        BY <1>2, <2>1 DEF SinkAlone
    <2>2. CASE ~UNCHANGED bucket
        BY <1>2, <2>2, BucketSteps, LandsAlone
    <2> QED
        BY <2>1, <2>2
<1> QED
    BY <1>1, <1>2, StagingHolds, PTL DEF Spec

(* The types: whatever fails, crashes or overlaps, every variable keeps its *)
(* range, and what is uploaded is always a staged file or a fragment of     *)
(* one, never the absence of one.                                           *)
THEOREM TypeCorrect == Spec => []TypeOK
<1>1. ASSUME StepInv, SinkAlone PROVE TypeOK
    <2>1. bucket \in Seq(BucketFile)
        BY <1>1 DEF StepInv, SinkTypes
    <2>2. \A i \in 1..Len(bucket) : bucket[i] \in File
        BY <1>1, <2>1 DEF SinkAlone, BucketFile
    <2>3. bucket \in Seq(File)
        BY <2>1, <2>2
    <2> QED
        BY <1>1, <2>3 DEF StepInv, SinkTypes, TypeOK
<1> QED
    BY <1>1, StagingHolds, OnlyTheSinkUploads, PTL

(* Nothing of a launch is in the partner's bucket unless its upload was     *)
(* declared and its whole run is fit, whatever failed or overlapped.        *)
THEOREM OnlyFitRuns == Spec => []OnlyFitRunsReachTheStore
<1>1. ASSUME StepInv, BucketInv, SinkAlone PROVE OnlyFitRunsReachTheStore
    <2>1. DOMAIN bucket = 1..Len(bucket)
        BY <1>1 DEF StepInv, SinkTypes
    <2> QED
        BY <1>1, <2>1 DEF BucketInv, SinkAlone, SoundOrigin, OnlyFitRunsReachTheStore, FileIds
<1> QED
    BY <1>1, BucketIsSound, OnlyTheSinkUploads, PTL

(* Files as their writers meant them, of one name and type, have one        *)
(* content: a shard by its run, a sidecar by its run and lookup.            *)
LEMMA NameFixesContent ==
    ASSUME NEW f, NEW r \in Runs, NEW s \in Runs, NEW g, NEW h, IsAsMeant(f, s, h)
    PROVE  /\ \A e \in RecordsOf(r) : f.type = ShardType /\ f.name = e.name
                                      => f.content = e.sha256
           /\ f.type = SidecarType /\ f.name = SidecarName(r) /\ g = h
              => f.content = SidecarOf(r, g)
<1>1. ASSUME NEW e \in RecordsOf(r), f.type = ShardType, f.name = e.name
      PROVE  f.content = e.sha256
    <2>1. PICK d \in RecordsOf(s) : f.name = d.name /\ f.content = d.sha256
        BY <1>1 DEF IsAsMeant, ShardType, SidecarType, ManifestType
    <2>2. \E t, m : d = RecordOf(s, t, m)
        BY DEF RecordsOf
    <2>3. \E t, m : e = RecordOf(r, t, m)
        BY <1>1 DEF RecordsOf
    <2>4. PICK t, m : d = RecordOf(s, t, m)
        BY <2>2
    <2>5. PICK u, n : e = RecordOf(r, u, n)
        BY <2>3
    <2>6. ShardName(s, t, m) = ShardName(r, u, n)
        BY <1>1, <2>1, <2>4, <2>5 DEF RecordOf, ShardRecord
    <2>7. s = r /\ t = u /\ m = n
        BY <2>6, NamesDistinct
    <2> QED
        BY <2>1, <2>4, <2>5, <2>7
<1>2. ASSUME f.type = SidecarType, f.name = SidecarName(r), g = h PROVE f.content = SidecarOf(r, g)
    BY <1>2, NamesDistinct DEF IsAsMeant, ShardType, SidecarType, ManifestType
<1> QED
    BY <1>1, <1>2

(* A file that is no historical artifact is the sink's. *)
LEMMA SinkFilesAreSound ==
    ASSUME BucketInv, NEW i \in 1..Len(bucket), bucket[i].type # HistoryType
    PROVE  SoundOrigin(bucket[i])
BY DEF BucketInv, ArtifactFile

(* The content of a visible manifest is that of its run and lookup, if      *)
(* nobody wrote beneath its launch.                                         *)
LEMMA ManifestContent ==
    ASSUME StepInv, BucketInv, NEW i \in ManifestIds
    PROVE  /\ i \in 1..Len(bucket) /\ bucket[i].type = ManifestType
           /\ bucket[i].by \in Launches /\ run[bucket[i].by] \in Runs
           /\ bucket[i].name = ManifestName(run[bucket[i].by])
           /\ ~disturbed[bucket[i].by] =>
                 bucket[i].content = ManifestOf(run[bucket[i].by], config[bucket[i].by].lookup)
<1>1. i \in 1..Len(bucket) /\ bucket[i].type = ManifestType
    BY DEF StepInv, SinkTypes, ManifestIds, Matching, FileIds
<1>2. SoundOrigin(bucket[i]) /\ bucket[i].by \in Launches
    BY <1>1, SinkFilesAreSound, FileTyped DEF ManifestType, HistoryType
<1> QED
    BY <1>1, <1>2 DEF SoundOrigin, IsFileOf, IsAsMeant, ShardType, SidecarType, ManifestType

(* Retried deliveries of one run carry the same bytes under the same names, *)
(* so that the order of a query's answer is of no matter, as long as no     *)
(* launch wrote beneath another and, for the sidecar, the lookup was not    *)
(* rebuilt in between.                                                      *)
THEOREM CarriersAgree == Spec => []RetriesAgree
<1>1. ASSUME StepInv, BucketInv PROVE RetriesAgree
    <2> SUFFICES ASSUME NEW i \in ManifestIds, ~disturbed[bucket[i].by]
                 PROVE  /\ \A e \in bucket[i].content.shards :
                              \A j \in CarriersOf(e.name, Forecast, ShardType) :
                                  disturbed[bucket[j].by] \/ bucket[j].content = e.sha256
                        /\ LET e == bucket[i].content.sidecar
                           IN  \A j \in CarriersOf(e.name, Forecast, SidecarType) :
                                  \/ disturbed[bucket[j].by]
                                  \/ config[bucket[j].by].lookup # config[bucket[i].by].lookup
                                  \/ bucket[j].content = e.sha256
        BY DEF RetriesAgree
    <2>0. PICK g : g = config[bucket[i].by].lookup
        OBVIOUS
    <2>1. PICK r \in Runs : bucket[i].content = ManifestOf(r, g)
        BY <1>1, <2>0, ManifestContent
    <2>2. /\ bucket[i].content.shards = RecordsOf(r)
          /\ bucket[i].content.sidecar = SidecarEntry(r, g)
        BY <2>1 DEF ManifestOf
    <2>3. ASSUME NEW j \in FileIds, bucket[j].type # HistoryType, ~disturbed[bucket[j].by]
          PROVE  \E s \in Runs : IsAsMeant(bucket[j], s, config[bucket[j].by].lookup)
        <3>1. FileIds = 1..Len(bucket)
            BY <1>1 DEF StepInv, SinkTypes, FileIds
        <3> QED
            BY <1>1, <2>3, <3>1, SinkFilesAreSound DEF SoundOrigin
    <2>4. ASSUME NEW e \in RecordsOf(r), NEW j \in CarriersOf(e.name, Forecast, ShardType),
                 ~disturbed[bucket[j].by]
          PROVE  bucket[j].content = e.sha256
        <3>1. j \in FileIds /\ bucket[j].type = ShardType /\ bucket[j].name = e.name
            BY DEF CarriersOf, Matching
        <3>2. PICK s \in Runs : IsAsMeant(bucket[j], s, config[bucket[j].by].lookup)
            BY <2>3, <2>4, <3>1 DEF ShardType, HistoryType
        <3> QED
            BY <3>1, <3>2, NameFixesContent
    <2>5. ASSUME NEW j \in CarriersOf(SidecarEntry(r, g).name, Forecast, SidecarType),
                 ~disturbed[bucket[j].by], config[bucket[j].by].lookup = g
          PROVE  bucket[j].content = SidecarEntry(r, g).sha256
        <3>1. j \in FileIds /\ bucket[j].type = SidecarType /\ bucket[j].name = SidecarName(r)
            BY DEF CarriersOf, Matching, SidecarEntry
        <3>2. PICK s \in Runs : IsAsMeant(bucket[j], s, g)
            BY <2>3, <2>5, <3>1 DEF SidecarType, HistoryType
        <3>3. bucket[j].content = SidecarOf(r, g)
            BY <3>1, <3>2, NameFixesContent
        <3> QED
            BY <3>3 DEF SidecarEntry
    <2> QED
        BY <2>0, <2>2, <2>4, <2>5
<1> QED
    BY <1>1, BucketIsSound, PTL

(* A run is whole or invisible, in a store that keeps every copy: whenever  *)
(* a manifest of a launch nobody wrote beneath is in the bucket, all it     *)
(* lists was there before it.                                               *)
THEOREM RunsAreWhole ==
    ASSUME ~Dedup
    PROVE  Spec => []CommittedRunIsWhole
<1>1. ASSUME StepInv, BucketInv PROVE CommittedRunIsWhole
    <2>1. ASSUME NEW i \in ManifestIds, ~disturbed[bucket[i].by]
          PROVE  /\ WholeAt(i) /\ bucket[i].type = ManifestType
                 /\ bucket[i].content.kind = "manifest"
        <3>1. /\ i \in 1..Len(bucket) /\ bucket[i].type = ManifestType
              /\ bucket[i].content = ManifestOf(run[bucket[i].by], config[bucket[i].by].lookup)
            BY <1>1, <2>1, ManifestContent
        <3> QED
            BY <1>1, <3>1 DEF BucketInv, ManifestOf
    <2> QED
        BY <2>1 DEF CommittedRunIsWhole, Whole, WholeAt
<1> QED
    BY <1>1, BucketIsSound, PTL
=============================================================================
