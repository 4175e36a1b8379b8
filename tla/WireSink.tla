------------------------------ MODULE WireSink ------------------------------
(***************************************************************************)
(* deliver_run (contract/wire/sink.py): the Hop-B sink that turns the      *)
(* leased targets of one producer run into shards, a sidecar and a run     *)
(* manifest in the partner's bucket.                                       *)
(*                                                                         *)
(* A launch is one execution of deliver_run.  Launches share the bucket    *)
(* and the staging tree (data_generated/wire_contract/<run_id>, never      *)
(* emptied), may overlap, may die at any step, and a later launch of the   *)
(* same run is what a retry is.  Within a launch the code is sequential;   *)
(* an action is the stretch between two points where another launch, the   *)
(* store or a crash can be observed: one target, the opening, the writing  *)
(* or the hashing of one staged file, one upload.                          *)
(*                                                                         *)
(* The bytes of a file are modelled by what determines them, so a hash is  *)
(* the content itself.  A shard embeds its producer header, hence its run; *)
(* a sidecar is the geography the lookup gives its cells.  What is read of *)
(* a file while somebody writes it is a fragment.                          *)
(***************************************************************************)
EXTENDS PartnerStore

CONSTANTS
    Runs,          \* run ids
    Targets,       \* forecast targets
    Months,        \* month ids
    Cells,         \* PRIO-GRID cells
    TargetOrder,   \* the declared targets in order (product.TARGETS, keys of per_target)
    Shelf,         \* Shelf[t][r]: the frame the lease of target t of run r loads
    Geographies,   \* the geographies a cell may have
    Lookups,       \* the GAUL lookups a launch may have loaded: rebuilt between two of them
    SMin,          \* the consumer-facing draw floor (product.S_MIN)
    Pieces,        \* what an incomplete file may look like
    None

(* A lookup knows the geography of some cells. *)
Tables == UNION {[known -> Geographies] : known \in SUBSET Cells}

(* What lease.load() returns, as far as the sink looks at it: the run ids   *)
(* its headers name, the declared sample count, the draws per row, whether  *)
(* the draws of some row vary, the month of each header in manifest order,  *)
(* and the cells each month has rows for.                                   *)
Frame ==
    [runs : (SUBSET Runs) \ {{}}, declared : Nat, width : Nat, varied : BOOLEAN,
     headers : Seq(Months) \ {<<>>}, cells : [Months -> SUBSET Cells]]

ASSUME SinkAssumption ==
    /\ IsFiniteSet(Cells)
    /\ TargetOrder \in Seq(Targets) \ {<<>>}
    /\ \A i, j \in DOMAIN TargetOrder : TargetOrder[i] = TargetOrder[j] => i = j
    /\ Shelf \in [Targets -> [Runs -> Frame]]
    /\ SMin \in Nat
    /\ Lookups \subseteq Tables
    /\ Pieces # {}

(* What the producer's publisher promises of the shards it lists in one     *)
(* manifest: their headers name that run, if they agree at all, and one     *)
(* month each.                                                              *)
ASSUME PublisherAssumption ==
    \A t \in Targets, r \in Runs :
        /\ \A s \in Runs : Shelf[t][r].runs = {s} => s = r
        /\ \A i, j \in DOMAIN Shelf[t][r].headers :
              Shelf[t][r].headers[i] = Shelf[t][r].headers[j] => i = j

RunFacts == [run : Runs, months : SUBSET Months, cells : SUBSET Cells]

ASSUME NoneIsNothing == None \notin Runs \cup RunFacts

VARIABLES
    phase,      \* where a launch stands in deliver_run
    run,        \* the run resolve_run leased for it
    config,     \* its keyword arguments store, upload_enabled and lookup
    at,         \* how many targets are staged
    sliced,     \* how many shards of the next target are staged
    reference,  \* run-level facts of the first target
    pen,        \* how far the file it is at in the staging tree is written
    records,    \* shard_records
    sidecar,    \* sidecar_record
    ledger,     \* the in-memory list of confirmed uploads
    failedOn,   \* the object the torn-run refusal names
    staging,    \* the content of each staged file, shared by all launches
    disturbed   \* history: another launch wrote in its directory while it ran

progress == <<phase, run, config, at, sliced, reference, pen, records, sidecar, ledger, failedOn>>
sinkVars == <<progress, staging, disturbed>>
vars == <<bucket, sinkVars>>

Writing  == {"slicing", "sidecar", "manifest"}
Running  == {"loading", "uploading"} \cup Writing
Finished == {"staged", "delivered", "refused", "torn", "crashed"}

-----------------------------------------------------------------------------
(* File names (naming.py) and contents (shard.py, sidecar.py,               *)
(* run_manifest.py).                                                        *)

ShardName(r, t, m) == [kind |-> "shard", run |-> r, target |-> t, month |-> m]
SidecarName(r)     == [kind |-> "sidecar", run |-> r]
ManifestName(r)    == [kind |-> "manifest", run |-> r]

FileNames ==
    [kind : {"shard"}, run : Runs, target : Targets, month : Months]
        \cup [kind : {"sidecar", "manifest"}, run : Runs]

(* A file that is being written, and what a reader makes of it then. *)
Partial   == [kind |-> "partial"]
Fragments == [kind : {"fragment"}, bytes : Pieces]

MonthsOf(f) == {f.headers[k] : k \in DOMAIN f.headers}
CellsOf(f)  == UNION {f.cells[m] : m \in Months}
RunOf(f)    == CHOOSE r \in Runs : f.runs = {r}

(* write_shard: one month of the frame, the producer's header re-embedded. *)
ShardBytes(t, f, m) ==
    [kind |-> "shard", run |-> RunOf(f), target |-> t, month |-> m,
     cells |-> f.cells[m]]

ShardRecord(name, t, m, hash) ==
    [name |-> name, target |-> t, month |-> m, sha256 |-> hash]

(* build_sidecar and write_table: the geography the lookup has for exactly  *)
(* the given cells.                                                         *)
SidecarBytes(lookup, gids) ==
    [kind |-> "sidecar", geography |-> [c \in gids |-> lookup[c]]]

(* build_run_manifest. *)
ManifestBytes(facts, recs, sidecarRec) ==
    [kind |-> "manifest", run |-> facts.run,
     shards |-> {recs[k] : k \in DOMAIN recs},
     months |-> facts.months, cellCount |-> Cardinality(facts.cells),
     sidecar |-> sidecarRec]

(* The no-collapse gate (delivery/draws.py); frames are 2-D already. *)
DrawsUncollapsed(f) ==
    /\ f.width = f.declared
    /\ f.declared >= SMin
    /\ f.varied

(* The run-level facts compared across targets. *)
Facts(f) == [run |-> RunOf(f), months |-> MonthsOf(f), cells |-> CellsOf(f)]

-----------------------------------------------------------------------------
Init ==
    /\ bucket = <<>>
    /\ phase = [l \in Launches |-> "idle"]
    /\ run = [l \in Launches |-> None]
    /\ config = [l \in Launches |-> None]
    /\ at = [l \in Launches |-> 0]
    /\ sliced = [l \in Launches |-> 0]
    /\ reference = [l \in Launches |-> None]
    /\ pen = [l \in Launches |-> "closed"]
    /\ records = [l \in Launches |-> <<>>]
    /\ sidecar = [l \in Launches |-> None]
    /\ ledger = [l \in Launches |-> <<>>]
    /\ failedOn = [l \in Launches |-> None]
    /\ staging = [n \in FileNames |-> None]
    /\ disturbed = [l \in Launches |-> FALSE]

Goto(l, p) == phase' = [phase EXCEPT ![l] = p]

(* A step that changes nothing but where its launch stands. *)
Move(l, p) ==
    /\ Goto(l, p)
    /\ UNCHANGED <<bucket, run, config, at, sliced, reference, pen, records, sidecar,
                   ledger, failedOn, staging, disturbed>>

(* deliver_run is called with the leases of one resolved run. *)
Start(l, r, c) ==
    /\ phase[l] = "idle"
    /\ Goto(l, "loading")
    /\ run' = [run EXCEPT ![l] = r]
    /\ config' = [config EXCEPT ![l] = c]
    /\ UNCHANGED <<bucket, at, sliced, reference, pen, records, sidecar, ledger, failedOn,
                   staging, disturbed>>

Target(l) == TargetOrder[at[l] + 1]
Loaded(l) == Shelf[Target(l)][run[l]]

(* The lease refuses, or the store failed under it. *)
LoadFails(l) ==
    /\ phase[l] = "loading" /\ at[l] < Len(TargetOrder)
    /\ Move(l, "refused")

(* The gate, headers that disagree on the run, a ragged run: each refuses   *)
(* before a byte of this target is staged.                                  *)
AcceptableUngated(l) ==        \* mutant: the no-collapse gate is not called
    /\ \E r \in Runs : Loaded(l).runs = {r}
    /\ reference[l] \in {None, Facts(Loaded(l))}

AcceptableAlone(l) ==          \* mutant: no comparison with the targets before
    /\ DrawsUncollapsed(Loaded(l))
    /\ \E r \in Runs : Loaded(l).runs = {r}

Acceptable(l) ==
    /\ DrawsUncollapsed(Loaded(l))
    /\ \E r \in Runs : Loaded(l).runs = {r}
    /\ reference[l] \in {None, Facts(Loaded(l))}

RefuseTarget(l) ==
    /\ phase[l] = "loading" /\ at[l] < Len(TargetOrder)
    /\ ~Acceptable(l)
    /\ Move(l, "refused")

AcceptTarget(l) ==
    /\ phase[l] = "loading" /\ at[l] < Len(TargetOrder)
    /\ Acceptable(l)
    /\ Goto(l, "slicing")
    /\ reference' = [reference EXCEPT ![l] = Facts(Loaded(l))]
    /\ UNCHANGED <<bucket, run, config, at, sliced, pen, records, sidecar, ledger, failedOn,
                   staging, disturbed>>

-----------------------------------------------------------------------------
(* Staging.  vf_arrow.save, pq.write_table and write_bytes open the file in *)
(* place, which empties it, and then write it; write_shard and write_table  *)
(* read it again for the hash.  The directory belongs to the run, so        *)
(* another launch of the run may be writing, hashing or uploading the same  *)
(* file meanwhile.                                                          *)

HeaderMonth(l) == Loaded(l).headers[sliced[l] + 1]

AtHand(l) ==
    CASE phase[l] = "slicing"  -> ShardName(RunOf(Loaded(l)), Target(l), HeaderMonth(l))
      [] phase[l] = "sidecar"  -> SidecarName(reference[l].run)
      [] phase[l] = "manifest" -> ManifestName(reference[l].run)

BytesAtHand(l) ==
    CASE phase[l] = "slicing"  -> ShardBytes(Target(l), Loaded(l), HeaderMonth(l))
      [] phase[l] = "sidecar"  -> SidecarBytes(config[l].lookup, reference[l].cells)
      [] phase[l] = "manifest" -> ManifestBytes(reference[l], records[l], sidecar[l])

(* month_slice finds rows of the header's month; build_sidecar finds the    *)
(* geography of every cell.                                                 *)
CanBeBuilt(l) ==
    CASE phase[l] = "slicing"  -> Loaded(l).cells[HeaderMonth(l)] # {}
      [] phase[l] = "sidecar"  -> reference[l].cells \subseteq DOMAIN config[l].lookup
      [] phase[l] = "manifest" -> TRUE

(* The other launches at work in this one's directory, and those of them    *)
(* that have the same file open.                                            *)
Neighbours(l) ==
    {k \in Launches \ {l} : /\ phase[k] \in Running
                            /\ reference[k] # None
                            /\ reference[k].run = reference[l].run}

Rivals(l) ==
    {k \in Neighbours(l) : pen[k] \in {"open", "clashing"} /\ AtHand(k) = AtHand(l)}

Clashing(l) == IF Rivals(l) = {} THEN {} ELSE Rivals(l) \cup {l}

(* The file is there and empty, whatever it held. *)
OpenFile(l) ==
    /\ phase[l] \in Writing /\ pen[l] = "closed"
    /\ CanBeBuilt(l)
    /\ staging' = [staging EXCEPT ![AtHand(l)] = Partial]
    /\ pen' = [k \in Launches |->
                  IF k \in Clashing(l) THEN "clashing" ELSE IF k = l THEN "open" ELSE pen[k]]
    /\ disturbed' = [k \in Launches |->
                        disturbed[k] \/ k \in Neighbours(l) \cup Clashing(l)]
    /\ UNCHANGED <<bucket, phase, run, config, at, sliced, reference, records, sidecar,
                   ledger, failedOn>>

(* Two writers of one file may leave what neither meant. *)
WriteFile(l) ==
    /\ phase[l] \in Writing /\ pen[l] \in {"open", "clashing"}
    /\ \E bytes \in {BytesAtHand(l)} \cup {b \in {Partial} : pen[l] = "clashing"} :
          staging' = [staging EXCEPT ![AtHand(l)] = bytes]
    /\ pen' = [pen EXCEPT ![l] = "written"]
    /\ disturbed' = [k \in Launches |-> disturbed[k] \/ k \in Neighbours(l)]
    /\ UNCHANGED <<bucket, phase, run, config, at, sliced, reference, records, sidecar,
                   ledger, failedOn>>

(* What reading a staged file may give. *)
Readings(name) == IF staging[name] = Partial THEN Fragments ELSE {staging[name]}

(* The second read of a shard and its record; the frame is released after   *)
(* the last month.                                                          *)
RecordShard(l) ==
    LET last == sliced[l] + 1 = Len(Loaded(l).headers)
    IN  /\ phase[l] = "slicing" /\ pen[l] = "written"
        /\ \E hash \in Readings(AtHand(l)) :
              records' = [records EXCEPT ![l] =
                  Append(@, ShardRecord(AtHand(l), Target(l), HeaderMonth(l), hash))]
        /\ pen' = [pen EXCEPT ![l] = "closed"]
        /\ sliced' = [sliced EXCEPT ![l] = IF last THEN 0 ELSE @ + 1]
        /\ at' = [at EXCEPT ![l] = IF last THEN @ + 1 ELSE @]
        /\ Goto(l, IF ~last THEN "slicing"
                   ELSE IF at[l] + 1 = Len(TargetOrder) THEN "sidecar" ELSE "loading")
        /\ UNCHANGED <<bucket, run, config, reference, sidecar, ledger, failedOn,
                       staging, disturbed>>

SidecarHashedEarly(l) ==       \* mutant: the hash is taken before the table is written
    /\ phase[l] = "sidecar" /\ pen[l] = "open"
    /\ \E hash \in Readings(AtHand(l)) :
          sidecar' = [sidecar EXCEPT ![l] = [name |-> AtHand(l), sha256 |-> hash]]
    /\ staging' = [staging EXCEPT ![AtHand(l)] = BytesAtHand(l)]
    /\ pen' = [pen EXCEPT ![l] = "closed"]
    /\ Goto(l, "manifest")
    /\ UNCHANGED <<bucket, run, config, at, sliced, reference, records, ledger, failedOn,
                   disturbed>>

RecordSidecar(l) ==
    /\ phase[l] = "sidecar" /\ pen[l] = "written"
    /\ \E hash \in Readings(AtHand(l)) :
          sidecar' = [sidecar EXCEPT ![l] = [name |-> AtHand(l), sha256 |-> hash]]
    /\ pen' = [pen EXCEPT ![l] = "closed"]
    /\ Goto(l, "manifest")
    /\ UNCHANGED <<bucket, run, config, at, sliced, reference, records, ledger, failedOn,
                   staging, disturbed>>

(* A header declares a month its frame has no row of, or a cell is not in   *)
(* the lookup: refused with nothing of this file staged.                    *)
RefuseFile(l) ==
    /\ phase[l] \in Writing
    /\ ~CanBeBuilt(l)
    /\ Move(l, "refused")

(* The interlock: nothing below runs unless uploading was declared. *)
AfterStagingWithAStore(l) ==   \* mutant: a store that is given is a store to upload to
    IF config[l].store THEN "uploading" ELSE "staged"

AfterStaging(l) ==
    IF ~config[l].enabled THEN "staged" ELSE IF ~config[l].store THEN "refused" ELSE "uploading"

InterlockUnwritten(l) ==       \* mutant: the manifest is built and never written
    /\ phase[l] = "manifest" /\ pen[l] = "closed"
    /\ Move(l, AfterStaging(l))

Interlock(l) ==
    /\ phase[l] = "manifest" /\ pen[l] = "written"
    /\ Goto(l, AfterStaging(l))
    /\ pen' = [pen EXCEPT ![l] = "closed"]
    /\ UNCHANGED <<bucket, run, config, at, sliced, reference, records, sidecar, ledger,
                   failedOn, staging, disturbed>>

-----------------------------------------------------------------------------
(* The upload loop: the shards in record order, the sidecar, the manifest.  *)
(* The file is read from staging when it is uploaded, not when it is hashed. *)

Staged(name, type) == {Upload(name, type, Forecast, bytes) : bytes \in Readings(name)}

ManifestBeforeSidecar(l) ==    \* mutant: the commit point is not last
    LET k == Len(ledger[l]) + 1
        r == reference[l].run
    IN  IF k <= Len(records[l]) THEN Staged(records[l][k].name, ShardType)
        ELSE IF k = Len(records[l]) + 1 THEN Staged(ManifestName(r), ManifestType)
        ELSE Staged(SidecarName(r), SidecarType)

NextUploads(l) ==
    LET k == Len(ledger[l]) + 1
        r == reference[l].run
    IN  IF k <= Len(records[l]) THEN Staged(records[l][k].name, ShardType)
        ELSE IF k = Len(records[l]) + 1 THEN Staged(SidecarName(r), SidecarType)
        ELSE Staged(ManifestName(r), ManifestType)

UploadConfirmed(l) ==
    /\ phase[l] = "uploading"
    /\ \E obj \in NextUploads(l), id \in 1..(Len(bucket) + 1) :
          /\ UploadSucceeds(l, obj, id)
          /\ ledger' = [ledger EXCEPT ![l] =
                           Append(@, [name |-> obj.name, id |-> id, type |-> obj.type])]
          /\ Goto(l, IF obj.type = ManifestType THEN "delivered" ELSE "uploading")
    /\ UNCHANGED <<run, config, at, sliced, reference, pen, records, sidecar, failedOn,
                   staging, disturbed>>

TearsOnTheLast(l) ==           \* mutant: the refusal names the last confirmed object
    /\ phase[l] = "uploading"
    /\ \E obj \in NextUploads(l) :
          /\ UploadFails(l, obj)
          /\ failedOn' = [failedOn EXCEPT ![l] =
                             IF ledger[l] = <<>> THEN obj.name ELSE ledger[l][Len(ledger[l])].name]
    /\ Goto(l, "torn")
    /\ UNCHANGED <<run, config, at, sliced, reference, pen, records, sidecar, ledger,
                   staging, disturbed>>

UploadTears(l) ==
    /\ phase[l] = "uploading"
    /\ \E obj \in NextUploads(l) :
          /\ UploadFails(l, obj)
          /\ failedOn' = [failedOn EXCEPT ![l] = obj.name]
    /\ Goto(l, "torn")
    /\ UNCHANGED <<run, config, at, sliced, reference, pen, records, sidecar, ledger,
                   staging, disturbed>>

(* The process dies, or a write to the staging tree raises; a file that was *)
(* open stays incomplete, and an upload in flight may still land.           *)
Crash(l) ==
    /\ phase[l] \in Running
    /\ Goto(l, "crashed")
    /\ pen' = [pen EXCEPT ![l] = "closed"]
    /\ \/ UNCHANGED bucket
       \/ phase[l] = "uploading" /\ \E obj \in NextUploads(l) : UploadFails(l, obj)
    /\ UNCHANGED <<run, config, at, sliced, reference, records, sidecar, ledger, failedOn,
                   staging, disturbed>>

-----------------------------------------------------------------------------
Configs == [store : BOOLEAN, enabled : BOOLEAN, lookup : Lookups]

Advance(l) ==
    \/ RefuseTarget(l) \/ AcceptTarget(l)
    \/ OpenFile(l) \/ WriteFile(l) \/ RecordShard(l) \/ RecordSidecar(l) \/ RefuseFile(l)
    \/ Interlock(l) \/ UploadConfirmed(l)

Step(l) == Advance(l) \/ LoadFails(l) \/ UploadTears(l)

Next ==
    \E l \in Launches :
        \/ \E r \in Runs, c \in Configs : Start(l, r, c)
        \/ Step(l)
        \/ Crash(l)

Spec == Init /\ [][Next]_vars
-----------------------------------------------------------------------------
(* Types. *)

ShardContents ==
    [kind : {"shard"}, run : Runs, target : Targets, month : Months,
     cells : SUBSET Cells]
SidecarContents == [kind : {"sidecar"}, geography : Tables]

ShardRecords ==
    [name : [kind : {"shard"}, run : Runs, target : Targets, month : Months],
     target : Targets, month : Months, sha256 : ShardContents \cup Fragments]
SidecarRecords ==
    [name : [kind : {"sidecar"}, run : Runs], sha256 : SidecarContents \cup Fragments]

ManifestContents ==
    [kind : {"manifest"}, run : Runs, shards : SUBSET ShardRecords,
     months : SUBSET Months, cellCount : Nat, sidecar : SidecarRecords]

Contents == ShardContents \cup SidecarContents \cup ManifestContents \cup Fragments

File == [name : FileNames, type : Types, category : {Forecast, Historical},
         content : Contents, documented : BOOLEAN, by : Launches]

LedgerEntry == [name : FileNames, id : Nat \ {0}, type : Types]

TypeOK ==
    /\ bucket \in Seq(File)
    /\ phase \in [Launches -> {"idle"} \cup Running \cup Finished]
    /\ run \in [Launches -> Runs \cup {None}]
    /\ config \in [Launches -> Configs \cup {None}]
    /\ at \in [Launches -> 0..Len(TargetOrder)]
    /\ sliced \in [Launches -> Nat]
    /\ reference \in [Launches -> RunFacts \cup {None}]
    /\ pen \in [Launches -> {"closed", "open", "clashing", "written"}]
    /\ records \in [Launches -> Seq(ShardRecords)]
    /\ sidecar \in [Launches -> SidecarRecords \cup {None}]
    /\ ledger \in [Launches -> Seq(LedgerEntry)]
    /\ failedOn \in [Launches -> FileNames \cup {None}]
    /\ staging \in [FileNames -> Contents \cup {Partial, None}]
    /\ disturbed \in [Launches -> BOOLEAN]

-----------------------------------------------------------------------------
(* Safety. *)

(* What a run manifest lists was in the bucket before it, each object under *)
(* the listed file name and with the pinned hash.                           *)
Whole(i) ==
    LET content == bucket[i].content
    IN  /\ content.kind = "manifest"
        /\ \A e \in content.shards \cup {content.sidecar} :
              \E j \in 1..(i - 1) : /\ Documented(j)
                                    /\ bucket[j].name = e.name
                                    /\ bucket[j].content = e.sha256

(* A run is whole or invisible (run_manifest.py, sink.py step 6): whenever  *)
(* a run manifest is visible, it is readable and what it lists was there    *)
(* when it landed, whatever uploads failed, crashed or overlapped on the    *)
(* way and whatever older launches left in the staging tree.  A launch      *)
(* another one of the same run wrote beneath is excepted: see               *)
(* EveryCommittedRunIsWhole.                                                *)
CommittedRunIsWhole ==
    \A i \in ManifestIds : ~disturbed[bucket[i].by] => Whole(i)

(* A retry uploads every object again under the same names (the torn-run    *)
(* refusal, C-105) and queries have no order: still, whichever carrier of a *)
(* listed name the consumer picks has the bytes the manifest pins, if both  *)
(* launches had the staging directory to themselves and, for the sidecar,   *)
(* had loaded the same lookup.                                              *)
RetriesAgree ==
    \A i \in ManifestIds : ~disturbed[bucket[i].by] =>
        /\ \A e \in bucket[i].content.shards :
              \A j \in CarriersOf(e.name, Forecast, ShardType) :
                  disturbed[bucket[j].by] \/ bucket[j].content = e.sha256
        /\ LET e == bucket[i].content.sidecar
           IN  \A j \in CarriersOf(e.name, Forecast, SidecarType) :
                  \/ disturbed[bucket[j].by]
                  \/ config[bucket[j].by].lookup # config[bucket[i].by].lookup
                  \/ bucket[j].content = e.sha256

(* The torn-run refusal names everything an operator has to look for: the   *)
(* ledger lists exactly confirmed documents, every file the launch left is  *)
(* in the ledger or is the object it failed on, and no manifest of its own  *)
(* is confirmed.                                                            *)
TornRefusalIsAccurate ==
    \A l \in Launches : phase[l] = "torn" =>
        /\ \A k \in DOMAIN ledger[l] :
              /\ ledger[l][k].id \in FileIds
              /\ Documented(ledger[l][k].id)
              /\ bucket[ledger[l][k].id].name = ledger[l][k].name
              /\ ledger[l][k].type # ManifestType
        /\ \A i \in FileIds : bucket[i].by = l =>
              \/ \E k \in DOMAIN ledger[l] : ledger[l][k].id = i
              \/ bucket[i].name = failedOn[l]

(* No object of a launch is in the partner's bucket before every declared   *)
(* target has passed the gate, has rows for every month its headers declare, *)
(* agreed on months and cells, and has its geography; nor at all unless the *)
(* upload was declared (the interlock).                                     *)
FitToDeliver(r, lookup) ==
    /\ \A k \in DOMAIN TargetOrder :
          LET f == Shelf[TargetOrder[k]][r]
          IN  /\ f.runs = {r}
              /\ DrawsUncollapsed(f)
              /\ \A m \in MonthsOf(f) : f.cells[m] # {}
              /\ MonthsOf(f) = MonthsOf(Shelf[TargetOrder[1]][r])
              /\ CellsOf(f) = CellsOf(Shelf[TargetOrder[1]][r])
    /\ CellsOf(Shelf[TargetOrder[1]][r]) \subseteq DOMAIN lookup

OnlyFitRunsReachTheStore ==
    \A i \in FileIds :
        LET by == bucket[i].by
        IN  config[by].enabled /\ FitToDeliver(run[by], config[by].lookup)

(* The policy gate precedes staging (sink.py step 1): no collapsed payload  *)
(* is ever in the staging tree, from where a later launch could upload it.  *)
CollapsedNeverStaged ==
    \A n \in FileNames :
        n.kind = "shard" /\ staging[n] # None => DrawsUncollapsed(Shelf[n.target][n.run])

(* Refinement: to a consumer, deliver_run is the atomic publication of fit  *)
(* runs, unless launches of the run got in each other's way or were built   *)
(* from different lookups.                                                  *)
Disputed(r) ==
    \/ \E l \in Launches : run[l] = r /\ disturbed[l]
    \/ \E l, k \in Launches : /\ run[l] = r /\ run[k] = r
                              /\ config[l].lookup # config[k].lookup

Visible(r) ==
    LET manifests == {i \in ManifestIds : bucket[i].name = ManifestName(r)}
    IN  IF Disputed(r) THEN "disputed"
        ELSE IF manifests = {} THEN "invisible"
        ELSE IF \A i \in manifests : Servable(i) THEN "whole" ELSE "partial"

Abstract == INSTANCE Publication WITH
    FitRuns <- {r \in Runs : \E lookup \in Lookups : FitToDeliver(r, lookup)},
    visible <- [r \in Runs |-> Visible(r)]

AtomicPublication == Abstract!Spec

-----------------------------------------------------------------------------
(* What run_manifest.py says of the manifest: uploaded last, "so a run is   *)
(* either whole or invisible".  Here: whichever launches wrote in the       *)
(* staging directory meanwhile.                                             *)
EveryCommittedRunIsWhole == \A i \in ManifestIds : Whole(i)
=============================================================================
