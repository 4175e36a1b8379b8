--------------------------- MODULE DeliveryManager ---------------------------
(***************************************************************************)
(* One partner's delivery as execute() runs it (unfao/managers/unfao.py,   *)
(* of which crafd/managers/crafd.py is a copy): read the historical        *)
(* actuals and clip them to the producer's boundary, resolve a forecast    *)
(* run, validate coverage, deliver the run through WireSink, ship the      *)
(* historical artifact after it, and read the delivery back with the       *)
(* consumer's own queries (delivery/findability.py).                       *)
(*                                                                         *)
(* Which run resolve_run picks is SourceSelection's business; here it may  *)
(* be any run, or a refusal.  A historical frame is its set of rows        *)
(* <<month, cell>>: values do not matter.  The artifact's file name is a   *)
(* timestamp, taken to be one of its own for each launch.                  *)
(***************************************************************************)
EXTENDS WireSink

CONSTANTS
    HistoryFrames,   \* what get_feature_frame may return
    Boundaries,      \* what last_valid_month_id may answer
    Excluded,        \* coverage.excluded_for(region)
    ExpectedCells,   \* coverage.expected_for(region); None when the region is not pinned
    Blanks,          \* geographies with a null name or coordinate (a missing code is NaN)
    Unread           \* the boundary before it is read

ASSUME ManagerAssumption ==
    /\ Months \subseteq Nat
    /\ Boundaries \subseteq Nat
    /\ HistoryFrames \subseteq SUBSET (Months \X Cells)
    /\ Blanks \subseteq Geographies

VARIABLES
    stage,       \* where a launch stands in execute()
    history,     \* _historical_frame
    boundary,    \* _observed_through
    resolved,    \* the run of _forecast_resolution
    artifact,    \* the staged historical artifact and the boundary its description states
    historyId    \* hist_file_id

managerVars == <<stage, history, boundary, resolved, artifact, historyId>>
allVars == <<vars, managerVars>>

Working == {"resolving", "validating", "saving", "delivering", "shipping",
            "selecting forecast", "selecting historical", "listing"}
Outcomes == {"complete", "staged only", "refused", "failed", "invisible", "unverified", "died"}

ManagerInit ==
    /\ Init
    /\ stage = [l \in Launches |-> "idle"]
    /\ history = [l \in Launches |-> None]
    /\ boundary = [l \in Launches |-> Unread]
    /\ resolved = [l \in Launches |-> None]
    /\ artifact = [l \in Launches |-> None]
    /\ historyId = [l \in Launches |-> None]

Enter(l, s) == stage' = [stage EXCEPT ![l] = s]

(* An exception leaves execute(); nothing catches it and nothing is undone. *)
Raise(l, s) ==
    /\ Enter(l, s)
    /\ UNCHANGED <<vars, history, boundary, resolved, artifact, historyId>>

-----------------------------------------------------------------------------
(* _read_historical_data, then _read_historical_frame. *)

CellsIn(rows) == {row[2] : row \in rows}

(* drop_months_above *)
ClipOneLate(rows, lv) == {row \in rows : row[1] <= lv + 1}    \* mutant: off by one

Clip(rows, lv) == {row \in rows : row[1] <= lv}

(* The boundary is None when the producer publishes none or could not be    *)
(* read: the clip is skipped (degrade-open).                                *)
ReadHistory(l) ==
    /\ stage[l] = "idle"
    /\ \E rows \in HistoryFrames, lv \in Boundaries \cup {None} :
          /\ boundary' = [boundary EXCEPT ![l] = lv]
          /\ history' = [history EXCEPT ![l] = IF lv = None THEN rows ELSE Clip(rows, lv)]
    /\ Enter(l, "resolving")
    /\ UNCHANGED <<vars, resolved, artifact, historyId>>

(* A declaration the launcher lacks, a loader failure, or a producer client *)
(* that will not load: refused, never degraded.                             *)
RefuseHistory(l) == stage[l] = "idle" /\ Raise(l, "refused")

(* _read_forecast_data *)
ResolveForecast(l) ==
    /\ stage[l] = "resolving"
    /\ \E r \in Runs : resolved' = [resolved EXCEPT ![l] = r]
    /\ Enter(l, "validating")
    /\ UNCHANGED <<vars, history, boundary, artifact, historyId>>

RefuseForecast(l) == stage[l] = "resolving" /\ Raise(l, "refused")

(* _validate, _check_coverage: the exclusion first, then the count gate,    *)
(* which an unpinned region skips.                                          *)
CoverageHolds(cells) ==
    /\ cells \cap Excluded = {}
    /\ ExpectedCells # None => Cardinality(cells) = ExpectedCells

ValidateLater(l) ==            \* mutant: the coverage gate no longer stops the delivery
    /\ stage[l] = "validating"
    /\ Enter(l, "saving")
    /\ UNCHANGED <<vars, history, boundary, resolved, artifact, historyId>>

Validate(l) ==
    /\ stage[l] = "validating"
    /\ Enter(l, IF CoverageHolds(CellsIn(history[l])) THEN "saving" ELSE "refused")
    /\ UNCHANGED <<vars, history, boundary, resolved, artifact, historyId>>

-----------------------------------------------------------------------------
(* _save_contract.  The partner store is built exactly when uploading is    *)
(* declared; the lookup is loaded once, for both legs.                      *)

Save(l) ==
    /\ stage[l] = "saving"
    /\ \E enabled \in BOOLEAN, lookup \in Lookups :
          Start(l, resolved[l], [store |-> enabled, enabled |-> enabled, lookup |-> lookup])
    /\ Enter(l, "delivering")
    /\ UNCHANGED <<history, boundary, resolved, artifact, historyId>>

(* The lookup cannot be read, or the partner store's environment is not     *)
(* declared.                                                                *)
RefuseSave(l) == stage[l] = "saving" /\ Raise(l, "refused")

Deliver(l) ==
    /\ stage[l] = "delivering"
    /\ Advance(l)
    /\ UNCHANGED managerVars

DeliverFails(l) ==
    /\ stage[l] = "delivering"
    /\ LoadFails(l) \/ UploadTears(l)
    /\ UNCHANGED managerVars

OnlyRefusalsPropagate(l) ==    \* mutant: TornRunError is swallowed
    /\ stage[l] = "delivering" /\ phase[l] = "refused"
    /\ Raise(l, "refused")

SinkRaised(l) ==
    /\ stage[l] = "delivering" /\ phase[l] \in {"refused", "torn"}
    /\ Raise(l, IF phase[l] = "torn" THEN "failed" ELSE "refused")

SinkAtTheInterlock(l) ==       \* mutant: the historical leg starts before the uploads
    stage[l] = "delivering" /\ phase[l] \in {"uploading", "staged", "delivered"}

SinkReturned(l) == stage[l] = "delivering" /\ phase[l] \in {"staged", "delivered"}

(* build_historical_table joins the geography of every cell, and the null   *)
(* gate refuses missing metadata.                                           *)
CompleteCells(lookup) == {c \in DOMAIN lookup : lookup[c] \notin Blanks}

BuildUngated(l) ==             \* mutant: missing metadata is not looked for
    /\ SinkReturned(l)
    /\ CellsIn(history[l]) \subseteq DOMAIN config[l].lookup
    /\ artifact' = [artifact EXCEPT ![l] = [rows |-> history[l], observed |-> boundary[l]]]
    /\ Enter(l, IF config[l].enabled THEN "shipping" ELSE "staged only")
    /\ UNCHANGED <<vars, history, boundary, resolved, historyId>>

BuildHistory(l) ==
    /\ SinkReturned(l)
    /\ CellsIn(history[l]) \subseteq CompleteCells(config[l].lookup)
    /\ artifact' = [artifact EXCEPT ![l] = [rows |-> history[l], observed |-> boundary[l]]]
    /\ Enter(l, IF config[l].enabled THEN "shipping" ELSE "staged only")
    /\ UNCHANGED <<vars, history, boundary, resolved, historyId>>

RefuseArtifact(l) ==
    /\ SinkReturned(l)
    /\ ~(CellsIn(history[l]) \subseteq CompleteCells(config[l].lookup))
    /\ Raise(l, "failed")

(* The artifact cannot be written, the lookup declares no version, or the   *)
(* description does not fit its attribute.                                  *)
ArtifactFails(l) == SinkReturned(l) /\ Raise(l, "failed")

HistoryName(l) == [kind |-> "history", launch |-> l]

UploadOfTheArtifact(l) ==      \* mutant: the description travels in the file
    Upload(HistoryName(l), HistoryType, Historical, artifact[l])

HistoryUpload(l) ==
    Upload(HistoryName(l), HistoryType, Historical, [kind |-> "history", rows |-> artifact[l].rows])

ShipHistory(l) ==
    /\ stage[l] = "shipping"
    /\ \E id \in 1..(Len(bucket) + 1) :
          /\ UploadSucceeds(l, HistoryUpload(l), id)
          /\ historyId' = [historyId EXCEPT ![l] = id]
    /\ Enter(l, "selecting forecast")
    /\ UNCHANGED <<sinkVars, history, boundary, resolved, artifact>>

ShipHistoryFails(l) ==
    /\ stage[l] = "shipping"
    /\ UploadFails(l, HistoryUpload(l))
    /\ Enter(l, "failed")
    /\ UNCHANGED <<sinkVars, history, boundary, resolved, artifact, historyId>>

-----------------------------------------------------------------------------
(* findability.verify, one query at a time; the bucket may change between   *)
(* two of them.                                                             *)

(* What this run uploaded: uploaded_objects and the historical artifact. *)
Objects(l) ==
    {[name |-> ledger[l][k].name, id |-> ledger[l][k].id] : k \in DOMAIN ledger[l]}
        \cup {[name |-> HistoryName(l), id |-> historyId[l]]}

FirstUploadedId(l) == ledger[l][1].id    \* mutant: the manifest is uploaded last, not first

ManifestId(l) == ledger[l][Len(ledger[l])].id

(* assert_findable: the consumer's selection must land on this run's id. *)
Select(l, category, expected, here, next) ==
    /\ stage[l] = here
    /\ \E found \in LatestIds(category, Types) :
          Enter(l, IF found = expected THEN next ELSE "invisible")
    /\ UNCHANGED <<vars, history, boundary, resolved, artifact, historyId>>

SelectForecast(l) ==
    Select(l, Forecast, ManifestId(l), "selecting forecast", "selecting historical")

SelectHistorical(l) ==
    Select(l, Historical, historyId[l], "selecting historical", "listing")

(* assert_all_findable: one listing per (category, type), matched by file   *)
(* name afterwards; each object's own id must be among those its name has.  *)
(* The four listings are one action: an object's document is there under    *)
(* its name or never will be, whatever is uploaded between two listings.    *)
ListedUnderAnyName(category, types) ==   \* mutant: ids are looked for, names are not
    {[name |-> n, id |-> i] : n \in FileNames \cup {HistoryName(l) : l \in Launches},
                              i \in Matching(category, types)}

Listed(category, types) ==
    {[name |-> bucket[i].name, id |-> i] : i \in Matching(category, types)}

ListArtifacts(l) ==
    LET listed == Listed(Forecast, {ManifestType, ShardType, SidecarType})
                      \cup Listed(Historical, {HistoryType})
    IN  /\ stage[l] = "listing"
        /\ Enter(l, IF Objects(l) \subseteq listed THEN "complete" ELSE "invisible")
        /\ UNCHANGED <<vars, history, boundary, resolved, artifact, historyId>>

(* A query that raises leaves findability unknown. *)
QueryFails(l) ==
    /\ stage[l] \in {"selecting forecast", "selecting historical", "listing"}
    /\ Raise(l, "unverified")

(* The process dies anywhere; an upload in flight may still land. *)
Die(l) ==
    /\ stage[l] \in Working
    /\ Enter(l, "died")
    /\ CASE stage[l] = "delivering" /\ phase[l] \in Running -> Crash(l)
         [] stage[l] = "shipping" -> UploadFails(l, HistoryUpload(l)) /\ UNCHANGED sinkVars
         [] OTHER -> UNCHANGED vars
    /\ UNCHANGED <<history, boundary, resolved, artifact, historyId>>

-----------------------------------------------------------------------------
(* What a launch does when what it calls answers, and when it raises. *)
ManagerAdvance(l) ==
    \/ ReadHistory(l) \/ ResolveForecast(l) \/ Validate(l) \/ Save(l)
    \/ Deliver(l) \/ SinkRaised(l)
    \/ BuildHistory(l) \/ RefuseArtifact(l) \/ ShipHistory(l)
    \/ SelectForecast(l) \/ SelectHistorical(l) \/ ListArtifacts(l)

ManagerFailure(l) ==
    \/ RefuseHistory(l) \/ RefuseForecast(l) \/ RefuseSave(l) \/ DeliverFails(l)
    \/ ArtifactFails(l) \/ ShipHistoryFails(l) \/ QueryFails(l)

ManagerStep(l) == ManagerAdvance(l) \/ ManagerFailure(l)

ManagerNext == \E l \in Launches : ManagerStep(l) \/ Die(l)

ManagerSpec == ManagerInit /\ [][ManagerNext]_allVars

(* The manager is sequential code that waits for nothing, and a call it     *)
(* makes answers unless it raises: a launch that has begun goes on, without *)
(* counting on a failure to end it.                                         *)
ManagerFairSpec ==
    ManagerSpec /\ \A l \in Launches : WF_allVars(stage[l] # "idle" /\ ManagerAdvance(l))

-----------------------------------------------------------------------------
(* Types. *)

HistoryNames == [kind : {"history"}, launch : Launches]
HistoryRows  == SUBSET (Months \X Cells)

ManagedFile ==
    [name : FileNames \cup HistoryNames, type : Types, category : {Forecast, Historical},
     content : Contents \cup [kind : {"history"}, rows : HistoryRows],
     documented : BOOLEAN, by : Launches]

ManagerTypeOK ==
    /\ bucket \in Seq(ManagedFile)
    /\ stage \in [Launches -> {"idle"} \cup Working \cup Outcomes]
    /\ history \in [Launches -> HistoryRows \cup {None}]
    /\ boundary \in [Launches -> Boundaries \cup {None, Unread}]
    /\ resolved \in [Launches -> Runs \cup {None}]
    /\ artifact \in [Launches -> [rows : HistoryRows, observed : Boundaries \cup {None}]
                                  \cup {None}]
    /\ historyId \in [Launches -> Nat \cup {None}]

-----------------------------------------------------------------------------
(* Safety. *)

HistoryFiles == {i \in FileIds : bucket[i].type = HistoryType}

(* What the read-back is for (C-94, #312): a delivery reported complete can *)
(* be served.  Its manifest is documented, everything the launch recorded   *)
(* for it can be found under its own name, and so can the historical        *)
(* artifact, with the rows of this launch, also when the store deduplicates *)
(* bytes, answers queries in any order, or other launches write to the      *)
(* bucket.  The read-back compares names and ids: that the manifest is      *)
(* readable and what it lists has the pinned bytes holds because of what    *)
(* the sink did before, and only for a launch no other one disturbed.       *)
CompleteMeansServable ==
    \A l \in Launches : stage[l] = "complete" =>
        LET manifest == bucket[ManifestId(l)]
        IN  /\ Documented(ManifestId(l))
            /\ manifest.name = ManifestName(resolved[l])
            /\ \A k \in DOMAIN records[l] :
                  CarriersOf(records[l][k].name, Forecast, ShardType) # {}
            /\ CarriersOf(sidecar[l].name, Forecast, SidecarType) # {}
            /\ \E i \in CarriersOf(HistoryName(l), Historical, HistoryType) :
                  bucket[i].content.rows = history[l]
            /\ ~disturbed[l] =>
                  /\ manifest.content.kind = "manifest"
                  /\ \A e \in manifest.content.shards : Resolves(e, ShardType)
                  /\ Resolves(manifest.content.sidecar, SidecarType)

(* The alarm never quarantines a sound delivery (findability.unverified):   *)
(* when a launch reports its delivery invisible, the store did answer with  *)
(* a later document of another launch, or some object of this one is not    *)
(* under its own name.  It takes a store that answers newest first.         *)
AlarmHasACause ==
    \A l \in Launches : stage[l] = "invisible" =>
        \/ \E i \in FileIds :
              /\ Documented(i) /\ bucket[i].by # l
              /\ \/ bucket[i].category = Forecast /\ i > ManifestId(l)
                 \/ bucket[i].category = Historical /\ i > historyId[l]
        \/ \E o \in Objects(l) : bucket[o.id].name # o.name

(* The historical leg ships after its forecast (_save_contract): when a     *)
(* historical artifact is in the bucket, the manifest of the run it was     *)
(* delivered with was already visible, also when the store answered that    *)
(* upload with the id of an older copy.  (A launch that was disturbed may   *)
(* have uploaded a manifest cut short, for which a store that deduplicates  *)
(* takes any other file cut short alike.)                                   *)
HistoryFollowsItsRun ==
    \A i \in HistoryFiles : ~disturbed[bucket[i].by] =>
        \E j \in ManifestIds :
            j < i /\ bucket[j].name = ManifestName(resolved[bucket[i].by])

(* No fabricated month ships unannounced (C-26, #297): unless its           *)
(* description says the boundary was not read, a shipped artifact has no    *)
(* month above the boundary its description states.                         *)
ClippedOrDeclared ==
    \A i \in HistoryFiles :
        LET observed == artifact[bucket[i].by].observed
        IN  observed # None => \A row \in bucket[i].content.rows : row[1] <= observed

(* Nothing of a delivery whose historical leg fails coverage reaches the    *)
(* store, not even its forecast, and no shipped artifact lacks geography.   *)
UncoveredNeverShips ==
    /\ \A i \in FileIds : CoverageHolds(CellsIn(history[bucket[i].by]))
    /\ \A i \in HistoryFiles :
          CellsIn(bucket[i].content.rows) \subseteq CompleteCells(config[bucket[i].by].lookup)

(* Every launch that begins ends in an outcome an operator can act on. *)
EveryDeliveryEnds ==
    \A l \in Launches : stage[l] \in Working ~> stage[l] \in Outcomes

-----------------------------------------------------------------------------
(* What docs/operations/correction_procedure.md says: a delivery is shards, *)
(* a sidecar, a historical artifact and a manifest uploaded last, so one    *)
(* that fails halfway has no manifest and is invisible to consumers.        *)
(* Here: a delivery that failed after the sink returned.                    *)
FailedDeliveryIsInvisible ==
    \A l \in Launches :
        stage[l] = "failed" /\ phase[l] = "delivered" => \A i \in ManifestIds : bucket[i].by # l
=============================================================================
