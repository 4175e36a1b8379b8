----------------------- MODULE DeliveryManagerProofs -----------------------
(***************************************************************************)
(* What a whole delivery keeps: the launch around the sink.  A step of     *)
(* execute() leaves the sink alone, or is a step of the sink, or uploads a *)
(* historical artifact, of which WireSinkLedgerProofs shows that it        *)
(* disturbs nothing of the sink's.  So the sink's invariants hold here     *)
(* too, and ManagerInv adds what execute() itself keeps: the order of its  *)
(* legs (Flow), where each artifact comes from (Origin), and what the      *)
(* read-back looks for (Verified, Named).                                  *)
(***************************************************************************)
EXTENDS DeliveryManager, WireSinkLedgerProofs

(* The stages before the sink is called, those after the artifact is made,  *)
(* and those from which a launch never ships again.                         *)
Reading   == {"resolving", "validating", "saving"}
Verifying == {"selecting forecast", "selecting historical", "listing",
              "complete", "invisible", "unverified"}
Shipped   == {"shipping"} \cup Verifying
Ended     == Verifying \cup {"failed", "died"}

ManagerTypes ==
    /\ stage \in [Launches -> {"idle"} \cup Working \cup Outcomes]
    /\ history \in [Launches -> HistoryRows \cup {None}]
    /\ boundary \in [Launches -> Boundaries \cup {None, Unread}]
    /\ resolved \in [Launches -> Runs \cup {None}]
    /\ artifact \in [Launches -> [rows : HistoryRows, observed : Boundaries \cup {None}]
                                  \cup {None}]
    /\ historyId \in [Launches -> Nat \cup {None}]

HistoryRead(l) ==
    /\ history[l] \in HistoryRows
    /\ boundary[l] \in Boundaries \cup {None}
    /\ boundary[l] # None => \A row \in history[l] : row[1] <= boundary[l]

ArtifactMade(l) ==
    /\ artifact[l] = [rows |-> history[l], observed |-> boundary[l]]
    /\ CellsIn(history[l]) \subseteq CompleteCells(config[l].lookup)

(* Where execute() stands, where the sink it called stands, and what the    *)
(* legs before have established.                                            *)
Flow(l) ==
    /\ stage[l] \in {"idle"} \cup Reading => phase[l] = "idle"
    /\ stage[l] = "delivering" => phase[l] # "idle"
    /\ stage[l] \in Shipped => phase[l] = "delivered"
    /\ phase[l] = "staged" => ~config[l].enabled
    /\ stage[l] \in Reading \/ phase[l] # "idle" => HistoryRead(l)
    /\ stage[l] \in {"validating", "saving"} => resolved[l] \in Runs
    /\ stage[l] = "saving" \/ phase[l] # "idle" => CoverageHolds(CellsIn(history[l]))
    /\ phase[l] # "idle" => run[l] = resolved[l]
    /\ stage[l] \in Shipped => ArtifactMade(l)

(* A historical artifact in the bucket is that of a launch whose manifest   *)
(* came before it, if nobody wrote beneath the launch.                      *)
Origin(i) ==
    bucket[i].type = HistoryType =>
        LET q == bucket[i].by
        IN  /\ stage[q] \in Ended /\ phase[q] # "idle"
            /\ bucket[i].content.rows = history[q]
            /\ ArtifactMade(q)
            /\ ~disturbed[q] => HasContent(i - 1, ManifestOf(resolved[q], config[q].lookup))

ArtifactBytes(l) == [kind |-> "history", rows |-> history[l]]

(* The artifact a launch verifies has its rows, and it left no later one.   *)
Verified(l) ==
    stage[l] \in Verifying =>
        /\ historyId[l] \in 1..Len(bucket) /\ Documented(historyId[l])
        /\ bucket[historyId[l]].content = ArtifactBytes(l)
        /\ \A i \in 1..Len(bucket) :
              bucket[i].by = l /\ bucket[i].type = HistoryType => i <= historyId[l]

(* A delivery is reported complete only with every object under its name.   *)
Named(l) == stage[l] = "complete" => \A o \in Objects(l) : bucket[o.id].name = o.name

ManagerInv ==
    /\ ManagerTypes
    /\ \A l \in Launches : Flow(l) /\ Verified(l) /\ Named(l)
    /\ \A i \in 1..Len(bucket) : Origin(i)

-----------------------------------------------------------------------------
(* Facts about a state. *)

(* An artifact is recognised by its content. *)
LEMMA ArtifactKind ==
    ASSUME BucketInv, NEW i \in 1..Len(bucket), bucket[i].content.kind = "history"
    PROVE  bucket[i] \in ArtifactFile
<1> SUFFICES ASSUME SoundOrigin(bucket[i]) PROVE FALSE
    BY DEF BucketInv
<1> DEFINE s == run[bucket[i].by]
<1>1. IsFileOf(bucket[i], s)
    BY DEF SoundOrigin
<1>2. \A e \in RecordsOf(s) : e.sha256.kind = "shard"
    BY DEF RecordsOf, RecordOf, ShardRecord, ShardOf
<1>3. /\ \A c \in ManifestsOf(s) : c.kind = "manifest"
      /\ \A c \in SidecarContents : c.kind = "sidecar"
      /\ \A c \in Fragments : c.kind = "fragment"
    BY DEF ManifestsOf, ManifestContents, SidecarContents, Fragments
<1> HIDE DEF s
<1>4. bucket[i].content.kind \in {"shard", "manifest", "sidecar", "fragment"}
    BY ONLY <1>1, <1>2, <1>3 DEF IsFileOf
<1> QED
    BY <1>4

LEMMA BucketTyped ==
    ASSUME StepInv
    PROVE  Len(bucket) \in Nat /\ FileIds = 1..Len(bucket) /\ bucket \in Seq(BucketFile)
BY DEF StepInv, SinkTypes, FileIds

(* A delivered launch confirmed all its objects, the manifest last.         *)
LEMMA DeliveredLedger ==
    ASSUME StepInv, LedgerInv, NEW l \in Launches, phase[l] = "delivered"
    PROVE  /\ Len(ledger[l]) \in 1..Len(ledger[l]) /\ Len(ledger[l]) = Len(records[l]) + 2
           /\ ManifestId(l) \in 1..Len(bucket) /\ Documented(ManifestId(l))
           /\ bucket[ManifestId(l)].content.kind # "history"
           /\ ~disturbed[l] =>
                 bucket[ManifestId(l)].content = ManifestOf(run[l], config[l].lookup)
           /\ ledger[l][Len(ledger[l])].name = ManifestName(run[l])
           /\ run[l] \in Runs
<1>1. Len(ledger[l]) = Len(records[l]) + 2 /\ Len(records[l]) \in Nat
    BY LedgerTyped DEF LedgerInv, Ledgered, Counted
<1>2. PICK k : k = Len(ledger[l])
    OBVIOUS
<1>3. k \in 1..Len(ledger[l]) /\ k \in Nat /\ k > Len(records[l]) + 1
    BY <1>1, <1>2
<1>4. Entry(l, k)
    BY <1>3 DEF LedgerInv, Ledgered, Backed
<1>5. /\ ObjectAt(l, k).name = ManifestName(run[l])
      /\ ObjectAt(l, k).content = ManifestOf(run[l], config[l].lookup)
    BY <1>1, <1>3, ObjectFields
<1>6. run[l] \in Runs
    BY DEF StepInv, LaunchInv, Progress
<1> QED
    BY <1>1, <1>2, <1>3, <1>4, <1>5, <1>6 DEF Entry, ManifestId

(* The ids of a launch's objects are files of the bucket. *)
LEMMA ObjectIds ==
    ASSUME StepInv, LedgerInv, ManagerInv, NEW l \in Launches, stage[l] \in Verifying,
           NEW o \in Objects(l)
    PROVE  o.id \in 1..Len(bucket)
<1>1. \A k \in DOMAIN ledger[l] : ledger[l][k].id \in 1..Len(bucket)
    BY LedgerTyped DEF LedgerInv, Ledgered, Backed, Entry
<1>2. historyId[l] \in 1..Len(bucket)
    BY DEF ManagerInv, Verified
<1>3. CASE \E k \in DOMAIN ledger[l] : o = [name |-> ledger[l][k].name, id |-> ledger[l][k].id]
    <2>1. PICK k \in DOMAIN ledger[l] : o = [name |-> ledger[l][k].name, id |-> ledger[l][k].id]
        BY <1>3
    <2> QED
        BY <1>1, <2>1
<1>4. CASE o = [name |-> HistoryName(l), id |-> historyId[l]]
    BY <1>2, <1>4
<1> QED
    BY <1>3, <1>4 DEF Objects

-----------------------------------------------------------------------------
(* A launch that stands still. *)

SameLegs(q) ==
    /\ history'[q] = history[q] /\ boundary'[q] = boundary[q] /\ resolved'[q] = resolved[q]
    /\ artifact'[q] = artifact[q] /\ historyId'[q] = historyId[q]

Idles(q) ==
    /\ stage'[q] = stage[q] /\ SameLegs(q) /\ phase'[q] = phase[q] /\ run'[q] = run[q]
    /\ config'[q] = config[q] /\ ledger'[q] = ledger[q]

LEMMA VerifiedStays ==
    ASSUME StepInv, ManagerInv, NEW l \in Launches,
           stage'[l] \in Verifying => stage[l] \in Verifying, SameLegs(l),
           \/ UNCHANGED bucket
           \/ \E f : Lands(f) /\ (f.by # l \/ f.type # HistoryType)
    PROVE  Verified(l)'
<1> SUFFICES ASSUME stage[l] \in Verifying
             PROVE  /\ historyId'[l] \in 1..Len(bucket') /\ bucket'[historyId'[l]].documented
                    /\ bucket'[historyId'[l]].content = ArtifactBytes(l)'
                    /\ \A i \in 1..Len(bucket') :
                          bucket'[i].by = l /\ bucket'[i].type = HistoryType => i <= historyId'[l]
    BY DEF Verified, Documented
<1>1. Verified(l) /\ Len(bucket) \in Nat
    BY BucketTyped DEF ManagerInv
<1>2. historyId'[l] = historyId[l] /\ ArtifactBytes(l)' = ArtifactBytes(l)
    BY DEF SameLegs, ArtifactBytes
<1>3. historyId[l] \in 1..Len(bucket') /\ bucket'[historyId[l]] = bucket[historyId[l]]
    BY <1>1, GrowsKeeps DEF Verified, Grows
<1>4. \A i \in 1..Len(bucket') : bucket'[i].by = l /\ bucket'[i].type = HistoryType =>
          i \in 1..Len(bucket) /\ bucket'[i] = bucket[i]
    BY <1>1 DEF Lands
<1> QED
    BY <1>1, <1>2, <1>3, <1>4 DEF Verified, Documented

LEMMA NamedStays ==
    ASSUME StepInv, LedgerInv, ManagerInv, Grows, NEW l \in Launches,
           stage'[l] = "complete" => stage[l] = "complete",
           historyId'[l] = historyId[l], ledger'[l] = ledger[l]
    PROVE  Named(l)'
<1> SUFFICES ASSUME stage[l] = "complete", NEW o \in Objects(l)'
             PROVE  bucket'[o.id].name = o.name
    BY DEF Named
<1>1. o \in Objects(l)
    BY DEF Objects, HistoryName
<1>2. o.id \in 1..Len(bucket)
    BY <1>1, ObjectIds DEF Verifying
<1>3. bucket'[o.id] = bucket[o.id]
    BY <1>2, GrowsKeeps
<1> QED
    BY <1>1, <1>3 DEF ManagerInv, Named

LEMMA ManagerStands ==
    ASSUME StepInv, LedgerInv, ManagerInv, NEW l \in Launches, Idles(l),
           \/ UNCHANGED bucket
           \/ \E f : Lands(f) /\ (f.by # l \/ f.type # HistoryType)
    PROVE  Flow(l)' /\ Verified(l)' /\ Named(l)'
<1>1. Flow(l)'
    <2>1. Flow(l)
        BY DEF ManagerInv
    <2> QED
        BY <2>1 DEF Flow, Idles, SameLegs, HistoryRead, ArtifactMade
<1>2. Verified(l)'
    BY VerifiedStays DEF Idles
<1>3. Named(l)'
    BY NamedStays DEF Idles, SameLegs, Grows
<1> QED
    BY <1>1, <1>2, <1>3

(* Where an artifact comes from does not change: its launch has ended its   *)
(* legs.                                                                    *)
EndedStays(q) ==
    /\ stage[q] \in Ended => stage'[q] \in Ended /\ history'[q] = history[q]
                               /\ boundary'[q] = boundary[q] /\ resolved'[q] = resolved[q]
                               /\ artifact'[q] = artifact[q]
    /\ phase[q] # "idle" => phase'[q] # "idle" /\ config'[q] = config[q]
    /\ disturbed[q] => disturbed'[q]

LEMMA ArtifactOriginStays ==
    ASSUME StepInv, ManagerInv, Grows, \A q \in Launches : EndedStays(q),
           NEW i \in 1..Len(bucket)
    PROVE  Origin(i)'
<1>1. bucket'[i] = bucket[i] /\ Len(bucket) \in Nat
    BY GrowsKeeps, BucketTyped
<1> SUFFICES ASSUME bucket[i].type = HistoryType PROVE Origin(i)'
    BY <1>1 DEF Origin
<1>2. PICK q \in Launches : q = bucket[i].by
    BY FileTyped
<1>3. /\ stage[q] \in Ended /\ phase[q] # "idle" /\ bucket[i].content.rows = history[q]
      /\ ArtifactMade(q)
      /\ ~disturbed[q] => HasContent(i - 1, ManifestOf(resolved[q], config[q].lookup))
    BY <1>2 DEF ManagerInv, Origin
<1>4. /\ stage'[q] \in Ended /\ phase'[q] # "idle" /\ history'[q] = history[q]
      /\ boundary'[q] = boundary[q] /\ resolved'[q] = resolved[q] /\ artifact'[q] = artifact[q]
      /\ config'[q] = config[q] /\ (disturbed[q] => disturbed'[q])
    BY <1>2, <1>3 DEF EndedStays
<1>5. ASSUME NEW c, HasContent(i - 1, c)
      PROVE  \E x \in 1..(i - 1) : bucket'[x].documented /\ bucket'[x].content = c
    <2>1. PICK j \in 1..(i - 1) : Documented(j) /\ bucket[j].content = c
        BY <1>5 DEF HasContent
    <2>2. bucket'[j] = bucket[j]
        BY <1>1, GrowsKeeps
    <2> QED
        BY <2>1, <2>2 DEF Documented
<1>6. ~disturbed'[q] => \E x \in 1..(i - 1) :
          /\ bucket'[x].documented
          /\ bucket'[x].content = ManifestOf(resolved[q], config[q].lookup)
    BY <1>3, <1>4, <1>5
<1>7. bucket'[i].by = q
    BY <1>1, <1>2
<1>8. ArtifactMade(q)'
    BY <1>3, <1>4 DEF ArtifactMade
<1> QED
    BY <1>1, <1>3, <1>4, <1>6, <1>7, <1>8 DEF Origin, HasContent, Documented

-----------------------------------------------------------------------------
(* Steps that leave the bucket and the sink alone. *)

LEMMA LocalKeeps ==
    ASSUME StepInv, LedgerInv, ManagerInv, NEW l \in Launches, UNCHANGED vars, ManagerTypes',
           \A q \in Launches : q # l => stage'[q] = stage[q] /\ SameLegs(q),
           EndedStays(l), Flow(l)', Verified(l)', Named(l)'
    PROVE  ManagerInv'
<1>1. UNCHANGED <<bucket, phase, run, config, ledger, disturbed>>
    BY DEF vars, sinkVars, progress
<1>2. \A q \in Launches : EndedStays(q)
    BY <1>1 DEF EndedStays, SameLegs
<1>3. \A q \in Launches : Flow(q)' /\ Verified(q)' /\ Named(q)'
    BY <1>1, ManagerStands DEF Idles
<1>4. \A i \in 1..Len(bucket) : Origin(i)'
    BY <1>1, <1>2, ArtifactOriginStays DEF Grows
<1> QED
    BY <1>1, <1>3, <1>4 DEF ManagerInv

(* Execution goes on to a query, or ends. *)
LEMMA MovesOn ==
    ASSUME StepInv, LedgerInv, ManagerInv, NEW l \in Launches, NEW s,
           s \in Ended \cup {"refused", "staged only"},
           stage' = [stage EXCEPT ![l] = s],
           UNCHANGED <<vars, history, boundary, resolved, artifact, historyId>>,
           s \in Verifying => stage[l] \in Verifying,
           stage[l] \in Ended => s \in Ended,
           s = "complete" => Named(l)'
    PROVE  ManagerInv'
<1>1. UNCHANGED <<bucket, phase, run, config, ledger, disturbed>>
    BY DEF vars, sinkVars, progress
<1>2. /\ \A q \in Launches : q # l => stage'[q] = stage[q]
      /\ stage'[l] = s
    BY DEF ManagerInv, ManagerTypes
<1>3. ManagerTypes'
    BY DEF ManagerInv, ManagerTypes, Ended, Verifying, Working, Outcomes
<1>4. \A q \in Launches : SameLegs(q)
    BY DEF SameLegs
<1>5. EndedStays(l)
    BY <1>1, <1>2 DEF EndedStays
<1>6. Flow(l)'
    <2>1. Flow(l)
        BY DEF ManagerInv
    <2> QED
        BY <1>1, <1>2, <2>1
           DEF Flow, Ended, Verifying, Shipped, Reading, HistoryRead, ArtifactMade
<1>7. Verified(l)'
    BY <1>1, <1>2, <1>4, VerifiedStays
<1>8. Named(l)'
    BY <1>2 DEF Named
<1> QED
    BY <1>2, <1>3, <1>4, <1>5, <1>6, <1>7, <1>8, LocalKeeps

LEMMA ReadHistoryKeeps ==
    ASSUME StepInv, LedgerInv, ManagerInv, NEW l \in Launches, ReadHistory(l)
    PROVE  ManagerInv'
<1>1. PICK rows \in HistoryFrames, lv \in Boundaries \cup {None} :
          /\ boundary' = [boundary EXCEPT ![l] = lv]
          /\ history' = [history EXCEPT ![l] = IF lv = None THEN rows ELSE Clip(rows, lv)]
    BY DEF ReadHistory
<1>2. /\ stage[l] = "idle" /\ stage' = [stage EXCEPT ![l] = "resolving"]
      /\ UNCHANGED <<vars, resolved, artifact, historyId>>
    BY DEF ReadHistory, Enter
<1>3. PICK kept : kept = IF lv = None THEN rows ELSE Clip(rows, lv)
    OBVIOUS
<1>4. /\ kept \in HistoryRows
      /\ lv # None => \A row \in kept : row[1] <= lv
    BY <1>3, ManagerAssumption DEF HistoryRows, Clip
<1>5. ManagerTypes /\ Flow(l)
    BY DEF ManagerInv
<1>6. ManagerTypes'
    BY <1>1, <1>2, <1>3, <1>4, <1>5 DEF ManagerTypes, Working
<1>7. /\ \A q \in Launches : q # l => stage'[q] = stage[q] /\ SameLegs(q)
      /\ stage'[l] = "resolving" /\ history'[l] = kept /\ boundary'[l] = lv
    BY <1>1, <1>2, <1>3, <1>5 DEF ManagerTypes, SameLegs
<1>8. UNCHANGED <<phase, config, run, disturbed>>
    BY <1>2 DEF vars, sinkVars, progress
<1>9. Flow(l)'
    <2>1. phase[l] = "idle"
        BY <1>2, <1>5 DEF Flow
    <2>2. HistoryRead(l)'
        BY <1>4, <1>7 DEF HistoryRead
    <2> QED
        BY <1>7, <1>8, <2>1, <2>2 DEF Flow, Shipped, Verifying
<1>10. EndedStays(l) /\ Verified(l)' /\ Named(l)'
    BY <1>2, <1>7, <1>8 DEF EndedStays, Ended, Verifying, Verified, Named
<1> QED
    BY <1>2, <1>6, <1>7, <1>9, <1>10, LocalKeeps

LEMMA ResolveForecastKeeps ==
    ASSUME StepInv, LedgerInv, ManagerInv, NEW l \in Launches, ResolveForecast(l)
    PROVE  ManagerInv'
<1>1. PICK r \in Runs : resolved' = [resolved EXCEPT ![l] = r]
    BY DEF ResolveForecast
<1>2. /\ stage[l] = "resolving" /\ stage' = [stage EXCEPT ![l] = "validating"]
      /\ UNCHANGED <<vars, history, boundary, artifact, historyId>>
    BY DEF ResolveForecast, Enter
<1>3. ManagerTypes /\ Flow(l)
    BY DEF ManagerInv
<1>4. ManagerTypes'
    BY <1>1, <1>2, <1>3 DEF ManagerTypes, Working
<1>5. /\ \A q \in Launches : q # l => stage'[q] = stage[q] /\ SameLegs(q)
      /\ stage'[l] = "validating" /\ resolved'[l] = r
    BY <1>1, <1>2, <1>3 DEF ManagerTypes, SameLegs
<1>6. UNCHANGED <<phase, config, run, disturbed>>
    BY <1>2 DEF vars, sinkVars, progress
<1>7. Flow(l)'
    BY <1>2, <1>3, <1>5, <1>6 DEF Flow, Reading, Shipped, Verifying, HistoryRead
<1>8. EndedStays(l) /\ Verified(l)' /\ Named(l)'
    BY <1>2, <1>5, <1>6 DEF EndedStays, Ended, Verifying, Verified, Named
<1> QED
    BY <1>2, <1>4, <1>5, <1>7, <1>8, LocalKeeps

LEMMA ValidateKeeps ==
    ASSUME StepInv, LedgerInv, ManagerInv, NEW l \in Launches, Validate(l)
    PROVE  ManagerInv'
<1>1. /\ stage[l] = "validating"
      /\ UNCHANGED <<vars, history, boundary, resolved, artifact, historyId>>
      /\ stage' = [stage EXCEPT ![l] = IF CoverageHolds(CellsIn(history[l]))
                                       THEN "saving" ELSE "refused"]
    BY DEF Validate, Enter
<1>2. CASE ~CoverageHolds(CellsIn(history[l]))
    <2>1. stage' = [stage EXCEPT ![l] = "refused"]
        BY <1>1, <1>2
    <2> QED
        BY <1>1, <2>1, MovesOn DEF Ended, Verifying
<1>3. CASE CoverageHolds(CellsIn(history[l]))
    <2>1. stage' = [stage EXCEPT ![l] = "saving"]
        BY <1>1, <1>3
    <2>2. ManagerTypes /\ Flow(l)
        BY DEF ManagerInv
    <2>3. ManagerTypes'
        BY <1>1, <2>1, <2>2 DEF ManagerTypes, Working
    <2>4. /\ \A q \in Launches : q # l => stage'[q] = stage[q]
          /\ stage'[l] = "saving" /\ \A q \in Launches : SameLegs(q)
        BY <1>1, <2>1, <2>2 DEF ManagerTypes, SameLegs
    <2>5. UNCHANGED <<phase, config, run, disturbed>>
        BY <1>1 DEF vars, sinkVars, progress
    <2>6. CoverageHolds(CellsIn(history[l]))'
        BY <1>1, <1>3
    <2>7. Flow(l)'
        BY <1>1, <2>2, <2>4, <2>5, <2>6 DEF Flow, Reading, Shipped, Verifying, HistoryRead
    <2>8. EndedStays(l) /\ Verified(l)' /\ Named(l)'
        BY <1>1, <2>4, <2>5 DEF EndedStays, Ended, Verifying, Verified, Named
    <2> QED
        BY <1>1, <2>3, <2>4, <2>7, <2>8, LocalKeeps
<1> QED
    BY <1>2, <1>3

LEMMA BuildHistoryKeeps ==
    ASSUME StepInv, LedgerInv, ManagerInv, NEW l \in Launches, BuildHistory(l)
    PROVE  ManagerInv'
<1>1. /\ stage[l] = "delivering" /\ phase[l] \in {"staged", "delivered"}
      /\ CellsIn(history[l]) \subseteq CompleteCells(config[l].lookup)
      /\ artifact' = [artifact EXCEPT ![l] = [rows |-> history[l], observed |-> boundary[l]]]
      /\ UNCHANGED <<vars, history, boundary, resolved, historyId>>
    BY DEF BuildHistory, SinkReturned
<1>2. PICK s \in {"shipping", "staged only"} :
          /\ s = IF config[l].enabled THEN "shipping" ELSE "staged only"
          /\ stage' = [stage EXCEPT ![l] = s]
    BY DEF BuildHistory, Enter
<1>3. ManagerTypes /\ Flow(l)
    BY DEF ManagerInv
<1>4. HistoryRead(l)
    BY <1>1, <1>3 DEF Flow
<1>5. ManagerTypes'
    <2>1. [rows |-> history[l], observed |-> boundary[l]]
              \in [rows : HistoryRows, observed : Boundaries \cup {None}]
        BY <1>4 DEF HistoryRead
    <2> QED
        BY <1>1, <1>2, <1>3, <2>1 DEF ManagerTypes, Working, Outcomes
<1>6. /\ \A q \in Launches : q # l => stage'[q] = stage[q] /\ SameLegs(q)
      /\ stage'[l] = s
      /\ artifact'[l] = [rows |-> history[l], observed |-> boundary[l]]
    BY <1>1, <1>2, <1>3 DEF ManagerTypes, SameLegs
<1>7. UNCHANGED <<phase, config, run, disturbed>>
    BY <1>1 DEF vars, sinkVars, progress
<1>8. Flow(l)'
    <2>1. ArtifactMade(l)'
        BY <1>1, <1>6, <1>7 DEF ArtifactMade
    <2>2. s = "shipping" => phase[l] = "delivered"
        BY <1>1, <1>2, <1>3 DEF Flow
    <2> QED
        BY <1>1, <1>3, <1>4, <1>6, <1>7, <2>1, <2>2
           DEF Flow, Reading, Shipped, Verifying, HistoryRead
<1>9. EndedStays(l) /\ Verified(l)' /\ Named(l)'
    BY <1>1, <1>6, <1>7 DEF EndedStays, Ended, Verifying, Verified, Named
<1> QED
    BY <1>1, <1>5, <1>6, <1>8, <1>9, LocalKeeps

LEMMA SelectKeeps ==
    ASSUME StepInv, LedgerInv, ManagerInv, NEW l \in Launches,
           SelectForecast(l) \/ SelectHistorical(l)
    PROVE  ManagerInv'
<1>1. /\ stage[l] \in {"selecting forecast", "selecting historical"}
      /\ UNCHANGED <<vars, history, boundary, resolved, artifact, historyId>>
      /\ \E s \in {"selecting historical", "listing", "invisible"} :
             stage' = [stage EXCEPT ![l] = s]
    BY DEF SelectForecast, SelectHistorical, Select, Enter
<1> QED
    BY <1>1, MovesOn DEF Ended, Verifying

LEMMA ListKeeps ==
    ASSUME StepInv, LedgerInv, ManagerInv, NEW l \in Launches, ListArtifacts(l)
    PROVE  ManagerInv'
<1> DEFINE listed == Listed(Forecast, {ManifestType, ShardType, SidecarType})
                         \cup Listed(Historical, {HistoryType})
<1>1. /\ stage[l] = "listing"
      /\ UNCHANGED <<vars, history, boundary, resolved, artifact, historyId>>
      /\ stage' = [stage EXCEPT ![l] = IF Objects(l) \subseteq listed
                                       THEN "complete" ELSE "invisible"]
    BY DEF ListArtifacts, Enter
<1>2. CASE Objects(l) \subseteq listed
    <2>1. stage' = [stage EXCEPT ![l] = "complete"]
        BY <1>1, <1>2
    <2>2. \A o \in Objects(l) : bucket[o.id].name = o.name
        <3>1. \A o \in listed : bucket[o.id].name = o.name
            BY DEF Listed
        <3> QED
            BY <1>2, <3>1
    <2>3. UNCHANGED <<bucket, ledger, historyId>>
        BY <1>1 DEF vars, sinkVars, progress
    <2>4. Named(l)'
        BY <2>2, <2>3 DEF Named, Objects, HistoryName
    <2> QED
        BY <1>1, <2>1, <2>4, MovesOn DEF Ended, Verifying
<1>3. CASE ~(Objects(l) \subseteq listed)
    <2>1. stage' = [stage EXCEPT ![l] = "invisible"]
        BY <1>1, <1>3
    <2> QED
        BY <1>1, <2>1, MovesOn DEF Ended, Verifying
<1> QED
    BY <1>2, <1>3

(* The exceptions, and a death between two calls. *)
LEMMA RaiseKeeps ==
    ASSUME StepInv, LedgerInv, ManagerInv, NEW l \in Launches,
           \/ RefuseHistory(l) \/ RefuseForecast(l) \/ RefuseSave(l) \/ SinkRaised(l)
           \/ RefuseArtifact(l) \/ ArtifactFails(l) \/ QueryFails(l)
           \/ stage[l] \in Working /\ Raise(l, "died")
    PROVE  ManagerInv'
<1>1. CASE \/ RefuseHistory(l) \/ RefuseForecast(l) \/ RefuseSave(l) \/ SinkRaised(l)
           \/ RefuseArtifact(l) \/ ArtifactFails(l)
    <2>1. /\ stage[l] \in {"idle", "resolving", "saving", "delivering"}
          /\ UNCHANGED <<vars, history, boundary, resolved, artifact, historyId>>
          /\ \E s \in {"refused", "failed"} : stage' = [stage EXCEPT ![l] = s]
        BY <1>1 DEF RefuseHistory, RefuseForecast, RefuseSave, SinkRaised, RefuseArtifact,
                    ArtifactFails, SinkReturned, Raise, Enter
    <2> QED
        BY <2>1, MovesOn DEF Ended, Verifying
<1>2. CASE QueryFails(l)
    <2>1. /\ stage[l] \in Verifying
          /\ UNCHANGED <<vars, history, boundary, resolved, artifact, historyId>>
          /\ stage' = [stage EXCEPT ![l] = "unverified"]
        BY <1>2 DEF QueryFails, Raise, Enter, Verifying
    <2> QED
        BY <2>1, MovesOn DEF Ended, Verifying
<1>3. CASE stage[l] \in Working /\ Raise(l, "died")
    <2>1. /\ UNCHANGED <<vars, history, boundary, resolved, artifact, historyId>>
          /\ stage' = [stage EXCEPT ![l] = "died"]
        BY <1>3 DEF Raise, Enter
    <2> QED
        BY <2>1, MovesOn DEF Ended, Verifying
<1> QED
    BY <1>1, <1>2, <1>3

-----------------------------------------------------------------------------
(* Steps of the sink. *)

(* A step of the sink leaves no historical artifact.                        *)
LEMMA SinkLands ==
    ASSUME StepInv, [Next]_vars
    PROVE  UNCHANGED bucket \/ \E f : Lands(f) /\ f.type # HistoryType
<1> SUFFICES ASSUME NEW l \in Launches, phase[l] = "uploading", NEW obj \in NextUploads(l),
                    NEW d \in BOOLEAN, bucket' = Stored(l, obj, d)
             PROVE  \E f : Lands(f) /\ f.type # HistoryType
    BY BucketSteps
<1>1. PICK f : Lands(f) /\ f.type = obj.type
    BY UploadLands
<1>2. f.type # HistoryType
    BY <1>1, NextUploadTyped DEF ShardType, SidecarType, ManifestType, HistoryType
<1> QED
    BY <1>1, <1>2

SinkStep(l) == Step(l) \/ Crash(l)

(* What a step of the sink does to the launches. *)
LEMMA SinkStepFacts ==
    ASSUME StepInv, NEW l \in Launches, SinkStep(l)
    PROVE  /\ UNCHANGED <<run, config>>
           /\ \A q \in Launches : disturbed[q] => disturbed'[q]
           /\ \A q \in Launches : q # l => phase'[q] = phase[q] /\ ledger'[q] = ledger[q]
           /\ phase'[l] # "idle"
           /\ phase'[l] = "staged" => ~config[l].enabled
<1>0. phase \in [Launches -> {"idle"} \cup Running \cup Finished]
      /\ ledger \in [Launches -> Seq(LedgerEntry)]
    BY DEF StepInv, SinkTypes
<1>1. CASE UploadConfirmed(l)
    <2>1. /\ UNCHANGED <<run, config, disturbed>>
          /\ \E e : ledger' = [ledger EXCEPT ![l] = e]
          /\ \E p \in {"delivered", "uploading"} : phase' = [phase EXCEPT ![l] = p]
        BY <1>1 DEF UploadConfirmed, Goto
    <2> QED
        BY <1>0, <2>1
<1>2. CASE \/ LoadFails(l) \/ RefuseTarget(l) \/ AcceptTarget(l) \/ OpenFile(l)
           \/ WriteFile(l) \/ RecordShard(l) \/ RecordSidecar(l) \/ RefuseFile(l)
           \/ Interlock(l)
    <2>1. /\ UNCHANGED <<run, config, ledger>>
          /\ \A q \in Launches : q # l => phase'[q] = phase[q]
          /\ \A q \in Launches : disturbed[q] => disturbed'[q]
          /\ phase[l] \in Running
        BY <1>2, SoleRecorder
    <2>2. /\ phase'[l] # "idle"
          /\ phase'[l] = "staged" => ~config[l].enabled
        <3>1. CASE LoadFails(l) \/ RefuseTarget(l) \/ RefuseFile(l)
            BY <1>0, <3>1 DEF LoadFails, RefuseTarget, RefuseFile, Move, Goto
        <3>2. CASE AcceptTarget(l) \/ RecordSidecar(l)
            BY <1>0, <3>2 DEF AcceptTarget, RecordSidecar, Goto
        <3>3. CASE OpenFile(l) \/ WriteFile(l)
            <4>1. UNCHANGED phase /\ phase[l] \in Writing
                BY <3>3 DEF OpenFile, WriteFile
            <4> QED
                BY <4>1 DEF Writing
        <3>4. CASE RecordShard(l)
            <4>1. \E p \in {"slicing", "sidecar", "loading"} : phase' = [phase EXCEPT ![l] = p]
                BY <3>4 DEF RecordShard, Goto
            <4> QED
                BY <1>0, <4>1
        <3>5. CASE Interlock(l)
            <4>1. \E p \in {"staged", "refused", "uploading"} :
                      phase' = [phase EXCEPT ![l] = p] /\ (p = "staged" => ~config[l].enabled)
                BY <3>5 DEF Interlock, AfterStaging, Goto
            <4> QED
                BY <1>0, <4>1
        <3> QED
            BY <1>2, <3>1, <3>2, <3>3, <3>4, <3>5
    <2> QED
        BY <2>1, <2>2
<1>3. CASE UploadTears(l) \/ Crash(l)
    <2>1. UNCHANGED <<run, config, ledger, disturbed>>
        BY <1>3 DEF UploadTears, Crash
    <2>2. \E p \in {"torn", "crashed"} : phase' = [phase EXCEPT ![l] = p]
        BY <1>3 DEF UploadTears, Crash, Goto
    <2> QED
        BY <1>0, <2>1, <2>2
<1> QED
    BY <1>1, <1>2, <1>3 DEF SinkStep, Step, Advance

LEMMA SinkStepKeeps ==
    ASSUME StepInv, LedgerInv, ManagerInv, NEW l \in Launches, stage[l] = "delivering",
           SinkStep(l), NEW s \in {"delivering", "died"},
           stage' = [stage EXCEPT ![l] = s],
           UNCHANGED <<history, boundary, resolved, artifact, historyId>>
    PROVE  ManagerInv'
<1>1. /\ UNCHANGED <<run, config>>
      /\ \A q \in Launches : disturbed[q] => disturbed'[q]
      /\ \A q \in Launches : q # l => phase'[q] = phase[q] /\ ledger'[q] = ledger[q]
      /\ phase'[l] # "idle"
      /\ phase'[l] = "staged" => ~config[l].enabled
    BY SinkStepFacts
<1>2. UNCHANGED bucket \/ \E f : Lands(f) /\ f.type # HistoryType
    <2>1. Next
        BY DEF Next, SinkStep
    <2> QED
        BY <2>1, SinkLands
<1>3. /\ \A q \in Launches : q # l => stage'[q] = stage[q]
      /\ stage'[l] = s /\ \A q \in Launches : SameLegs(q)
    BY DEF ManagerInv, ManagerTypes, SameLegs
<1>4. ManagerTypes'
    BY DEF ManagerInv, ManagerTypes, Working, Outcomes
<1>5. ASSUME NEW q \in Launches, q # l PROVE Flow(q)' /\ Verified(q)' /\ Named(q)'
    BY <1>1, <1>2, <1>3, <1>5, ManagerStands DEF Idles
<1>6. Flow(l)'
    <2>1. Flow(l)
        BY DEF ManagerInv
    <2>2. phase[l] # "idle"
        BY <2>1 DEF Flow
    <2>3. HistoryRead(l)' /\ CoverageHolds(CellsIn(history[l]))' /\ run'[l] = resolved'[l]
        BY <1>1, <2>1, <2>2 DEF Flow, HistoryRead
    <2> QED
        BY <1>1, <1>3, <2>3 DEF Flow, Reading, Shipped, Verifying
<1>7. Verified(l)' /\ Named(l)'
    BY <1>3 DEF Verified, Named, Verifying
<1>8. \A q \in Launches : EndedStays(q)
    BY <1>1, <1>3 DEF EndedStays, SameLegs, Ended, Verifying
<1>9. \A i \in 1..Len(bucket') : Origin(i)'
    <2>1. Grows /\ Len(bucket) \in Nat
        BY <1>2, BucketTyped DEF Grows
    <2>2. \A i \in 1..Len(bucket) : Origin(i)'
        BY <1>8, <2>1, ArtifactOriginStays
    <2>3. ASSUME NEW i \in 1..Len(bucket'), i \notin 1..Len(bucket) PROVE Origin(i)'
        <3>1. bucket'[i].type # HistoryType
            BY <1>2, <2>1, <2>3 DEF Lands
        <3> QED
            BY <3>1 DEF Origin
    <2> QED
        BY <2>2, <2>3
<1> QED
    BY <1>4, <1>5, <1>6, <1>7, <1>9 DEF ManagerInv

LEMMA SaveKeeps ==
    ASSUME StepInv, LedgerInv, ManagerInv, NEW l \in Launches, Save(l)
    PROVE  Next /\ ManagerInv'
<1>1. PICK enabled \in BOOLEAN, lookup \in Lookups :
          Start(l, resolved[l], [store |-> enabled, enabled |-> enabled, lookup |-> lookup])
    BY DEF Save
<1>2. /\ stage[l] = "saving" /\ stage' = [stage EXCEPT ![l] = "delivering"]
      /\ UNCHANGED <<history, boundary, resolved, artifact, historyId>>
    BY DEF Save, Enter
<1>3. ManagerTypes /\ Flow(l)
    BY DEF ManagerInv
<1>4. /\ resolved[l] \in Runs
      /\ [store |-> enabled, enabled |-> enabled, lookup |-> lookup] \in Configs
    BY <1>2, <1>3 DEF Flow, Configs
<1>5. Next
    BY <1>1, <1>4 DEF Next
<1>6. /\ UNCHANGED <<bucket, ledger, disturbed>> /\ phase[l] = "idle"
      /\ \A q \in Launches : q # l => /\ phase'[q] = phase[q] /\ run'[q] = run[q]
                                       /\ config'[q] = config[q]
      /\ phase'[l] = "loading" /\ run'[l] = resolved[l]
    BY <1>1 DEF Start, Goto, StepInv, SinkTypes
<1>7. /\ \A q \in Launches : q # l => stage'[q] = stage[q]
      /\ stage'[l] = "delivering" /\ \A q \in Launches : SameLegs(q)
    BY <1>2, <1>3 DEF ManagerTypes, SameLegs
<1>8. ManagerTypes'
    BY <1>2, <1>3 DEF ManagerTypes, Working
<1>9. ASSUME NEW q \in Launches, q # l PROVE Flow(q)' /\ Verified(q)' /\ Named(q)'
    BY <1>6, <1>7, <1>9, ManagerStands DEF Idles
<1>10. Flow(l)'
    <2>1. HistoryRead(l)' /\ CoverageHolds(CellsIn(history[l]))' /\ run'[l] = resolved'[l]
        BY <1>2, <1>3, <1>6 DEF Flow, Reading, HistoryRead
    <2> QED
        BY <1>6, <1>7, <2>1 DEF Flow, Reading, Shipped, Verifying
<1>11. Verified(l)' /\ Named(l)'
    BY <1>7 DEF Verified, Named, Verifying
<1>12. \A q \in Launches : EndedStays(q)
    BY <1>2, <1>6, <1>7 DEF EndedStays, SameLegs, Ended, Verifying
<1>13. \A i \in 1..Len(bucket) : Origin(i)'
    BY <1>6, <1>12, ArtifactOriginStays DEF Grows
<1> QED
    BY <1>5, <1>6, <1>8, <1>9, <1>10, <1>11, <1>13 DEF ManagerInv

-----------------------------------------------------------------------------
(* The historical leg. *)

LEMMA ReadyToShip ==
    ASSUME ManagerInv, NEW l \in Launches, stage[l] = "shipping"
    PROVE  /\ phase[l] = "delivered" /\ ArtifactMade(l) /\ HistoryRead(l) /\ run[l] = resolved[l]
           /\ artifact[l].rows = history[l]
<1>1. Flow(l)
    BY DEF ManagerInv
<1>2. phase[l] = "delivered" /\ ArtifactMade(l) /\ HistoryRead(l) /\ run[l] = resolved[l]
    BY <1>1 DEF Flow, Shipped
<1>3. artifact[l].rows = history[l]
    BY <1>2 DEF ArtifactMade
<1> QED
    BY <1>2, <1>3

LEMMA HistoryLands ==
    ASSUME StepInv, ManagerInv, NEW l \in Launches, stage[l] = "shipping", NEW d \in BOOLEAN,
           bucket' = Stored(l, HistoryUpload(l), d)
    PROVE  \E f \in ArtifactFile :
               /\ bucket' = Append(bucket, f) /\ Lands(f)
               /\ f.by = l /\ f.documented = d /\ f.content = ArtifactBytes(l)
               /\ f.name = HistoryName(l)
<1>1. artifact[l].rows = history[l] /\ history[l] \in HistoryRows
    BY ReadyToShip DEF HistoryRead
<1>2. HistoryUpload(l).content = ArtifactBytes(l)
    BY <1>1 DEF HistoryUpload, Upload, ArtifactBytes
<1>3. PICK f : f = [name |-> HistoryName(l), type |-> HistoryType, category |-> Historical,
                    content |-> ArtifactBytes(l), documented |-> d, by |-> l]
    OBVIOUS
<1>4. bucket' = Append(bucket, f)
    BY <1>1, <1>3 DEF Stored, HistoryUpload, Upload, ArtifactBytes
<1>5. f \in ArtifactFile
    BY <1>1, <1>3 DEF ArtifactFile, HistoryName, ArtifactBytes, HistoryRows
<1>6. f.by = l /\ f.documented = d /\ f.content = ArtifactBytes(l) /\ f.name = HistoryName(l)
    BY <1>3
<1>7. Lands(f)
    BY <1>4, BucketTyped DEF Lands
<1> QED
    BY <1>4, <1>5, <1>6, <1>7

LEMMA AppendLands ==
    ASSUME StepInv, NEW f, bucket' = Append(bucket, f)
    PROVE  Lands(f)
BY BucketTyped DEF Lands

LEMMA LandsLast ==
    ASSUME Len(bucket) \in Nat, NEW f, Lands(f), NEW i \in 1..Len(bucket'),
           i \notin 1..Len(bucket)
    PROVE  i - 1 = Len(bucket) /\ bucket'[i] = f
BY DEF Lands

LEMMA ShippingKeeps ==
    ASSUME StepInv, LedgerInv, ManagerInv, NEW l \in Launches, stage[l] = "shipping",
           UNCHANGED sinkVars,
           \/ UNCHANGED bucket
           \/ \E f : Lands(f) /\ f.by = l /\ f.content = ArtifactBytes(l),
           NEW s \in {"selecting forecast", "failed", "died"},
           stage' = [stage EXCEPT ![l] = s],
           UNCHANGED <<history, boundary, resolved, artifact>>,
           \A q \in Launches : q # l => historyId'[q] = historyId[q],
           ManagerTypes', Verified(l)'
    PROVE  ManagerInv'
<1>1. UNCHANGED <<phase, run, config, ledger, disturbed>>
    BY DEF sinkVars, progress
<1>2. /\ \A q \in Launches : q # l => stage'[q] = stage[q] /\ SameLegs(q)
      /\ stage'[l] = s
    BY DEF ManagerInv, ManagerTypes, SameLegs
<1>3. ASSUME NEW q \in Launches, q # l PROVE Flow(q)' /\ Verified(q)' /\ Named(q)'
    <2>1. UNCHANGED bucket \/ \E f : Lands(f) /\ (f.by # q \/ f.type # HistoryType)
        BY <1>3
    <2> QED
        BY <1>1, <1>2, <1>3, <2>1, ManagerStands DEF Idles
<1>4. Flow(l) /\ phase[l] = "delivered" /\ ArtifactMade(l) /\ run[l] = resolved[l]
    BY ReadyToShip DEF ManagerInv
<1>5. Flow(l)'
    BY <1>1, <1>2, <1>4 DEF Flow, Reading, Shipped, Verifying, HistoryRead, ArtifactMade
<1>6. Named(l)'
    BY <1>2 DEF Named
<1>7. \A q \in Launches : EndedStays(q)
    BY <1>1, <1>2 DEF EndedStays, SameLegs, Ended, Verifying
<1>8. Grows /\ Len(bucket) \in Nat
    BY BucketTyped DEF Grows
<1>9. \A i \in 1..Len(bucket) : Origin(i)'
    BY <1>7, <1>8, ArtifactOriginStays
<1>10. ASSUME NEW i \in 1..Len(bucket'), i \notin 1..Len(bucket) PROVE Origin(i)'
    <2>1. i - 1 = Len(bucket) /\ bucket'[i].by = l /\ bucket'[i].content = ArtifactBytes(l)
        <3>1. PICK f : Lands(f) /\ f.by = l /\ f.content = ArtifactBytes(l)
            BY <1>10
        <3> QED
            BY <1>8, <1>10, <3>1, LandsLast
    <2>2. bucket'[i].content.rows = history[l]
        <3>1. ArtifactBytes(l).rows = history[l]
            BY DEF ArtifactBytes
        <3> QED
            BY <2>1, <3>1
    <2>3. PICK j \in 1..Len(bucket) :
              /\ Documented(j)
              /\ ~disturbed[l] => bucket[j].content = ManifestOf(run[l], config[l].lookup)
        BY <1>4, DeliveredLedger
    <2>4. bucket'[j] = bucket[j]
        BY <1>8, GrowsKeeps
    <2>5. ~disturbed'[l] => \E x \in 1..(i - 1) :
              /\ bucket'[x].documented
              /\ bucket'[x].content = ManifestOf(resolved'[l], config'[l].lookup)
        BY <1>1, <1>4, <2>1, <2>3, <2>4 DEF Documented
    <2>6. stage'[l] \in Ended /\ phase'[l] # "idle" /\ ArtifactMade(l)'
        BY <1>1, <1>2, <1>4 DEF Ended, Verifying, ArtifactMade
    <2> QED
        BY <2>1, <2>2, <2>5, <2>6 DEF Origin, HasContent, Documented, ArtifactMade
<1> QED
    BY <1>3, <1>5, <1>6, <1>9, <1>10 DEF ManagerInv

LEMMA ShipHistoryKeeps ==
    ASSUME StepInv, LedgerInv, ManagerInv, NEW l \in Launches, ShipHistory(l)
    PROVE  /\ ManagerInv'
           /\ \/ UNCHANGED bucket
              \/ \E f \in ArtifactFile : bucket' = Append(bucket, f)
<1>1. PICK id \in 1..(Len(bucket) + 1) :
          /\ UploadSucceeds(l, HistoryUpload(l), id)
          /\ historyId' = [historyId EXCEPT ![l] = id]
    BY DEF ShipHistory
<1>2. /\ stage[l] = "shipping" /\ stage' = [stage EXCEPT ![l] = "selecting forecast"]
      /\ UNCHANGED sinkVars /\ UNCHANGED <<history, boundary, resolved, artifact>>
    BY DEF ShipHistory, Enter
<1>3. Len(bucket) \in Nat /\ FileIds = 1..Len(bucket) /\ ManagerTypes
    BY BucketTyped DEF ManagerInv
<1>4. \/ /\ id = Len(bucket) + 1
         /\ \E f \in ArtifactFile :
               /\ bucket' = Append(bucket, f) /\ Lands(f)
               /\ f.by = l /\ f.documented = TRUE /\ f.content = ArtifactBytes(l)
      \/ /\ UNCHANGED bucket /\ id \in 1..Len(bucket)
         /\ Documented(id) /\ bucket[id].content = ArtifactBytes(l)
    <2>1. CASE Twins(HistoryUpload(l)) = {} /\ id = Len(bucket) + 1
               /\ bucket' = Stored(l, HistoryUpload(l), TRUE)
        <3>1. TRUE \in BOOLEAN
            OBVIOUS
        <3> QED
            BY <1>2, <2>1, <3>1, HistoryLands
    <2>2. CASE id \in Twins(HistoryUpload(l)) /\ UNCHANGED bucket
        <3>1. artifact[l].rows = history[l]
            BY <1>2, ReadyToShip
        <3>2. HistoryUpload(l).content = ArtifactBytes(l)
            BY <3>1 DEF HistoryUpload, Upload, ArtifactBytes
        <3> QED
            BY <1>3, <2>2, <3>2 DEF Twins
    <2> QED
        BY <1>1, <2>1, <2>2 DEF UploadSucceeds
<1>5. ManagerTypes'
    <2>1. id \in Nat
        BY <1>3
    <2>2. historyId' \in [Launches -> Nat \cup {None}]
        BY <1>1, <1>3, <2>1 DEF ManagerTypes
    <2> QED
        BY <1>2, <1>3, <2>2 DEF ManagerTypes, Working
<1>6. /\ \A q \in Launches : q # l => historyId'[q] = historyId[q]
      /\ historyId'[l] = id
    BY <1>1, <1>3 DEF ManagerTypes
<1>7. \A i \in 1..Len(bucket) : ~(bucket[i].by = l /\ bucket[i].type = HistoryType)
    BY <1>2 DEF ManagerInv, Origin, Ended, Verifying
<1>8. id \in 1..Len(bucket') /\ bucket'[id].documented /\ bucket'[id].content = ArtifactBytes(l)
    BY <1>3, <1>4 DEF Lands, Documented
<1>9. \A i \in 1..Len(bucket') : bucket'[i].by = l /\ bucket'[i].type = HistoryType => i <= id
    BY <1>3, <1>4, <1>7 DEF Lands
<1>10. ArtifactBytes(l)' = ArtifactBytes(l)
    BY <1>2 DEF ArtifactBytes
<1>11. Verified(l)'
    BY <1>6, <1>8, <1>9, <1>10 DEF Verified, Documented
<1>12. UNCHANGED bucket \/ \E f : Lands(f) /\ f.by = l /\ f.content = ArtifactBytes(l)
    BY <1>4
<1>13. ManagerInv'
    BY <1>2, <1>5, <1>6, <1>11, <1>12, ShippingKeeps
<1> QED
    BY <1>4, <1>13

(* It fails, or the process dies in it. *)
LEMMA ShippingStops ==
    ASSUME StepInv, LedgerInv, ManagerInv, NEW l \in Launches, stage[l] = "shipping",
           UploadFails(l, HistoryUpload(l)), UNCHANGED sinkVars,
           NEW s \in {"failed", "died"}, stage' = [stage EXCEPT ![l] = s],
           UNCHANGED <<history, boundary, resolved, artifact, historyId>>
    PROVE  /\ ManagerInv'
           /\ \/ UNCHANGED bucket
              \/ \E f \in ArtifactFile : bucket' = Append(bucket, f)
<1>1. \/ UNCHANGED bucket
      \/ \E f \in ArtifactFile :
            /\ bucket' = Append(bucket, f) /\ Lands(f)
            /\ f.by = l /\ f.content = ArtifactBytes(l)
    BY HistoryLands DEF UploadFails
<1>2. ManagerTypes /\ stage'[l] = s
    BY DEF ManagerInv, ManagerTypes
<1>3. ManagerTypes'
    BY <1>2 DEF ManagerTypes, Outcomes
<1>4. Verified(l)'
    BY <1>2 DEF Verified, Verifying
<1>5. UNCHANGED bucket \/ \E f : Lands(f) /\ f.by = l /\ f.content = ArtifactBytes(l)
    BY <1>1
<1>6. ManagerInv'
    BY <1>3, <1>4, <1>5, ShippingKeeps
<1> QED
    BY <1>1, <1>6

-----------------------------------------------------------------------------
(* Every step of a delivery keeps the sink's invariants and the manager's.  *)

LEMMA SinkKeeps ==
    ASSUME StepInv, BucketInv, LedgerInv, [Next]_vars
    PROVE  StepInv' /\ BucketInv' /\ LedgerInv'
BY StepKeepsStaging, StepKeepsBucket, StepKeepsLedger

LEMMA InitManagerInv == ManagerInit => ManagerInv
<1> SUFFICES ASSUME ManagerInit PROVE ManagerInv
    OBVIOUS
<1>1. /\ bucket = <<>> /\ phase = [l \in Launches |-> "idle"]
      /\ stage = [l \in Launches |-> "idle"]
    BY DEF ManagerInit, Init
<1>2. ManagerTypes
    BY DEF ManagerInit, ManagerTypes
<1>3. \A l \in Launches : Flow(l) /\ Verified(l) /\ Named(l)
    BY <1>1 DEF Flow, Verified, Named, Reading, Shipped, Verifying
<1>4. \A i \in 1..Len(bucket) : Origin(i)
    BY <1>1
<1> QED
    BY <1>2, <1>3, <1>4 DEF ManagerInv

LEMMA DieKeeps ==
    ASSUME StepInv, BucketInv, LedgerInv, ManagerInv, NEW l \in Launches, Die(l)
    PROVE  StepInv' /\ BucketInv' /\ LedgerInv' /\ ManagerInv'
<1>1. /\ stage[l] \in Working /\ stage' = [stage EXCEPT ![l] = "died"]
      /\ UNCHANGED <<history, boundary, resolved, artifact, historyId>>
    BY DEF Die, Enter
<1>2. CASE stage[l] = "delivering" /\ phase[l] \in Running
    <2>1. Crash(l)
        BY <1>2 DEF Die
    <2>2. Next
        BY <2>1 DEF Next
    <2> QED
        BY <1>1, <1>2, <2>1, <2>2, SinkKeeps, SinkStepKeeps DEF SinkStep
<1>3. CASE stage[l] = "shipping"
    <2>1. UploadFails(l, HistoryUpload(l)) /\ UNCHANGED sinkVars
        BY <1>3 DEF Die
    <2> QED
        BY <1>1, <1>3, <2>1, ShippingStops, ArtifactKeeps
<1>4. CASE ~(stage[l] = "delivering" /\ phase[l] \in Running) /\ stage[l] # "shipping"
    <2>1. UNCHANGED vars
        BY <1>4 DEF Die
    <2>2. Raise(l, "died")
        BY <1>1, <2>1 DEF Raise, Enter
    <2> QED
        BY <1>1, <2>1, <2>2, RaiseKeeps, SinkKeeps
<1> QED
    BY <1>2, <1>3, <1>4

LEMMA DeliveryStepKeeps ==
    ASSUME StepInv, BucketInv, LedgerInv, ManagerInv, [ManagerNext]_allVars
    PROVE  StepInv' /\ BucketInv' /\ LedgerInv' /\ ManagerInv'
<1>1. CASE ManagerNext
    <2>1. PICK l \in Launches : ManagerStep(l) \/ Die(l)
        BY <1>1 DEF ManagerNext
    <2>2. CASE \/ ReadHistory(l) \/ ResolveForecast(l) \/ Validate(l) \/ BuildHistory(l)
               \/ SelectForecast(l) \/ SelectHistorical(l) \/ ListArtifacts(l)
        <3>1. UNCHANGED vars
            BY <2>2 DEF ReadHistory, ResolveForecast, Validate, BuildHistory, SelectForecast,
                        SelectHistorical, Select, ListArtifacts
        <3>2. ManagerInv'
            BY <2>2, ReadHistoryKeeps, ResolveForecastKeeps, ValidateKeeps, BuildHistoryKeeps,
               SelectKeeps, ListKeeps
        <3> QED
            BY <3>1, <3>2, SinkKeeps
    <2>3. CASE \/ RefuseHistory(l) \/ RefuseForecast(l) \/ RefuseSave(l) \/ SinkRaised(l)
               \/ RefuseArtifact(l) \/ ArtifactFails(l) \/ QueryFails(l)
        <3>1. UNCHANGED vars
            BY <2>3 DEF RefuseHistory, RefuseForecast, RefuseSave, SinkRaised, RefuseArtifact,
                        ArtifactFails, QueryFails, Raise
        <3> QED
            BY <2>3, <3>1, RaiseKeeps, SinkKeeps
    <2>4. CASE Save(l)
        BY <2>4, SaveKeeps, SinkKeeps
    <2>5. CASE Deliver(l) \/ DeliverFails(l)
        <3>1. /\ stage[l] = "delivering" /\ SinkStep(l)
              /\ UNCHANGED <<stage, history, boundary, resolved, artifact, historyId>>
            BY <2>5 DEF Deliver, DeliverFails, SinkStep, Step, managerVars
        <3>2. Next
            BY <3>1 DEF Next, SinkStep
        <3>3. stage' = [stage EXCEPT ![l] = "delivering"]
            BY <3>1 DEF ManagerInv, ManagerTypes
        <3> QED
            BY <3>1, <3>2, <3>3, SinkKeeps, SinkStepKeeps
    <2>6. CASE ShipHistory(l)
        <3>1. UNCHANGED sinkVars
            BY <2>6 DEF ShipHistory
        <3> QED
            BY <2>6, <3>1, ShipHistoryKeeps, ArtifactKeeps
    <2>7. CASE ShipHistoryFails(l)
        <3>1. /\ stage[l] = "shipping" /\ UploadFails(l, HistoryUpload(l)) /\ UNCHANGED sinkVars
              /\ stage' = [stage EXCEPT ![l] = "failed"]
              /\ UNCHANGED <<history, boundary, resolved, artifact, historyId>>
            BY <2>7 DEF ShipHistoryFails, Enter
        <3> QED
            BY <3>1, ShippingStops, ArtifactKeeps
    <2>8. CASE Die(l)
        BY <2>8, DieKeeps
    <2> QED
        BY <2>1, <2>2, <2>3, <2>4, <2>5, <2>6, <2>7, <2>8
           DEF ManagerStep, ManagerAdvance, ManagerFailure
<1>2. CASE UNCHANGED allVars
    <2>1. UNCHANGED <<vars, stage, history, boundary, resolved, artifact, historyId>>
        BY <1>2 DEF allVars, managerVars
    <2>2. UNCHANGED <<bucket, phase, run, config, ledger, disturbed>>
        BY <2>1 DEF vars, sinkVars, progress
    <2>3. ManagerTypes'
        BY <2>1 DEF ManagerInv, ManagerTypes
    <2>4. \A q \in Launches : Idles(q) /\ EndedStays(q)
        BY <2>1, <2>2 DEF Idles, SameLegs, EndedStays
    <2>5. \A q \in Launches : Flow(q)' /\ Verified(q)' /\ Named(q)'
        BY <2>2, <2>4, ManagerStands
    <2>6. \A i \in 1..Len(bucket) : Origin(i)'
        BY <2>2, <2>4, ArtifactOriginStays DEF Grows
    <2>7. ManagerInv'
        BY <2>2, <2>3, <2>5, <2>6 DEF ManagerInv
    <2> QED
        BY <2>1, <2>7, SinkKeeps
<1> QED
    BY <1>1, <1>2

(* The sink's invariants hold in a whole delivery, with the manager's.      *)
THEOREM DeliveriesHold == ManagerSpec => [](StepInv /\ BucketInv /\ LedgerInv /\ ManagerInv)
<1>1. ManagerInit => StepInv /\ BucketInv /\ LedgerInv /\ ManagerInv
    BY InitStepInv, InitBucketInv, InitLedger, InitManagerInv DEF ManagerInit
<1>2. ASSUME StepInv, BucketInv, LedgerInv, ManagerInv, [ManagerNext]_allVars
      PROVE  StepInv' /\ BucketInv' /\ LedgerInv' /\ ManagerInv'
    BY <1>2, DeliveryStepKeeps
<1> QED
    BY <1>1, <1>2, PTL DEF ManagerSpec

-----------------------------------------------------------------------------
(* The types of a whole delivery. *)
THEOREM DeliveryTypes == ManagerSpec => []ManagerTypeOK
<1>1. ASSUME StepInv, ManagerInv PROVE ManagerTypeOK
    <2>1. bucket \in Seq(BucketFile)
        BY <1>1, BucketTyped
    <2>2. File \subseteq ManagedFile
        BY DEF File, ManagedFile
    <2>3. ArtifactFile \subseteq ManagedFile
        BY DEF ArtifactFile, ManagedFile, HistoryNames, HistoryRows, Types
    <2>4. BucketFile \subseteq ManagedFile
        BY <2>2, <2>3 DEF BucketFile
    <2>5. bucket \in Seq(ManagedFile)
        BY <2>1, <2>4
    <2> QED
        BY <1>1, <2>5 DEF ManagerInv, ManagerTypes, ManagerTypeOK
<1> QED
    BY <1>1, DeliveriesHold, PTL

(* Nothing of a delivery whose historical leg fails coverage reaches the    *)
(* store, and no shipped artifact lacks geography.                          *)
THEOREM OnlyCoveredShip == ManagerSpec => []UncoveredNeverShips
<1>1. ASSUME StepInv, BucketInv, ManagerInv PROVE UncoveredNeverShips
    <2>1. FileIds = 1..Len(bucket)
        BY <1>1, BucketTyped
    <2>2. ASSUME NEW i \in 1..Len(bucket)
          PROVE  /\ CoverageHolds(CellsIn(history[bucket[i].by]))
                 /\ bucket[i].type = HistoryType =>
                        CellsIn(bucket[i].content.rows)
                            \subseteq CompleteCells(config[bucket[i].by].lookup)
        <3>1. bucket[i].by \in Launches
            BY <1>1, FileTyped
        <3>2. CASE bucket[i].type = HistoryType
            <4>1. PICK q \in Launches : q = bucket[i].by
                BY <3>1
            <4>2. phase[q] # "idle" /\ bucket[i].content.rows = history[q] /\ ArtifactMade(q)
                BY <1>1, <3>2, <4>1 DEF ManagerInv, Origin
            <4>3. CoverageHolds(CellsIn(history[q]))
                BY <1>1, <4>2 DEF ManagerInv, Flow
            <4> QED
                BY <4>1, <4>2, <4>3 DEF ArtifactMade
        <3>3. CASE bucket[i].type # HistoryType
            <4>1. phase[bucket[i].by] # "idle"
                BY <1>1, <3>3, SinkFilesAreSound DEF SoundOrigin
            <4> QED
                BY <1>1, <3>1, <3>3, <4>1 DEF ManagerInv, Flow
        <3> QED
            BY <3>2, <3>3
    <2> QED
        BY <2>1, <2>2 DEF UncoveredNeverShips, HistoryFiles
<1> QED
    BY <1>1, DeliveriesHold, PTL

(* No fabricated month ships unannounced: an artifact whose description     *)
(* states a boundary has no month above it.                                 *)
THEOREM NoMonthUnannounced == ManagerSpec => []ClippedOrDeclared
<1>1. ASSUME StepInv, ManagerInv PROVE ClippedOrDeclared
    <2> SUFFICES ASSUME NEW i \in HistoryFiles, artifact[bucket[i].by].observed # None,
                        NEW row \in bucket[i].content.rows
                 PROVE  row[1] <= artifact[bucket[i].by].observed
        BY DEF ClippedOrDeclared
    <2>1. i \in 1..Len(bucket) /\ bucket[i].type = HistoryType
        BY <1>1, BucketTyped DEF HistoryFiles
    <2>2. PICK q \in Launches : q = bucket[i].by
        BY <1>1, <2>1, FileTyped
    <2>3. phase[q] # "idle" /\ bucket[i].content.rows = history[q] /\ ArtifactMade(q)
        BY <1>1, <2>1, <2>2 DEF ManagerInv, Origin
    <2>4. HistoryRead(q)
        BY <1>1, <2>3 DEF ManagerInv, Flow
    <2>5. artifact[q].observed = boundary[q]
        BY <2>3 DEF ArtifactMade
    <2> QED
        BY <2>2, <2>3, <2>4, <2>5 DEF HistoryRead
<1> QED
    BY <1>1, DeliveriesHold, PTL

(* A historical artifact in the bucket came after a manifest of the run it  *)
(* was delivered with, if nobody wrote beneath its launch.                  *)
THEOREM HistoryComesAfter == ManagerSpec => []HistoryFollowsItsRun
<1>1. ASSUME StepInv, BucketInv, ManagerInv PROVE HistoryFollowsItsRun
    <2> SUFFICES ASSUME NEW i \in HistoryFiles, ~disturbed[bucket[i].by]
                 PROVE  \E j \in ManifestIds :
                            j < i /\ bucket[j].name = ManifestName(resolved[bucket[i].by])
        BY DEF HistoryFollowsItsRun
    <2>1. /\ i \in 1..Len(bucket) /\ bucket[i].type = HistoryType
          /\ Len(bucket) \in Nat /\ FileIds = 1..Len(bucket)
        BY <1>1, BucketTyped DEF HistoryFiles
    <2>2. PICK q \in Launches : q = bucket[i].by
        BY <1>1, <2>1, FileTyped
    <2>3. HasContent(i - 1, ManifestOf(resolved[q], config[q].lookup))
        BY <1>1, <2>1, <2>2 DEF ManagerInv, Origin
    <2>4. PICK j \in 1..(i - 1) :
              Documented(j) /\ bucket[j].content = ManifestOf(resolved[q], config[q].lookup)
        BY <2>3 DEF HasContent
    <2>5. j \in 1..Len(bucket) /\ j < i
        BY <2>1
    <2>6. bucket[j].content.kind = "manifest" /\ bucket[j].content.run = resolved[q]
        BY <2>4 DEF ManifestOf
    <2>7. /\ SoundOrigin(bucket[j]) /\ bucket[j].type = ManifestType
          /\ bucket[j].name = ManifestName(resolved[q])
        BY <1>1, <2>5, <2>6, ManifestKind
    <2>8. j \in ManifestIds
        BY <2>1, <2>4, <2>5, <2>7 DEF ManifestIds, Matching, SoundOrigin
    <2> QED
        BY <2>2, <2>5, <2>7, <2>8
<1> QED
    BY <1>1, DeliveriesHold, PTL

(* A delivery reported complete can be found under its names, and, if       *)
(* nobody wrote beneath the launch, with the bytes its manifest pins,       *)
(* whether or not the store declines copies or orders its answers: the      *)
(* names that the read-back compared (Named) supply what a declining        *)
(* store's ledger does not know.                                            *)
THEOREM CompleteIsServable == ManagerSpec => []CompleteMeansServable
<1>1. ASSUME StepInv, BucketInv, LedgerInv, ManagerInv PROVE CompleteMeansServable
    <2> SUFFICES ASSUME NEW l \in Launches, stage[l] = "complete"
                 PROVE  LET manifest == bucket[ManifestId(l)]
                        IN  /\ Documented(ManifestId(l))
                            /\ manifest.name = ManifestName(resolved[l])
                            /\ \A k \in DOMAIN records[l] :
                                  CarriersOf(records[l][k].name, Forecast, ShardType) # {}
                            /\ CarriersOf(sidecar[l].name, Forecast, SidecarType) # {}
                            /\ \E i \in CarriersOf(HistoryName(l), Historical, HistoryType) :
                                  bucket[i].content.rows = history[l]
                            /\ ~disturbed[l] =>
                                  /\ manifest.content.kind = "manifest"
                                  /\ \A e \in manifest.content.shards : Resolves(e, ShardType)
                                  /\ Resolves(manifest.content.sidecar, SidecarType)
        BY DEF CompleteMeansServable
    <2>1. /\ phase[l] = "delivered" /\ run[l] = resolved[l] /\ Verified(l) /\ Named(l)
          /\ FileIds = 1..Len(bucket)
          /\ phase[l] \in Assembled /\ phase[l] \in Recording
        BY <1>1, BucketTyped DEF ManagerInv, Flow, Shipped, Verifying, Assembled, Recording
    <2>0. run[l] \in Runs
        BY <1>1, <2>1, DeliveredLedger
    <2>2. PICK r, g : r = run[l] /\ g = config[l].lookup /\ r \in Runs
        BY <2>0
    <2>3. /\ DOMAIN ledger[l] = 1..Len(ledger[l]) /\ Len(ledger[l]) \in DOMAIN ledger[l]
          /\ Len(ledger[l]) = Len(records[l]) + 2 /\ Len(records[l]) \in Nat
          /\ DOMAIN records[l] = 1..Len(records[l])
        BY <1>1, <2>1, DeliveredLedger, LedgerTyped, RecordsNamed
    <2>4. ASSUME NEW k \in DOMAIN ledger[l]
          PROVE  bucket[ledger[l][k].id].name = ledger[l][k].name
        <3>1. PICK o : o = [name |-> ledger[l][k].name, id |-> ledger[l][k].id]
            OBVIOUS
        <3>2. o \in Objects(l) /\ o.id = ledger[l][k].id /\ o.name = ledger[l][k].name
            BY <3>1 DEF Objects
        <3>3. bucket[o.id].name = o.name
            BY <2>1, <3>2 DEF Named
        <3> QED
            BY <3>2, <3>3
    <2>5. /\ ManifestId(l) \in 1..Len(bucket) /\ Documented(ManifestId(l))
          /\ ~disturbed[l] => bucket[ManifestId(l)].content = ManifestOf(r, g)
          /\ ledger[l][Len(ledger[l])].name = ManifestName(r)
        BY <1>1, <2>1, <2>2, DeliveredLedger
    <2>6. bucket[ManifestId(l)].name = ManifestName(resolved[l])
        BY <2>1, <2>2, <2>3, <2>4, <2>5 DEF ManifestId
    <2>7. ASSUME NEW k \in DOMAIN ledger[l]
          PROVE  /\ ledger[l][k].id \in 1..Len(bucket) /\ Documented(ledger[l][k].id)
                 /\ ledger[l][k].name = ObjectAt(l, k).name
                 /\ ~disturbed[l] => bucket[ledger[l][k].id].content = ObjectAt(l, k).content
        BY <1>1, <2>3 DEF LedgerInv, Ledgered, Backed, Entry
    <2>8. ASSUME NEW k \in DOMAIN ledger[l], NEW n, n = ObjectAt(l, k).name,
                 (\E e \in RecordsOf(r) : n = e.name) \/ n = SidecarName(r)
          PROVE  \E j \in 1..Len(bucket) :
                    /\ Documented(j) /\ bucket[j].name = n /\ bucket[j].category = Forecast
                    /\ (\E e \in RecordsOf(r) : n = e.name) => bucket[j].type = ShardType
                    /\ n = SidecarName(r) => bucket[j].type = SidecarType
                    /\ ~disturbed[l] => bucket[j].content = ObjectAt(l, k).content
        <3>1. PICK j \in 1..Len(bucket) :
                    /\ Documented(j) /\ bucket[j].name = n
                    /\ ~disturbed[l] => bucket[j].content = ObjectAt(l, k).content
            BY <2>4, <2>7, <2>8
        <3>2. /\ SoundOrigin(bucket[j])
              /\ \A e \in RecordsOf(r) : bucket[j].name = e.name => bucket[j].type = ShardType
              /\ bucket[j].name = SidecarName(r) => bucket[j].type = SidecarType
            BY <1>1, <2>2, <2>8, <3>1, NamedInBucket
        <3>3. bucket[j].category = Forecast
            BY <3>2 DEF SoundOrigin
        <3> QED
            BY <3>1, <3>2, <3>3
    <2>9. ASSUME NEW k \in 1..Len(records[l])
          PROVE  \E j \in CarriersOf(records[l][k].name, Forecast, ShardType) :
                    ~disturbed[l] => bucket[j].content = records[l][k].sha256
        <3>1. k \in DOMAIN ledger[l] /\ k \in Nat /\ k <= Len(records[l])
            BY <2>3
        <3>2. /\ ObjectAt(l, k).name = records[l][k].name
              /\ ObjectAt(l, k).content = records[l][k].sha256
            BY <2>3, <3>1, ObjectFields
        <3>3. \E e \in RecordsOf(r) : records[l][k].name = e.name
            BY <1>1, <2>1, <2>2, RecordsNamed
        <3>4. PICK j \in 1..Len(bucket) :
                    /\ Documented(j) /\ bucket[j].name = records[l][k].name
                    /\ bucket[j].category = Forecast /\ bucket[j].type = ShardType
                    /\ ~disturbed[l] => bucket[j].content = records[l][k].sha256
            BY <2>8, <3>1, <3>2, <3>3
        <3> QED
            BY <2>1, <3>4 DEF CarriersOf, Matching
    <2>10. \E j \in CarriersOf(SidecarName(r), Forecast, SidecarType) :
              ~disturbed[l] => bucket[j].content = SidecarOf(r, g)
        <3>1. PICK k : k = Len(records[l]) + 1
            OBVIOUS
        <3>2. k \in DOMAIN ledger[l] /\ k \in Nat
            BY <2>3, <3>1
        <3>3. /\ ObjectAt(l, k).name = SidecarName(r)
              /\ ObjectAt(l, k).content = SidecarOf(r, g)
            BY <2>2, <2>3, <3>1, <3>2, ObjectFields
        <3>4. PICK j \in 1..Len(bucket) :
                    /\ Documented(j) /\ bucket[j].name = SidecarName(r)
                    /\ bucket[j].category = Forecast /\ bucket[j].type = SidecarType
                    /\ ~disturbed[l] => bucket[j].content = SidecarOf(r, g)
            BY <2>8, <3>2, <3>3
        <3> QED
            BY <2>1, <3>4 DEF CarriersOf, Matching
    <2>11. \E i \in CarriersOf(HistoryName(l), Historical, HistoryType) :
              bucket[i].content.rows = history[l]
        <3>1. PICK i : i = historyId[l]
            OBVIOUS
        <3>2. /\ i \in 1..Len(bucket) /\ Documented(i)
              /\ bucket[i].content = ArtifactBytes(l)
            BY <2>1, <3>1 DEF Verified, Verifying
        <3>3. bucket[i].content.kind = "history" /\ bucket[i].content.rows = history[l]
            <4>1. ArtifactBytes(l).kind = "history" /\ ArtifactBytes(l).rows = history[l]
                BY DEF ArtifactBytes
            <4> QED
                BY <3>2, <4>1
        <3>4. bucket[i] \in ArtifactFile
            BY <1>1, <3>2, <3>3, ArtifactKind
        <3>5. bucket[i].name = HistoryName(l)
            <4>1. PICK o : o = [name |-> HistoryName(l), id |-> historyId[l]]
                OBVIOUS
            <4>2. o \in Objects(l) /\ o.id = i /\ o.name = HistoryName(l)
                BY <3>1, <4>1 DEF Objects
            <4> QED
                BY <2>1, <4>2 DEF Named
        <3>6. bucket[i].category = Historical /\ bucket[i].type = HistoryType
            BY <3>4 DEF ArtifactFile
        <3> QED
            BY <2>1, <3>2, <3>3, <3>5, <3>6 DEF CarriersOf, Matching
    <2>12. sidecar[l].name = SidecarName(r)
        BY <1>1, <2>1, <2>2, SidecarIsTheRun
    <2>13. ASSUME ~disturbed[l]
           PROVE  /\ bucket[ManifestId(l)].content.kind = "manifest"
                  /\ \A e \in bucket[ManifestId(l)].content.shards : Resolves(e, ShardType)
                  /\ Resolves(bucket[ManifestId(l)].content.sidecar, SidecarType)
        <3>1. /\ bucket[ManifestId(l)].content.kind = "manifest"
              /\ bucket[ManifestId(l)].content.shards = RecordsOf(r)
              /\ bucket[ManifestId(l)].content.sidecar = SidecarEntry(r, g)
            BY <2>5, <2>13 DEF ManifestOf
        <3>2. ASSUME NEW e \in RecordsOf(r) PROVE Resolves(e, ShardType)
            <4>1. PICK k \in 1..Len(records[l]) : records[l][k] = e
                BY <1>1, <2>1, <2>2, <2>13, RecordsNamed
            <4> QED
                BY <2>9, <2>13, <4>1 DEF Resolves
        <3>3. Resolves(SidecarEntry(r, g), SidecarType)
            BY <2>10, <2>13 DEF Resolves, SidecarEntry
        <3> QED
            BY <3>1, <3>2, <3>3
    <2>14. /\ \A k \in DOMAIN records[l] :
                  CarriersOf(records[l][k].name, Forecast, ShardType) # {}
           /\ CarriersOf(sidecar[l].name, Forecast, SidecarType) # {}
        BY <2>3, <2>9, <2>10, <2>12
    <2> QED
        BY <2>5, <2>6, <2>11, <2>13, <2>14
<1> QED
    BY <1>1, DeliveriesHold, PTL
-----------------------------------------------------------------------------
(* The alarm, in a store that answers newest first. *)

Cause(l) ==
    \/ \E i \in FileIds :
          /\ Documented(i) /\ bucket[i].by # l
          /\ \/ bucket[i].category = Forecast /\ i > ManifestId(l)
             \/ bucket[i].category = Historical /\ i > historyId[l]
    \/ \E o \in Objects(l) : bucket[o.id].name # o.name

(* What was delivered is among what a query may answer.                     *)
LEMMA OwnDocuments ==
    ASSUME StepInv, BucketInv, LedgerInv, ManagerInv, NEW l \in Launches, stage[l] \in Verifying
    PROVE  /\ ManifestId(l) \in Matching(Forecast, Types)
           /\ historyId[l] \in Matching(Historical, Types)
<1>1. /\ phase[l] = "delivered" /\ Verified(l) /\ FileIds = 1..Len(bucket)
    BY BucketTyped DEF ManagerInv, Flow, Shipped
<1>3. PICK m, h : m = ManifestId(l) /\ h = historyId[l]
    OBVIOUS
<1>4. m \in 1..Len(bucket) /\ Documented(m) /\ bucket[m].content.kind # "history"
    BY <1>1, <1>3, DeliveredLedger
<1>5. SoundOrigin(bucket[m]) /\ bucket[m].type \in Types
    <2>1. bucket[m] \notin ArtifactFile
        BY <1>4 DEF ArtifactFile
    <2>2. SoundOrigin(bucket[m])
        BY <1>4, <2>1 DEF BucketInv
    <2> QED
        BY <2>2 DEF SoundOrigin, IsFileOf, Types
<1>6. h \in 1..Len(bucket) /\ Documented(h) /\ bucket[h].content = ArtifactBytes(l)
    BY <1>1, <1>3 DEF Verified
<1>7. ArtifactBytes(l).kind = "history"
    BY DEF ArtifactBytes
<1>8. bucket[h] \in ArtifactFile
    BY <1>6, <1>7, ArtifactKind
<1>9. bucket[h].category = Historical /\ bucket[h].type = HistoryType
    BY <1>8 DEF ArtifactFile
<1> QED
    BY <1>1, <1>3, <1>4, <1>5, <1>6, <1>9 DEF Matching, SoundOrigin, Types

(* The newest forecast document is this delivery's manifest or another      *)
(* launch's; the newest historical one likewise.                            *)
LEMMA NewestIsOwn ==
    ASSUME StepInv, BucketInv, LedgerInv, ManagerInv, OrderedQueries, ~Dedup,
           NEW l \in Launches, stage[l] \in Verifying
    PROVE  /\ \A found \in LatestIds(Forecast, Types) : found # ManifestId(l) => Cause(l)
           /\ \A found \in LatestIds(Historical, Types) : found # historyId[l] => Cause(l)
<1>1. /\ phase[l] = "delivered" /\ Verified(l) /\ FileIds = 1..Len(bucket)
      /\ Len(bucket) \in Nat /\ Last(l)
    BY BucketTyped DEF ManagerInv, Flow, Shipped, LedgerInv, Ledgered
<1>2. PICK m, h : m = ManifestId(l) /\ h = historyId[l]
    OBVIOUS
<1>3. /\ m \in Matching(Forecast, Types) /\ h \in Matching(Historical, Types)
      /\ m \in Nat /\ h \in Nat
    BY <1>1, <1>2, OwnDocuments DEF Matching
<1>4. ASSUME NEW found \in LatestIds(Forecast, Types), found # m PROVE Cause(l)
    <2>1. found \in Matching(Forecast, Types) /\ m <= found
        BY <1>3 DEF LatestIds
    <2>2. found \in 1..Len(bucket) /\ Documented(found) /\ bucket[found].category = Forecast
        BY <1>1, <2>1 DEF Matching
    <2>3. found > m
        BY <1>3, <1>4, <2>1, <2>2
    <2>4. bucket[found].type # HistoryType
        <3>1. bucket[found] \notin ArtifactFile
            BY <2>2 DEF ArtifactFile, Forecast, Historical
        <3>2. SoundOrigin(bucket[found])
            BY <2>2, <3>1 DEF BucketInv
        <3> QED
            BY <3>2 DEF SoundOrigin, IsFileOf, ShardType, SidecarType, ManifestType, HistoryType
    <2>5. bucket[found].by # l
        <3> SUFFICES ASSUME bucket[found].by = l PROVE found <= m
            BY <1>3, <2>2, <2>3
        <3> QED
            BY <1>1, <1>2, <2>2, <2>4 DEF Last, OwnFile, ManifestId
    <2> QED
        BY <1>1, <1>2, <2>2, <2>3, <2>5 DEF Cause
<1>5. ASSUME NEW found \in LatestIds(Historical, Types), found # h PROVE Cause(l)
    <2>1. found \in Matching(Historical, Types) /\ h <= found
        BY <1>3 DEF LatestIds
    <2>2. found \in 1..Len(bucket) /\ Documented(found) /\ bucket[found].category = Historical
        BY <1>1, <2>1 DEF Matching
    <2>3. found > h
        BY <1>3, <1>5, <2>1, <2>2
    <2>4. bucket[found].type = HistoryType
        <3>1. ~SoundOrigin(bucket[found])
            BY <2>2 DEF SoundOrigin, Forecast, Historical
        <3>2. bucket[found] \in ArtifactFile
            BY <2>2, <3>1 DEF BucketInv
        <3> QED
            BY <3>2 DEF ArtifactFile
    <2>5. bucket[found].by # l
        <3> SUFFICES ASSUME bucket[found].by = l PROVE found <= h
            BY <1>3, <2>2, <2>3
        <3> QED
            BY <1>1, <1>2, <2>2, <2>4 DEF Verified
    <2> QED
        BY <1>1, <1>2, <2>2, <2>3, <2>5 DEF Cause
<1> QED
    BY <1>2, <1>4, <1>5

(* An object that is not listed is not under its own name.                  *)
LEMMA UnlistedIsMisnamed ==
    ASSUME StepInv, BucketInv, LedgerInv, ManagerInv, NEW l \in Launches, stage[l] = "listing",
           ~(Objects(l) \subseteq Listed(Forecast, {ManifestType, ShardType, SidecarType})
                                      \cup Listed(Historical, {HistoryType}))
    PROVE  Cause(l)
<1>1. /\ phase[l] = "delivered" /\ Verified(l) /\ FileIds = 1..Len(bucket)
    BY BucketTyped DEF ManagerInv, Flow, Shipped, Verifying
<1>2. PICK o \in Objects(l) : /\ o \notin Listed(Forecast, {ManifestType, ShardType, SidecarType})
                              /\ o \notin Listed(Historical, {HistoryType})
    OBVIOUS
<1>3. /\ o = [name |-> o.name, id |-> o.id]
      /\ o.id = historyId[l] \/ \E k \in DOMAIN ledger[l] : o.id = ledger[l][k].id
    <2>1. CASE \E k \in DOMAIN ledger[l] : o = [name |-> ledger[l][k].name, id |-> ledger[l][k].id]
        <3>1. PICK k \in DOMAIN ledger[l] : o = [name |-> ledger[l][k].name, id |-> ledger[l][k].id]
            BY <2>1
        <3> QED
            BY <3>1
    <2>2. CASE o = [name |-> HistoryName(l), id |-> historyId[l]]
        BY <2>2
    <2> QED
        BY <1>2, <2>1, <2>2 DEF Objects
<1>4. PICK i : i = o.id
    OBVIOUS
<1>5. \/ i \in Matching(Forecast, {ManifestType, ShardType, SidecarType})
      \/ i \in Matching(Historical, {HistoryType})
    <2>1. CASE i = historyId[l]
        <3>1. i \in 1..Len(bucket) /\ Documented(i) /\ bucket[i].content = ArtifactBytes(l)
            BY <1>1, <2>1 DEF Verified, Verifying
        <3>2. ArtifactBytes(l).kind = "history"
            BY DEF ArtifactBytes
        <3>3. bucket[i] \in ArtifactFile
            BY <3>1, <3>2, ArtifactKind
        <3> QED
            BY <1>1, <3>1, <3>3 DEF ArtifactFile, Matching
    <2>2. CASE \E k \in DOMAIN ledger[l] : i = ledger[l][k].id
        <3>1. PICK k \in DOMAIN ledger[l] : i = ledger[l][k].id
            BY <2>2
        <3>2. /\ i \in 1..Len(bucket) /\ Documented(i)
              /\ bucket[i].content.kind # "history"
            BY <3>1, LedgerTyped DEF LedgerInv, Ledgered, Backed, Entry
        <3>3. bucket[i] \notin ArtifactFile
            BY <3>2 DEF ArtifactFile
        <3>4. SoundOrigin(bucket[i])
            BY <3>2, <3>3 DEF BucketInv
        <3> QED
            BY <1>1, <3>2, <3>4 DEF Matching, SoundOrigin, IsFileOf
    <2> QED
        BY <1>3, <1>4, <2>1, <2>2
<1>6. bucket[i].name # o.name
    <2> SUFFICES ASSUME bucket[i].name = o.name PROVE FALSE
        OBVIOUS
    <2>1. o = [name |-> bucket[i].name, id |-> i]
        BY <1>3, <1>4
    <2> QED
        BY <1>2, <1>5, <2>1 DEF Listed
<1> QED
    BY <1>2, <1>4, <1>6 DEF Cause

(* A cause remains one, whatever else the bucket takes in.                  *)
LEMMA CauseStays ==
    ASSUME StepInv, LedgerInv, ManagerInv, Grows, NEW l \in Launches, stage[l] \in Verifying,
           Cause(l), ledger'[l] = ledger[l], historyId'[l] = historyId[l]
    PROVE  Cause(l)'
<1>1. /\ FileIds = 1..Len(bucket) /\ FileIds' = 1..Len(bucket')
      /\ \A i \in 1..Len(bucket) : i \in 1..Len(bucket') /\ bucket'[i] = bucket[i]
    BY BucketTyped, GrowsKeeps DEF FileIds
<1>2. ManifestId(l)' = ManifestId(l)
    BY DEF ManifestId
<1>3. Objects(l)' = Objects(l)
    BY DEF Objects, HistoryName
<1>4. CASE \E i \in FileIds :
              /\ Documented(i) /\ bucket[i].by # l
              /\ \/ bucket[i].category = Forecast /\ i > ManifestId(l)
                 \/ bucket[i].category = Historical /\ i > historyId[l]
    <2>1. PICK i \in FileIds :
              /\ Documented(i) /\ bucket[i].by # l
              /\ \/ bucket[i].category = Forecast /\ i > ManifestId(l)
                 \/ bucket[i].category = Historical /\ i > historyId[l]
        BY <1>4
    <2>2. i \in FileIds' /\ bucket'[i] = bucket[i] /\ Documented(i)'
        BY <1>1, <2>1 DEF Documented
    <2> QED
        BY <1>2, <2>1, <2>2 DEF Cause
<1>5. CASE \E o \in Objects(l) : bucket[o.id].name # o.name
    <2>1. PICK o \in Objects(l) : bucket[o.id].name # o.name
        BY <1>5
    <2>2. bucket'[o.id] = bucket[o.id]
        BY <1>1, <2>1, ObjectIds
    <2> QED
        BY <1>3, <2>1, <2>2 DEF Cause
<1> QED
    BY <1>4, <1>5 DEF Cause

(* A launch that moves between the stages of a read-back ships nothing.     *)
LEMMA AlarmSteps ==
    ASSUME StepInv, BucketInv, LedgerInv, ManagerInv, OrderedQueries, ~Dedup,
           [ManagerNext]_allVars,
           NEW l \in Launches, stage'[l] = "invisible"
    PROVE  /\ Grows /\ stage[l] \in Verifying
           /\ ledger'[l] = ledger[l] /\ historyId'[l] = historyId[l]
           /\ stage[l] # "invisible" => Cause(l)
<1>1. ManagerTypes
    BY DEF ManagerInv
<1>2. CASE UNCHANGED allVars
    BY <1>2 DEF allVars, vars, managerVars, sinkVars, progress, Grows, Verifying
<1>3. CASE ManagerNext
    <2>1. PICK q \in Launches : ManagerStep(q) \/ Die(q)
        BY <1>3 DEF ManagerNext
    <2>2. CASE SelectForecast(q) \/ SelectHistorical(q) \/ ListArtifacts(q)
        <3>1. /\ UNCHANGED <<bucket, ledger, historyId>>
              /\ \E s : stage' = [stage EXCEPT ![q] = s]
            BY <2>2 DEF SelectForecast, SelectHistorical, ListArtifacts, Select, Enter, vars,
                        sinkVars, progress
        <3>2. Grows /\ (q # l => stage[l] = "invisible")
            BY <1>1, <3>1 DEF Grows, ManagerTypes
        <3>3. ASSUME q = l PROVE stage[l] \in Verifying /\ Cause(l)
            <4>1. CASE SelectForecast(l)
                <5>1. /\ stage[l] = "selecting forecast"
                      /\ \E found \in LatestIds(Forecast, Types) : found # ManifestId(l)
                    BY <1>1, <4>1 DEF SelectForecast, Select, Enter, ManagerTypes
                <5> QED
                    BY <5>1, NewestIsOwn DEF Verifying
            <4>2. CASE SelectHistorical(l)
                <5>1. /\ stage[l] = "selecting historical"
                      /\ \E found \in LatestIds(Historical, Types) : found # historyId[l]
                    BY <1>1, <4>2 DEF SelectHistorical, Select, Enter, ManagerTypes
                <5> QED
                    BY <5>1, NewestIsOwn DEF Verifying
            <4>3. CASE ListArtifacts(l)
                <5>1. /\ stage[l] = "listing"
                      /\ ~(Objects(l) \subseteq
                              Listed(Forecast, {ManifestType, ShardType, SidecarType})
                                  \cup Listed(Historical, {HistoryType}))
                    BY <1>1, <4>3 DEF ListArtifacts, Enter, ManagerTypes
                <5> QED
                    BY <5>1, UnlistedIsMisnamed DEF Verifying
            <4> QED
                BY <2>2, <3>3, <4>1, <4>2, <4>3
        <3> QED
            BY <3>1, <3>2, <3>3 DEF Verifying
    <2>3. CASE \/ ReadHistory(q) \/ ResolveForecast(q) \/ Validate(q) \/ BuildHistory(q)
               \/ RefuseHistory(q) \/ RefuseForecast(q) \/ RefuseSave(q) \/ SinkRaised(q)
               \/ RefuseArtifact(q) \/ ArtifactFails(q) \/ QueryFails(q)
        <3>1. UNCHANGED <<bucket, ledger, historyId>>
            BY <2>3 DEF ReadHistory, ResolveForecast, Validate, BuildHistory, RefuseHistory,
                        RefuseForecast, RefuseSave, SinkRaised, RefuseArtifact, ArtifactFails,
                        QueryFails, Raise, vars, sinkVars, progress
        <3>2. \E s \in {"resolving", "validating", "saving", "shipping", "staged only",
                        "refused", "failed", "unverified"} : stage' = [stage EXCEPT ![q] = s]
            BY <2>3 DEF ReadHistory, ResolveForecast, Validate, BuildHistory, RefuseHistory,
                        RefuseForecast, RefuseSave, SinkRaised, RefuseArtifact, ArtifactFails,
                        QueryFails, Raise, Enter
        <3> QED
            BY <1>1, <3>1, <3>2 DEF ManagerTypes, Grows, Verifying
    <2>4. CASE Save(q)
        <3>1. /\ UNCHANGED <<bucket, ledger, historyId>>
              /\ stage' = [stage EXCEPT ![q] = "delivering"]
            BY <2>4 DEF Save, Start, Enter
        <3> QED
            BY <1>1, <3>1 DEF ManagerTypes, Grows, Verifying
    <2>5. CASE Deliver(q) \/ DeliverFails(q)
        <3>1. /\ stage[q] = "delivering" /\ SinkStep(q) /\ UNCHANGED <<stage, historyId>>
            BY <2>5 DEF Deliver, DeliverFails, SinkStep, Step, managerVars
        <3>2. Next
            BY <3>1 DEF Next, SinkStep
        <3> QED
            BY <3>1, <3>2, SinkStepFacts, SinkLands DEF Grows, Verifying
    <2>6. CASE ShipHistory(q)
        <3>1. /\ UNCHANGED ledger /\ stage' = [stage EXCEPT ![q] = "selecting forecast"]
              /\ \E id : historyId' = [historyId EXCEPT ![q] = id]
            BY <2>6 DEF ShipHistory, Enter, sinkVars, progress
        <3>2. Grows
            BY <2>6, ShipHistoryKeeps, AppendLands DEF Grows
        <3> QED
            BY <1>1, <3>1, <3>2 DEF ManagerTypes, Verifying
    <2>7. CASE ShipHistoryFails(q)
        <3>1. /\ UNCHANGED <<ledger, historyId>> /\ stage' = [stage EXCEPT ![q] = "failed"]
              /\ stage[q] = "shipping" /\ UploadFails(q, HistoryUpload(q))
            BY <2>7 DEF ShipHistoryFails, Enter, sinkVars, progress
        <3>2. Grows
            BY <3>1, HistoryLands DEF UploadFails, Grows
        <3> QED
            BY <1>1, <3>1, <3>2 DEF ManagerTypes, Verifying
    <2>8. CASE Die(q)
        <3>1. UNCHANGED historyId /\ stage' = [stage EXCEPT ![q] = "died"]
            BY <2>8 DEF Die, Enter
        <3>2. q # l /\ stage[l] = "invisible"
            BY <1>1, <3>1 DEF ManagerTypes
        <3>3. CASE stage[q] = "delivering" /\ phase[q] \in Running
            <4>1. SinkStep(q) /\ Next
                BY <2>8, <3>3 DEF Die, SinkStep, Next
            <4> QED
                BY <3>1, <3>2, <4>1, SinkStepFacts, SinkLands DEF Grows, Verifying
        <3>4. CASE stage[q] = "shipping"
            <4>1. UploadFails(q, HistoryUpload(q)) /\ UNCHANGED ledger
                BY <2>8, <3>4 DEF Die, sinkVars, progress
            <4>2. Grows
                BY <3>4, <4>1, HistoryLands DEF UploadFails, Grows
            <4> QED
                BY <3>1, <3>2, <4>1, <4>2 DEF Verifying
        <3>5. CASE ~(stage[q] = "delivering" /\ phase[q] \in Running) /\ stage[q] # "shipping"
            <4>1. UNCHANGED vars
                BY <2>8, <3>5 DEF Die
            <4> QED
                BY <3>1, <3>2, <4>1 DEF vars, sinkVars, progress, Grows, Verifying
        <3> QED
            BY <3>3, <3>4, <3>5
    <2> QED
        BY <2>1, <2>2, <2>3, <2>4, <2>5, <2>6, <2>7, <2>8
           DEF ManagerStep, ManagerAdvance, ManagerFailure
<1> QED
    BY <1>2, <1>3

Alarms == \A l \in Launches : stage[l] = "invisible" => Cause(l)

(* When the store answers newest first and keeps every copy, no launch      *)
(* reports its delivery invisible without a cause: a later document of      *)
(* another launch, or an object of its own that is not under its name.      *)
THEOREM NoFalseAlarm ==
    ASSUME OrderedQueries, ~Dedup
    PROVE  ManagerSpec => []AlarmHasACause
<1>1. ManagerInit => Alarms
    BY DEF ManagerInit, Alarms
<1>2. ASSUME StepInv, BucketInv, LedgerInv, ManagerInv, [ManagerNext]_allVars, Alarms
      PROVE  Alarms'
    <2> SUFFICES ASSUME NEW l \in Launches, stage'[l] = "invisible" PROVE Cause(l)'
        BY DEF Alarms
    <2>1. /\ Grows /\ stage[l] \in Verifying
          /\ ledger'[l] = ledger[l] /\ historyId'[l] = historyId[l]
          /\ stage[l] # "invisible" => Cause(l)
        BY <1>2, AlarmSteps
    <2>2. Cause(l)
        BY <1>2, <2>1 DEF Alarms
    <2> QED
        BY <1>2, <2>1, <2>2, CauseStays
<1>3. Alarms => AlarmHasACause
    BY DEF Alarms, AlarmHasACause, Cause
<1> QED
    BY <1>1, <1>2, <1>3, DeliveriesHold, PTL DEF ManagerSpec
=============================================================================
