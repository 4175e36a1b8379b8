------------------------ MODULE WireSinkLedgerProofs ------------------------
(***************************************************************************)
(* What a launch's ledger of confirmed uploads stands for, whether or not  *)
(* the store declines a second copy of identical bytes: each entry is a    *)
(* visible document, recorded under the name of the launch's k-th object   *)
(* and, if nobody wrote beneath the launch, with its bytes (Backed); and   *)
(* the launch left no file that is not in it but the one it failed on      *)
(* (OwnFiles).  The document has the recorded name only in a store that    *)
(* keeps every copy: one that deduplicates confirms the sidecar of another *)
(* run of the same cells, under that run's name.                           *)
(*                                                                         *)
(* The lemmas hold of a bucket that historical artifacts land in too, so   *)
(* that DeliveryManagerProofs can cite them.                               *)
(***************************************************************************)
EXTENDS WireSinkProofs

(* The k-th object of a launch: its shards, its sidecar, its manifest. *)
ObjectAt(l, k) ==
    IF k <= Len(records[l])
    THEN Upload(records[l][k].name, ShardType, Forecast, records[l][k].sha256)
    ELSE IF k = Len(records[l]) + 1
    THEN Upload(SidecarName(run[l]), SidecarType, Forecast,
                SidecarOf(run[l], config[l].lookup))
    ELSE Upload(ManifestName(run[l]), ManifestType, Forecast,
                ManifestOf(run[l], config[l].lookup))

Entry(l, k) ==
    /\ ledger[l][k].id \in 1..Len(bucket)
    /\ Documented(ledger[l][k].id)
    /\ bucket[ledger[l][k].id].content.kind # "history"
    /\ ledger[l][k].name = ObjectAt(l, k).name
    /\ ledger[l][k].type = ObjectAt(l, k).type
    /\ ~disturbed[l] => bucket[ledger[l][k].id].content = ObjectAt(l, k).content
    /\ ~Dedup => bucket[ledger[l][k].id].name = ledger[l][k].name

Backed(l) == \A k \in 1..Len(ledger[l]) : Entry(l, k)

Counted(l) ==
    /\ phase[l] \in {"uploading", "torn"} => Len(ledger[l]) <= Len(records[l]) + 1
    /\ phase[l] = "delivered" => Len(ledger[l]) = Len(records[l]) + 2

OwnFile(l, i) == bucket[i].by = l /\ bucket[i].type # HistoryType

InLedger(l, i) == \E k \in 1..Len(ledger[l]) : ledger[l][k].id = i

OwnFiles(l) ==
    \A i \in 1..Len(bucket) : OwnFile(l, i) =>
        \/ InLedger(l, i)
        \/ phase[l] = "crashed"
        \/ phase[l] = "torn" /\ bucket[i].name = failedOn[l]

(* In a store that keeps every copy the manifest is the launch's last file. *)
Last(l) ==
    ~Dedup /\ phase[l] = "delivered" =>
        \A i \in 1..Len(bucket) :
            OwnFile(l, i) /\ Documented(i) => i <= ledger[l][Len(ledger[l])].id

Ledgered(l) == Backed(l) /\ Counted(l) /\ OwnFiles(l) /\ Last(l)

LedgerInv == \A l \in Launches : Ledgered(l)

(* One of the first files is a document with content c.                     *)
HasContent(limit, c) == \E j \in 1..limit : Documented(j) /\ bucket[j].content = c

-----------------------------------------------------------------------------
(* Facts about a state. *)

LEMMA LedgerTyped ==
    ASSUME StepInv, NEW l \in Launches
    PROVE  /\ ledger[l] \in Seq(LedgerEntry) /\ Len(ledger[l]) \in Nat
           /\ DOMAIN ledger[l] = 1..Len(ledger[l])
           /\ records[l] \in Seq(ShardRecords) /\ Len(records[l]) \in Nat
           /\ Len(bucket) \in Nat /\ DOMAIN bucket = 1..Len(bucket)
BY DEF StepInv, SinkTypes

(* The fields of the k-th object. *)
LEMMA ObjectFields ==
    ASSUME NEW l \in Launches, NEW k \in Nat, Len(records[l]) \in Nat
    PROVE  /\ k <= Len(records[l]) =>
                 /\ ObjectAt(l, k).name = records[l][k].name
                 /\ ObjectAt(l, k).type = ShardType
                 /\ ObjectAt(l, k).content = records[l][k].sha256
           /\ k = Len(records[l]) + 1 =>
                 /\ ObjectAt(l, k).name = SidecarName(run[l])
                 /\ ObjectAt(l, k).type = SidecarType
                 /\ ObjectAt(l, k).content = SidecarOf(run[l], config[l].lookup)
           /\ k > Len(records[l]) + 1 =>
                 /\ ObjectAt(l, k).name = ManifestName(run[l])
                 /\ ObjectAt(l, k).type = ManifestType
                 /\ ObjectAt(l, k).content = ManifestOf(run[l], config[l].lookup)
<1>1. k <= Len(records[l]) => ObjectAt(l, k) =
          Upload(records[l][k].name, ShardType, Forecast, records[l][k].sha256)
    BY DEF ObjectAt
<1>2. k = Len(records[l]) + 1 => ObjectAt(l, k) =
          Upload(SidecarName(run[l]), SidecarType, Forecast, SidecarOf(run[l], config[l].lookup))
    BY DEF ObjectAt
<1>3. k > Len(records[l]) + 1 => ObjectAt(l, k) =
          Upload(ManifestName(run[l]), ManifestType, Forecast,
                 ManifestOf(run[l], config[l].lookup))
    BY DEF ObjectAt
<1>4. \A n, t, g, c : Upload(n, t, g, c).name = n /\ Upload(n, t, g, c).type = t
                        /\ Upload(n, t, g, c).content = c
    BY DEF Upload
<1> QED
    BY <1>1, <1>2, <1>3, <1>4

(* What is uploaded next is the next object. *)
LEMMA NextObject ==
    ASSUME StepInv, NEW l \in Launches, phase[l] = "uploading", NEW obj \in NextUploads(l)
    PROVE  /\ obj.name = ObjectAt(l, Len(ledger[l]) + 1).name
           /\ obj.type = ObjectAt(l, Len(ledger[l]) + 1).type
           /\ obj.content.kind # "history"
           /\ ~disturbed[l] => obj.content = ObjectAt(l, Len(ledger[l]) + 1).content
<1>1. PICK k : k = Len(ledger[l]) + 1
    OBVIOUS
<1>2. k \in Nat /\ Len(records[l]) \in Nat
    BY <1>1, NextUploadIs
<1>3. /\ k <= Len(records[l]) =>
            /\ obj.type = ShardType /\ obj.name = records[l][k].name
            /\ ~disturbed[l] => obj.content = records[l][k].sha256
      /\ k = Len(records[l]) + 1 => obj.type = SidecarType /\ obj.name = SidecarName(run[l])
      /\ k > Len(records[l]) + 1 => obj.type = ManifestType /\ obj.name = ManifestName(run[l])
    BY <1>1, NextUploadIs
<1>4. ~disturbed[l] =>
          /\ obj.type = SidecarType => obj.content = SidecarOf(run[l], config[l].lookup)
          /\ obj.type = ManifestType => obj.content = ManifestOf(run[l], config[l].lookup)
    <2>1. ~disturbed[l] => IsAsMeant(obj, run[l], config[l].lookup)
        BY NextUploadIs
    <2> QED
        BY <2>1 DEF IsAsMeant, ShardType, SidecarType, ManifestType
<1>5. obj.content.kind # "history"
    BY NextUploadTyped
       DEF Contents, ShardContents, SidecarContents, ManifestContents, Fragments
<1>6. k <= Len(records[l]) \/ k = Len(records[l]) + 1 \/ k > Len(records[l]) + 1
    BY <1>2
<1>7. /\ obj.name = ObjectAt(l, k).name /\ obj.type = ObjectAt(l, k).type
      /\ ~disturbed[l] => obj.content = ObjectAt(l, k).content
    BY <1>2, <1>3, <1>4, <1>6, ObjectFields
<1> QED
    BY <1>1, <1>5, <1>7

(* Which upload is the manifest's. *)
LEMMA ManifestPosition ==
    ASSUME StepInv, NEW l \in Launches, phase[l] = "uploading", Counted(l),
           NEW obj \in NextUploads(l)
    PROVE  obj.type = ManifestType <=> Len(ledger[l]) = Len(records[l]) + 1
<1>1. PICK k, n : k = Len(ledger[l]) + 1 /\ n = Len(records[l])
    OBVIOUS
<1>2. k \in Nat \ {0} /\ n \in Nat /\ Len(ledger[l]) = k - 1 /\ k <= n + 2
    BY <1>1, LedgerTyped DEF Counted
<1>3. /\ k <= n => obj.type = ShardType
      /\ k = n + 1 => obj.type = SidecarType
      /\ k > n + 1 => obj.type = ManifestType
    BY <1>1, NextUploadIs
<1> QED
    BY <1>1, <1>2, <1>3 DEF ShardType, SidecarType, ManifestType

(* A manifest of the bucket is recognised by its content. *)
LEMMA ManifestKind ==
    ASSUME StepInv, BucketInv, NEW i \in 1..Len(bucket), bucket[i].content.kind = "manifest"
    PROVE  /\ SoundOrigin(bucket[i])
           /\ bucket[i].type = ManifestType
           /\ bucket[i].name = ManifestName(bucket[i].content.run)
<1>1. bucket[i] \notin ArtifactFile
    BY DEF ArtifactFile
<1>2. SoundOrigin(bucket[i])
    BY <1>1 DEF BucketInv
<1>3. PICK s \in Runs : IsFileOf(bucket[i], s)
    BY <1>2 DEF SoundOrigin
<1>4. \A c \in SidecarContents \cup Fragments : c.kind # "manifest"
    BY DEF SidecarContents, Fragments
<1>5. \A e \in RecordsOf(s) : e.sha256.kind # "manifest"
    BY DEF RecordsOf, RecordOf, ShardRecord, ShardOf
<1>6. /\ bucket[i].type = ManifestType /\ bucket[i].name = ManifestName(s)
      /\ bucket[i].content \in ManifestsOf(s)
    <2>1. \A c \in Fragments : c.kind # "manifest"
        BY <1>4
    <2> QED
        BY <1>3, <1>4, <1>5, <2>1 DEF IsFileOf
<1> QED
    BY <1>2, <1>6 DEF ManifestsOf

-----------------------------------------------------------------------------
(* The bucket grows by one file, or not at all. *)

Lands(f) ==
    /\ Len(bucket') = Len(bucket) + 1
    /\ \A i \in 1..Len(bucket) : bucket'[i] = bucket[i]
    /\ bucket'[Len(bucket) + 1] = f

Grows == UNCHANGED bucket \/ \E f : Lands(f)

LEMMA GrowsKeeps ==
    ASSUME StepInv, Grows
    PROVE  /\ Len(bucket') \in Nat /\ Len(bucket) <= Len(bucket')
           /\ \A i \in 1..Len(bucket) : i \in 1..Len(bucket') /\ bucket'[i] = bucket[i]
<1>1. Len(bucket) \in Nat
    BY DEF StepInv, SinkTypes
<1> QED
    BY <1>1 DEF Grows, Lands

(* Launch l is where it was; somebody may have written beneath it.          *)
SameWork(l) ==
    /\ run'[l] = run[l] /\ config'[l] = config[l] /\ records'[l] = records[l]
    /\ disturbed[l] => disturbed'[l]

Parked(l) ==
    /\ SameWork(l)
    /\ phase'[l] = phase[l] /\ ledger'[l] = ledger[l] /\ failedOn'[l] = failedOn[l]

LEMMA ObjectStays ==
    ASSUME NEW l \in Launches, SameWork(l)
    PROVE  \A k : ObjectAt(l, k)' = ObjectAt(l, k)
BY DEF SameWork, ObjectAt

(* An entry of a ledger that is not touched stays backed. *)
LEMMA EntryStays ==
    ASSUME StepInv, Grows, NEW l \in Launches, SameWork(l), NEW k, Entry(l, k),
           ledger'[l][k] = ledger[l][k]
    PROVE  Entry(l, k)'
<1>1. PICK e, o : e = ledger[l][k] /\ o = ObjectAt(l, k)
    OBVIOUS
<1>2. ObjectAt(l, k)' = o /\ ledger'[l][k] = e
    BY <1>1, ObjectStays
<1>3. /\ e.id \in 1..Len(bucket') /\ bucket'[e.id] = bucket[e.id]
      /\ ~disturbed'[l] => ~disturbed[l]
    BY <1>1, GrowsKeeps DEF Entry, SameWork
<1>4. /\ Documented(e.id) /\ bucket[e.id].content.kind # "history"
      /\ e.name = o.name /\ e.type = o.type
      /\ ~disturbed[l] => bucket[e.id].content = o.content
      /\ ~Dedup => bucket[e.id].name = e.name
    BY <1>1 DEF Entry
<1> QED
    BY <1>2, <1>3, <1>4 DEF Entry, Documented

LEMMA BackedStays ==
    ASSUME StepInv, Grows, NEW l \in Launches, Backed(l),
           \/ ledger'[l] = <<>>
           \/ ledger'[l] = ledger[l] /\ SameWork(l)
    PROVE  Backed(l)'
<1>1. CASE ledger'[l] = <<>>
    BY <1>1 DEF Backed
<1>2. CASE ledger'[l] = ledger[l] /\ SameWork(l)
    BY <1>2, EntryStays DEF Backed
<1> QED
    BY <1>1, <1>2

(* A launch that does nothing keeps its part, whatever another one, or the  *)
(* historical leg, leaves in the bucket or in the staging tree.             *)
LEMMA StandsStill ==
    ASSUME StepInv, LedgerInv, NEW l \in Launches, Parked(l),
           \/ UNCHANGED bucket
           \/ \E f : Lands(f) /\ (f.by # l \/ f.type = HistoryType)
    PROVE  Ledgered(l)'
<1>1. Ledgered(l) /\ Grows
    BY DEF LedgerInv, Grows
<1>2. Backed(l)'
    BY <1>1, BackedStays DEF Ledgered, Parked
<1>3. Counted(l)'
    BY <1>1 DEF Ledgered, Counted, Parked, SameWork
<1>4. Len(bucket) \in Nat
    BY DEF StepInv, SinkTypes
<1>5. \A i \in 1..Len(bucket') : OwnFile(l, i)' =>
          i \in 1..Len(bucket) /\ bucket'[i] = bucket[i] /\ OwnFile(l, i)
    BY <1>4 DEF OwnFile, Lands
<1>6. OwnFiles(l)'
    BY <1>1, <1>5 DEF Ledgered, OwnFiles, InLedger, Parked
<1>7. Last(l)'
    BY <1>1, <1>5 DEF Ledgered, Last, Documented, Parked
<1> QED
    BY <1>2, <1>3, <1>6, <1>7 DEF Ledgered

-----------------------------------------------------------------------------
(* A historical artifact lands: nothing of the sink's is touched. *)
LEMMA ArtifactKeeps ==
    ASSUME StepInv, BucketInv, LedgerInv, UNCHANGED sinkVars,
           \/ UNCHANGED bucket
           \/ \E f \in ArtifactFile : bucket' = Append(bucket, f)
    PROVE  StepInv' /\ BucketInv' /\ LedgerInv'
<1>1. /\ Len(bucket) \in Nat /\ bucket \in Seq(BucketFile)
      /\ UNCHANGED <<phase, run, config, at, sliced, reference, pen, records, sidecar, ledger,
                     failedOn, staging, disturbed>>
    BY DEF StepInv, SinkTypes, sinkVars, progress
<1>2. \/ UNCHANGED bucket
      \/ \E f \in ArtifactFile : Lands(f) /\ bucket' \in Seq(BucketFile)
    BY <1>1 DEF Lands, BucketFile
<1>3. Grows
    BY <1>2 DEF Grows
<1>4. StepInv'
    <2>1. SinkTypes'
        BY <1>1, <1>2 DEF StepInv, SinkTypes
    <2>2. Canonical' /\ NoneGone
        BY <1>1, NothingWritten DEF StepInv
    <2>3. ASSUME NEW q \in Launches PROVE LaunchInv(q)'
        <3>1. Stays(q) /\ Untouched(q) /\ Progress(q) /\ Recorded(q)
            BY <1>1 DEF StepInv, LaunchInv, Same, Stays, Untouched
        <3> QED
            BY <2>2, <3>1, StayProgress, StayRecorded, StayPresent, StayHeld DEF LaunchInv
    <2> QED
        BY <2>1, <2>2, <2>3 DEF StepInv
<1>5. \A i \in 1..Len(bucket') :
          \/ i \in 1..Len(bucket) /\ bucket'[i] = bucket[i]
          \/ bucket'[i] \in ArtifactFile
    BY <1>1, <1>2 DEF Lands
<1>6. \A i \in 1..Len(bucket) : i \in 1..Len(bucket') /\ bucket'[i] = bucket[i]
    BY <1>3, GrowsKeeps
<1>7. BucketInv'
    <2>1. ASSUME NEW i \in 1..Len(bucket'), bucket'[i] \notin ArtifactFile
          PROVE  SoundOrigin(bucket[i])'
        <3>1. PICK f : f = bucket[i]
            OBVIOUS
        <3>2. bucket'[i] = f /\ SoundOrigin(f)
            BY <1>5, <2>1, <3>1 DEF BucketInv
        <3> QED
            BY <1>1, <3>2 DEF SoundOrigin
    <2>2. ASSUME ~Dedup, NEW q \in Launches PROVE Confirmed(q)'
        <3>1. Confirmed(q)
            BY <2>2 DEF BucketInv
        <3>2. \A e : InBucket(e) => InBucket(e)'
            BY <1>6 DEF InBucket, Documented
        <3> QED
            BY <1>1, <3>1, <3>2 DEF Confirmed
    <2>3. ASSUME ~Dedup, NEW i \in 1..Len(bucket') PROVE WholeAt(i)'
        <3>1. CASE bucket'[i] \in ArtifactFile
            BY <3>1 DEF WholeAt, ArtifactFile, ManifestType, HistoryType
        <3>2. CASE i \in 1..Len(bucket) /\ bucket'[i] = bucket[i]
            <4>1. WholeAt(i)
                BY <2>3, <3>2 DEF BucketInv
            <4>2. \A j \in 1..(i - 1) : bucket'[j] = bucket[j]
                BY <1>1, <1>6, <3>2
            <4> QED
                BY <1>1, <3>2, <4>1, <4>2 DEF WholeAt, Documented
        <3> QED
            BY <1>5, <3>1, <3>2
    <2> QED
        BY <2>1, <2>2, <2>3 DEF BucketInv
<1>8. ASSUME NEW l \in Launches PROVE Ledgered(l)'
    <2>1. UNCHANGED bucket \/ \E f : Lands(f) /\ (f.by # l \/ f.type = HistoryType)
        BY <1>2 DEF ArtifactFile
    <2>2. Parked(l)
        BY <1>1 DEF Parked, SameWork
    <2> QED
        BY <2>1, <2>2, StandsStill
<1> QED
    BY <1>4, <1>7, <1>8 DEF LedgerInv

-----------------------------------------------------------------------------
(* The steps of the sink. *)

LEMMA InitLedger == Init => LedgerInv
BY DEF Init, LedgerInv, Ledgered, Backed, Counted, OwnFiles, Last

(* A step of launch l before its first upload.                              *)
LEMMA BeforeUploads ==
    ASSUME StepInv, LedgerInv, NEW l \in Launches, UNCHANGED bucket,
           \A q \in Launches : q # l => Parked(q),
           ledger[l] = <<>>, ledger'[l] = <<>>, Len(records'[l]) \in Nat,
           phase[l] \notin {"crashed", "torn"}, phase'[l] # "delivered"
    PROVE  LedgerInv'
<1>1. \A q \in Launches : q # l => Ledgered(q)'
    BY StandsStill
<1>2. \A i \in 1..Len(bucket) : ~OwnFile(l, i)
    BY DEF LedgerInv, Ledgered, OwnFiles, InLedger
<1>3. Ledgered(l)'
    <2>1. Len(ledger'[l]) = 0
        OBVIOUS
    <2>2. Backed(l)'
        BY DEF Backed
    <2>3. Counted(l)'
        BY <2>1 DEF Counted
    <2>4. OwnFiles(l)'
        BY <1>2 DEF OwnFiles, OwnFile
    <2>5. Last(l)'
        BY DEF Last
    <2> QED
        BY <2>2, <2>3, <2>4, <2>5 DEF Ledgered
<1> QED
    BY <1>1, <1>3 DEF LedgerInv

(* The file that an upload of launch l leaves. *)
LEMMA UploadLands ==
    ASSUME StepInv, NEW l \in Launches, phase[l] = "uploading", NEW obj \in NextUploads(l),
           NEW d \in BOOLEAN, bucket' = Stored(l, obj, d)
    PROVE  \E f : /\ Lands(f) /\ f.by = l /\ f.documented = d
                  /\ f.name = obj.name /\ f.type = obj.type /\ f.content = obj.content
<1>1. PICK n, f : n = Len(bucket) + 1 /\ f = bucket'[n]
    OBVIOUS
<1>2. /\ Len(bucket') = n
      /\ \A i \in 1..Len(bucket) : bucket'[i] = bucket[i]
      /\ f = [name |-> obj.name, type |-> obj.type, category |-> Forecast,
              content |-> obj.content, documented |-> d, by |-> l]
    BY <1>1, BucketGrows
<1>3. Lands(f)
    BY <1>1, <1>2 DEF Lands
<1> QED
    BY <1>2, <1>3

(* An upload: what is left to show is the uploading launch's own part.      *)
LEMMA UploadOthers ==
    ASSUME StepInv, LedgerInv, NEW l \in Launches,
           \A q \in Launches : q # l => Parked(q),
           UNCHANGED bucket \/ \E f : Lands(f) /\ f.by = l,
           Ledgered(l)'
    PROVE  LedgerInv'
<1>1. ASSUME NEW q \in Launches, q # l PROVE Ledgered(q)'
    <2>1. UNCHANGED bucket \/ \E f : Lands(f) /\ (f.by # q \/ f.type = HistoryType)
        BY <1>1
    <2> QED
        BY <1>1, <2>1, StandsStill
<1> QED
    BY <1>1 DEF LedgerInv

(* UploadTears, and a crash in the middle of an upload. *)
LEMMA FailureKeepsLedger ==
    ASSUME StepInv, LedgerInv, NEW l \in Launches, phase[l] = "uploading",
           NEW obj \in NextUploads(l), UploadFails(l, obj),
           UNCHANGED <<run, config, records, ledger, disturbed>>,
           \A q \in Launches : q # l => Parked(q),
           \/ phase'[l] = "crashed"
           \/ phase'[l] = "torn" /\ failedOn'[l] = obj.name
    PROVE  LedgerInv'
<1>1. \/ UNCHANGED bucket
      \/ \E f : Lands(f) /\ f.by = l /\ f.name = obj.name
    BY UploadLands DEF UploadFails
<1>2. Ledgered(l) /\ Grows /\ SameWork(l)
    BY <1>1 DEF LedgerInv, Grows, SameWork
<1>3. Backed(l)'
    BY <1>2, BackedStays DEF Ledgered
<1>4. Counted(l)'
    BY <1>2 DEF Ledgered, Counted
<1>5. ASSUME NEW i \in 1..Len(bucket'), OwnFile(l, i)',
             phase'[l] = "torn" /\ failedOn'[l] = obj.name
      PROVE  InLedger(l, i)' \/ bucket'[i].name = failedOn'[l]
    <2>1. CASE i \in 1..Len(bucket)
        <3>1. bucket'[i] = bucket[i]
            BY <1>2, <2>1, GrowsKeeps
        <3>2. InLedger(l, i)
            BY <1>2, <1>5, <2>1, <3>1 DEF Ledgered, OwnFiles, OwnFile
        <3> QED
            BY <3>2 DEF InLedger
    <2>2. CASE i \notin 1..Len(bucket)
        <3>1. i = Len(bucket) + 1 /\ ~UNCHANGED bucket
            BY <1>1, <2>2, LedgerTyped DEF Lands
        <3> QED
            BY <1>1, <1>5, <3>1 DEF Lands
    <2> QED
        BY <2>1, <2>2
<1>6. OwnFiles(l)'
    BY <1>5 DEF OwnFiles
<1>7. Last(l)'
    BY DEF Last
<1>8. Ledgered(l)'
    BY <1>3, <1>4, <1>6, <1>7 DEF Ledgered
<1>9. UNCHANGED bucket \/ \E f : Lands(f) /\ f.by = l
    BY <1>1
<1> QED
    BY <1>8, <1>9, UploadOthers

(* A confirmed upload adds a backed entry. *)
LEMMA EntryAdded ==
    ASSUME StepInv, NEW l \in Launches, phase[l] = "uploading", Backed(l), Grows, SameWork(l),
           NEW obj \in NextUploads(l), NEW x, ledger'[l] = Append(ledger[l], x),
           x.id \in 1..Len(bucket'), Documented(x.id)',
           bucket'[x.id].content = obj.content,
           x.name = obj.name, x.type = obj.type,
           ~Dedup => bucket'[x.id].name = x.name
    PROVE  Backed(l)'
<1>1. /\ Len(ledger[l]) \in Nat /\ Len(ledger'[l]) = Len(ledger[l]) + 1
      /\ \A k \in 1..Len(ledger[l]) : ledger'[l][k] = ledger[l][k]
      /\ ledger'[l][Len(ledger[l]) + 1] = x
    BY LedgerTyped
<1>2. ASSUME NEW k \in 1..Len(ledger'[l]) PROVE Entry(l, k)'
    <2>1. CASE k \in 1..Len(ledger[l])
        BY <1>1, <2>1, EntryStays DEF Backed
    <2>2. CASE k = Len(ledger[l]) + 1
        <3>1. PICK o : o = ObjectAt(l, k)
            OBVIOUS
        <3>2. ledger'[l][k] = x /\ ObjectAt(l, k)' = o
            BY <1>1, <2>2, <3>1, ObjectStays
        <3>3. /\ obj.name = o.name /\ obj.type = o.type /\ obj.content.kind # "history"
              /\ ~disturbed[l] => obj.content = o.content
            BY <2>2, <3>1, NextObject
        <3>4. ~disturbed'[l] => ~disturbed[l]
            BY DEF SameWork
        <3> QED
            BY <3>2, <3>3, <3>4 DEF Entry
    <2> QED
        BY <1>1, <2>1, <2>2
<1> QED
    BY <1>2 DEF Backed

LEMMA ConfirmedKeepsLedger ==
    ASSUME StepInv, LedgerInv, NEW l \in Launches, UploadConfirmed(l)
    PROVE  LedgerInv'
<1>1. PICK obj \in NextUploads(l) : \E id \in 1..(Len(bucket) + 1) :
          /\ UploadSucceeds(l, obj, id)
          /\ ledger' = [ledger EXCEPT ![l] =
                           Append(@, [name |-> obj.name, id |-> id, type |-> obj.type])]
          /\ Goto(l, IF obj.type = ManifestType THEN "delivered" ELSE "uploading")
    BY DEF UploadConfirmed
<1>0. PICK id \in 1..(Len(bucket) + 1) :
          /\ UploadSucceeds(l, obj, id)
          /\ ledger' = [ledger EXCEPT ![l] =
                           Append(@, [name |-> obj.name, id |-> id, type |-> obj.type])]
          /\ Goto(l, IF obj.type = ManifestType THEN "delivered" ELSE "uploading")
    BY <1>1
<1>01. PICK x : x = [name |-> obj.name, id |-> id, type |-> obj.type]
    OBVIOUS
<1>2. phase[l] = "uploading" /\ UNCHANGED <<run, config, records, failedOn, disturbed>>
    BY DEF UploadConfirmed
<1>3. /\ \A q \in Launches : q # l => phase'[q] = phase[q] /\ ledger'[q] = ledger[q]
      /\ ledger'[l] = Append(ledger[l], x)
      /\ phase'[l] = IF obj.type = ManifestType THEN "delivered" ELSE "uploading"
    BY <1>0, <1>01 DEF StepInv, SinkTypes, Goto
<1>4. /\ Len(ledger[l]) \in Nat /\ Len(ledger'[l]) = Len(ledger[l]) + 1
      /\ \A k \in 1..Len(ledger[l]) : ledger'[l][k] = ledger[l][k]
      /\ ledger'[l][Len(ledger[l]) + 1] = x
      /\ Len(bucket) \in Nat /\ Len(records[l]) \in Nat
    BY <1>3, LedgerTyped
<1>5. Ledgered(l) /\ SameWork(l) /\ \A q \in Launches : q # l => Parked(q)
    BY <1>2, <1>3 DEF LedgerInv, SameWork, Parked
<1>6. x.id = id /\ x.name = obj.name /\ x.type = obj.type
    BY <1>01
<1>7. \/ /\ id = Len(bucket) + 1
         /\ \E f : /\ Lands(f) /\ f.by = l /\ f.documented = TRUE
                   /\ f.name = obj.name /\ f.content = obj.content
      \/ /\ UNCHANGED bucket /\ Dedup /\ id \in 1..Len(bucket)
         /\ Documented(id) /\ bucket[id].content = obj.content
    <2>1. CASE id = Len(bucket) + 1 /\ bucket' = Stored(l, obj, TRUE)
        <3>1. TRUE \in BOOLEAN
            OBVIOUS
        <3>2. \E f : /\ Lands(f) /\ f.by = l /\ f.documented = TRUE
                     /\ f.name = obj.name /\ f.type = obj.type /\ f.content = obj.content
            BY <1>2, <2>1, <3>1, UploadLands
        <3> QED
            BY <2>1, <3>2
    <2>2. CASE id \in Twins(obj) /\ UNCHANGED bucket
        BY <2>2, LedgerTyped DEF Twins, FileIds
    <2> QED
        BY <1>0, <2>1, <2>2 DEF UploadSucceeds
<1>8. Grows
    BY <1>7 DEF Grows
<1>9. /\ id \in 1..Len(bucket') /\ Documented(id)'
      /\ bucket'[id].content = obj.content
      /\ ~Dedup => bucket'[id].name = obj.name
    BY <1>4, <1>7 DEF Lands, Documented
<1>10. Backed(l)'
    BY <1>2, <1>3, <1>5, <1>6, <1>8, <1>9, EntryAdded DEF Ledgered
<1>11. Counted(l)'
    <2>1. obj.type = ManifestType <=> Len(ledger[l]) = Len(records[l]) + 1
        BY <1>2, <1>5, ManifestPosition DEF Ledgered
    <2>2. Len(ledger[l]) <= Len(records[l]) + 1
        BY <1>2, <1>5 DEF Ledgered, Counted
    <2> QED
        BY <1>2, <1>3, <1>4, <2>1, <2>2 DEF Counted
<1>12. \A i : InLedger(l, i) \/ i = id => InLedger(l, i)'
    <2>1. ASSUME NEW i, InLedger(l, i) PROVE InLedger(l, i)'
        <3>1. PICK k \in 1..Len(ledger[l]) : ledger[l][k].id = i
            BY <2>1 DEF InLedger
        <3>2. k \in 1..Len(ledger'[l]) /\ ledger'[l][k].id = i
            BY <1>4, <3>1
        <3> QED
            BY <3>2 DEF InLedger
    <2>2. InLedger(l, id)'
        BY <1>4, <1>6 DEF InLedger
    <2> QED
        BY <2>1, <2>2
<1>13. \A i \in 1..Len(bucket') : OwnFile(l, i)' =>
          \/ i \in 1..Len(bucket) /\ OwnFile(l, i) /\ bucket'[i] = bucket[i]
          \/ i = id
    BY <1>4, <1>7 DEF Lands, OwnFile
<1>14. OwnFiles(l)'
    BY <1>2, <1>5, <1>12, <1>13 DEF OwnFiles, Ledgered
<1>15. Last(l)'
    <2> SUFFICES ASSUME ~Dedup, NEW i \in 1..Len(bucket') PROVE i <= id
        BY <1>4, <1>6 DEF Last
    <2>1. id = Len(bucket) + 1 /\ Len(bucket') = Len(bucket) + 1
        BY <1>7 DEF Lands
    <2> QED
        BY <1>4, <2>1
<1>16. Ledgered(l)'
    BY <1>10, <1>11, <1>14, <1>15 DEF Ledgered
<1>17. UNCHANGED bucket \/ \E f : Lands(f) /\ f.by = l
    BY <1>7
<1> QED
    BY <1>5, <1>16, <1>17, UploadOthers

(* What a step before the uploads leaves alone.                             *)
LEMMA SoleRecorder ==
    ASSUME StepInv, NEW l \in Launches,
           \/ LoadFails(l) \/ RefuseTarget(l) \/ AcceptTarget(l) \/ OpenFile(l)
           \/ WriteFile(l) \/ RecordShard(l) \/ RecordSidecar(l) \/ RefuseFile(l)
           \/ Interlock(l)
    PROVE  /\ UNCHANGED <<bucket, run, config, ledger, failedOn>>
           /\ phase[l] \in Running \ {"uploading"}
           /\ \A q \in Launches : q # l => records'[q] = records[q] /\ phase'[q] = phase[q]
           /\ \A q \in Launches : disturbed[q] => disturbed'[q]
           /\ phase'[l] # "delivered"
<1>0. phase \in [Launches -> {"idle"} \cup Running \cup Finished]
    BY DEF StepInv, SinkTypes
<1>1. CASE LoadFails(l) \/ RefuseTarget(l) \/ RefuseFile(l)
    BY <1>0, <1>1 DEF LoadFails, RefuseTarget, RefuseFile, Move, Goto, Running, Writing
<1>2. CASE AcceptTarget(l)
    BY <1>0, <1>2 DEF AcceptTarget, Goto, Running, Writing
<1>3. CASE OpenFile(l) \/ WriteFile(l)
    <2>1. /\ UNCHANGED <<bucket, phase, run, config, records, ledger, failedOn>>
          /\ phase[l] \in Writing
        BY <1>3 DEF OpenFile, WriteFile
    <2>2. \A q \in Launches : disturbed[q] => disturbed'[q]
        BY <1>3 DEF OpenFile, WriteFile
    <2> QED
        BY <2>1, <2>2 DEF Running, Writing
<1>4. CASE RecordShard(l)
    <2>1. \E hash \in Readings(AtHand(l)) : records' = [records EXCEPT ![l] =
              Append(@, ShardRecord(AtHand(l), Target(l), HeaderMonth(l), hash))]
        BY <1>4 DEF RecordShard
    <2>2. \A q \in Launches : q # l => records'[q] = records[q]
        BY <2>1 DEF StepInv, SinkTypes
    <2>3. \E p \in {"slicing", "sidecar", "loading"} : phase' = [phase EXCEPT ![l] = p]
        BY <1>4 DEF RecordShard, Goto
    <2>4. UNCHANGED <<bucket, run, config, ledger, failedOn, disturbed>> /\ phase[l] = "slicing"
        BY <1>4 DEF RecordShard
    <2> QED
        BY <1>0, <2>2, <2>3, <2>4 DEF Running, Writing
<1>5. CASE RecordSidecar(l)
    BY <1>0, <1>5 DEF RecordSidecar, Goto, Running, Writing
<1>6. CASE Interlock(l)
    <2>1. \E p \in {"staged", "refused", "uploading"} : phase' = [phase EXCEPT ![l] = p]
        BY <1>6 DEF Interlock, Goto, AfterStaging
    <2>2. /\ UNCHANGED <<bucket, run, config, records, ledger, failedOn, disturbed>>
          /\ phase[l] = "manifest"
        BY <1>6 DEF Interlock
    <2> QED
        BY <1>0, <2>1, <2>2 DEF Running, Writing
<1> QED
    BY <1>1, <1>2, <1>3, <1>4, <1>5, <1>6

(* Every step of the sink keeps LedgerInv. *)
LEMMA StepKeepsLedger ==
    ASSUME StepInv, BucketInv, LedgerInv, [Next]_vars
    PROVE  LedgerInv'
<1>1. CASE Next
    <2>1. PICK l \in Launches : \/ \E r \in Runs, c \in Configs : Start(l, r, c)
                                \/ Step(l) \/ Crash(l)
        BY <1>1 DEF Next
    <2>2. CASE \E r \in Runs, c \in Configs : Start(l, r, c)
        <3>1. PICK r \in Runs, c \in Configs : Start(l, r, c)
            BY <2>2
        <3>2. /\ UNCHANGED <<bucket, records, ledger, failedOn, disturbed>> /\ phase[l] = "idle"
              /\ phase'[l] = "loading"
              /\ \A q \in Launches : q # l => phase'[q] = phase[q] /\ run'[q] = run[q]
                                              /\ config'[q] = config[q]
            BY <3>1 DEF StepInv, SinkTypes, Start, Goto
        <3>3. Progress(l)
            BY DEF StepInv, LaunchInv
        <3>4. ledger[l] = <<>> /\ Len(records[l]) \in Nat
            BY <3>2, <3>3, LedgerTyped DEF Progress
        <3>5. \A q \in Launches : q # l => Parked(q)
            BY <3>2 DEF Parked, SameWork
        <3> QED
            BY <3>2, <3>4, <3>5, BeforeUploads
    <2>3. CASE \/ LoadFails(l) \/ RefuseTarget(l) \/ AcceptTarget(l) \/ OpenFile(l)
               \/ WriteFile(l) \/ RecordShard(l) \/ RecordSidecar(l) \/ RefuseFile(l)
               \/ Interlock(l)
        <3>1. /\ UNCHANGED <<bucket, run, config, ledger, failedOn>>
              /\ phase[l] \in Running \ {"uploading"}
              /\ \A q \in Launches : q # l => records'[q] = records[q] /\ phase'[q] = phase[q]
              /\ \A q \in Launches : disturbed[q] => disturbed'[q]
            BY <2>3, SoleRecorder
        <3>2. phase'[l] # "delivered"
            BY <2>3, SoleRecorder
        <3>3. StepInv'
            BY <1>1, StepKeepsStaging
        <3>4. Progress(l)
            BY DEF StepInv, LaunchInv
        <3>5. ledger[l] = <<>> /\ Len(records'[l]) \in Nat
            BY <3>1, <3>3, <3>4 DEF StepInv, SinkTypes, Progress
        <3>6. phase[l] \notin {"crashed", "torn"}
            BY <3>1 DEF Running, Writing
        <3>7. \A q \in Launches : q # l => Parked(q)
            BY <3>1 DEF Parked, SameWork
        <3> QED
            BY <3>1, <3>2, <3>5, <3>6, <3>7, BeforeUploads
    <2>4. CASE UploadConfirmed(l)
        BY <2>4, ConfirmedKeepsLedger
    <2>5. CASE UploadTears(l)
        <3>1. PICK obj \in NextUploads(l) :
                  UploadFails(l, obj) /\ failedOn' = [failedOn EXCEPT ![l] = obj.name]
            BY <2>5 DEF UploadTears
        <3>2. /\ phase[l] = "uploading" /\ UNCHANGED <<run, config, records, ledger, disturbed>>
              /\ phase' = [phase EXCEPT ![l] = "torn"]
            BY <2>5 DEF UploadTears, Goto
        <3>3. /\ \A q \in Launches : q # l => Parked(q)
              /\ phase'[l] = "torn" /\ failedOn'[l] = obj.name
            BY <3>1, <3>2 DEF StepInv, SinkTypes, Parked, SameWork
        <3> QED
            BY <3>1, <3>2, <3>3, FailureKeepsLedger
    <2>6. CASE Crash(l)
        <3>1. /\ phase[l] \in Running
              /\ UNCHANGED <<run, config, records, ledger, failedOn, disturbed>>
              /\ phase' = [phase EXCEPT ![l] = "crashed"]
            BY <2>6 DEF Crash, Goto
        <3>2. phase'[l] = "crashed" /\ \A q \in Launches : q # l => Parked(q)
            BY <3>1 DEF StepInv, SinkTypes, Parked, SameWork
        <3>3. CASE ~UNCHANGED bucket
            <4>1. phase[l] = "uploading" /\ \E obj \in NextUploads(l) : UploadFails(l, obj)
                BY <2>6, <3>3 DEF Crash
            <4>2. PICK obj \in NextUploads(l) : UploadFails(l, obj)
                BY <4>1
            <4> QED
                BY <3>1, <3>2, <4>1, <4>2, FailureKeepsLedger
        <3>4. CASE UNCHANGED bucket
            <4>1. Ledgered(l) /\ Grows /\ SameWork(l)
                BY <3>1, <3>4 DEF LedgerInv, Grows, SameWork
            <4>2. Backed(l)'
                BY <3>1, <4>1, BackedStays DEF Ledgered
            <4>3. Ledgered(l)'
                BY <3>2, <4>2 DEF Ledgered, Counted, OwnFiles, Last
            <4> QED
                BY <3>2, <3>4, <4>3, UploadOthers
        <3> QED
            BY <3>3, <3>4
    <2> QED
        BY <2>1, <2>2, <2>3, <2>4, <2>5, <2>6 DEF Step, Advance
<1>2. CASE UNCHANGED vars
    <2>1. UNCHANGED <<bucket, phase, run, config, records, ledger, failedOn, disturbed>>
        BY <1>2 DEF vars, sinkVars, progress
    <2>2. \A l \in Launches : Parked(l)
        BY <2>1 DEF Parked, SameWork
    <2>3. \A l \in Launches : Ledgered(l)'
        BY <2>1, <2>2, StandsStill
    <2> QED
        BY <2>3 DEF LedgerInv
<1> QED
    BY <1>1, <1>2

(* The ledger of every launch stands for documents of the bucket, and the   *)
(* bucket for nothing more than the ledgers and what failures left, whether *)
(* or not the store declines copies; the documents have the bytes the       *)
(* launch meant, if nobody wrote beneath it.                                *)
THEOREM LedgerHolds == Spec => []LedgerInv
<1>1. Init => LedgerInv
    BY InitLedger
<1>2. ASSUME StepInv, BucketInv, LedgerInv, [Next]_vars PROVE LedgerInv'
    BY <1>2, StepKeepsLedger
<1> QED
    BY <1>1, <1>2, BucketIsSound, PTL DEF Spec

-----------------------------------------------------------------------------
(* The torn-run refusal names everything an operator has to look for, in a  *)
(* store that keeps every copy: a ledger entry names its document, none of  *)
(* them is the manifest, and any other file of the launch has the name the  *)
(* refusal failed on.                                                       *)
THEOREM RefusalNamesAll ==
    ASSUME ~Dedup
    PROVE  Spec => []TornRefusalIsAccurate
<1>1. ASSUME StepInv, BucketInv, LedgerInv, SinkAlone PROVE TornRefusalIsAccurate
    <2> SUFFICES ASSUME NEW l \in Launches, phase[l] = "torn"
                 PROVE  /\ \A k \in DOMAIN ledger[l] :
                              /\ ledger[l][k].id \in FileIds
                              /\ Documented(ledger[l][k].id)
                              /\ bucket[ledger[l][k].id].name = ledger[l][k].name
                              /\ ledger[l][k].type # ManifestType
                        /\ \A i \in FileIds : bucket[i].by = l =>
                              \/ \E k \in DOMAIN ledger[l] : ledger[l][k].id = i
                              \/ bucket[i].name = failedOn[l]
        BY DEF TornRefusalIsAccurate
    <2>1. /\ FileIds = 1..Len(bucket) /\ DOMAIN ledger[l] = 1..Len(ledger[l])
          /\ Len(ledger[l]) \in Nat /\ Len(records[l]) \in Nat
        BY <1>1, LedgerTyped DEF FileIds
    <2>2. Backed(l) /\ Len(ledger[l]) <= Len(records[l]) + 1 /\ OwnFiles(l)
        BY <1>1 DEF LedgerInv, Ledgered, Counted
    <2>3. ASSUME NEW k \in 1..Len(ledger[l])
          PROVE  /\ ledger[l][k].id \in FileIds
                 /\ Documented(ledger[l][k].id)
                 /\ bucket[ledger[l][k].id].name = ledger[l][k].name
                 /\ ledger[l][k].type # ManifestType
        <3>1. Entry(l, k)
            BY <2>2, <2>3 DEF Backed
        <3>2. k \in Nat /\ (k <= Len(records[l]) \/ k = Len(records[l]) + 1)
            BY <2>1, <2>2
        <3>3. ObjectAt(l, k).type # ManifestType
            BY <2>1, <3>2, ObjectFields DEF ShardType, SidecarType, ManifestType
        <3> QED
            BY <2>1, <3>1, <3>3 DEF Entry
    <2>4. ASSUME NEW i \in 1..Len(bucket), bucket[i].by = l
          PROVE  InLedger(l, i) \/ bucket[i].name = failedOn[l]
        <3>1. SoundOrigin(bucket[i])
            BY <1>1 DEF BucketInv, SinkAlone
        <3>2. bucket[i].type # HistoryType
            BY <3>1 DEF SoundOrigin, IsFileOf, ShardType, SidecarType, ManifestType, HistoryType
        <3> QED
            BY <2>2, <2>4, <3>2 DEF OwnFiles, OwnFile
    <2> QED
        BY <2>1, <2>3, <2>4 DEF InLedger
<1> QED
    BY <1>1, BucketIsSound, LedgerHolds, OnlyTheSinkUploads, PTL

-----------------------------------------------------------------------------
(* Refinement: in a store that keeps every copy the sink publishes fit runs *)
(* atomically, as long as their launches do not dispute them.               *)

(* A file's name tells its run and its type.                                *)
LEMMA NameFixesRun ==
    ASSUME NEW f, NEW r \in Runs, NEW s \in Runs, IsFileOf(f, s)
    PROVE  /\ \A e \in RecordsOf(r) : f.name = e.name => s = r /\ f.type = ShardType
           /\ f.name = SidecarName(r) => s = r /\ f.type = SidecarType
           /\ f.name = ManifestName(r) => s = r /\ f.type = ManifestType
<1>1. \A q : \A e \in RecordsOf(q) : \E t, m : e.name = ShardName(q, t, m)
    BY DEF RecordsOf, RecordOf, ShardRecord
<1>2. \/ f.type = ShardType /\ \E t, m : f.name = ShardName(s, t, m)
      \/ f.type = SidecarType /\ f.name = SidecarName(s)
      \/ f.type = ManifestType /\ f.name = ManifestName(s)
    BY <1>1 DEF IsFileOf
<1>3. ASSUME NEW e \in RecordsOf(r), f.name = e.name PROVE s = r /\ f.type = ShardType
    <2>1. PICK t, m : f.name = ShardName(r, t, m)
        BY <1>1, <1>3
    <2> QED
        BY <1>2, <2>1, NamesDistinct
<1>4. f.name = SidecarName(r) => s = r /\ f.type = SidecarType
    BY <1>2, NamesDistinct
<1>5. f.name = ManifestName(r) => s = r /\ f.type = ManifestType
    BY <1>2, NamesDistinct
<1> QED
    BY <1>3, <1>4, <1>5

(* So does the name of a file of the bucket.                                *)
LEMMA NamedInBucket ==
    ASSUME StepInv, BucketInv, NEW r \in Runs, NEW j \in 1..Len(bucket),
           \/ \E e \in RecordsOf(r) : bucket[j].name = e.name
           \/ bucket[j].name = SidecarName(r)
    PROVE  /\ SoundOrigin(bucket[j]) /\ bucket[j].by \in Launches
           /\ run[bucket[j].by] = r
           /\ \A e \in RecordsOf(r) : bucket[j].name = e.name => bucket[j].type = ShardType
           /\ bucket[j].name = SidecarName(r) => bucket[j].type = SidecarType
<1>1. \A e \in RecordsOf(r) : e.name.kind = "shard"
    BY DEF RecordsOf, RecordOf, ShardRecord, ShardName
<1>2. bucket[j] \notin ArtifactFile
    BY <1>1 DEF ArtifactFile, SidecarName
<1>3. SoundOrigin(bucket[j])
    BY <1>2 DEF BucketInv
<1>4. PICK f, s : f = bucket[j] /\ s = run[f.by]
    OBVIOUS
<1>5. s \in Runs /\ IsFileOf(f, s) /\ f.by \in Launches
    BY <1>3, <1>4, FileTyped DEF SoundOrigin
<1>6. /\ \A e \in RecordsOf(r) : f.name = e.name => s = r /\ f.type = ShardType
      /\ f.name = SidecarName(r) => s = r /\ f.type = SidecarType
    BY <1>5, NameFixesRun
<1> QED
    BY <1>3, <1>4, <1>5, <1>6

(* A manifest of an undisputed run can be served, whatever else was         *)
(* uploaded.                                                                *)
LEMMA ManifestsServe ==
    ASSUME StepInv, BucketInv, ~Dedup, NEW i \in ManifestIds, ~Disputed(run[bucket[i].by])
    PROVE  Servable(i)
<1>1. FileIds = 1..Len(bucket)
    BY DEF StepInv, SinkTypes, FileIds
<1>0. PICK l \in Launches, r \in Runs : l = bucket[i].by /\ r = run[l]
    BY ManifestContent
<1>01. PICK g : g = config[l].lookup
    OBVIOUS
<1>2. l = bucket[i].by /\ r = run[l] /\ g = config[l].lookup
    BY <1>0, <1>01
<1>3. ~disturbed[l] /\ ~Disputed(r)
    BY <1>2 DEF Disputed
<1>4. /\ bucket[i].content = ManifestOf(r, g) /\ bucket[i].type = ManifestType
      /\ i \in 1..Len(bucket) /\ WholeAt(i)
    BY <1>2, <1>3, ManifestContent DEF BucketInv
<1>5. /\ bucket[i].content.kind = "manifest"
      /\ bucket[i].content.shards = RecordsOf(r)
      /\ bucket[i].content.sidecar = SidecarEntry(r, g)
    BY <1>4 DEF ManifestOf
<1>6. SidecarEntry(r, g).name = SidecarName(r) /\ SidecarEntry(r, g).sha256 = SidecarOf(r, g)
    BY DEF SidecarEntry
<1>7. \A e \in RecordsOf(r) \cup {SidecarEntry(r, g)} : \E j \in 1..Len(bucket) :
          Documented(j) /\ bucket[j].name = e.name /\ bucket[j].content = e.sha256
    <2>1. \A j \in 1..(i - 1) : j \in 1..Len(bucket)
        BY <1>4 DEF StepInv, SinkTypes
    <2>2. \A e \in RecordsOf(r) \cup {SidecarEntry(r, g)} : \E j \in 1..(i - 1) :
              Documented(j) /\ bucket[j].name = e.name /\ bucket[j].content = e.sha256
        BY <1>2, <1>3, <1>4, <1>5 DEF WholeAt
    <2> QED
        BY <2>1, <2>2
<1>8. ASSUME NEW j \in 1..Len(bucket),
             \/ \E e \in RecordsOf(r) : bucket[j].name = e.name
             \/ bucket[j].name = SidecarName(r)
      PROVE  /\ bucket[j].category = Forecast
             /\ IsAsMeant(bucket[j], r, g)
             /\ \A e \in RecordsOf(r) : bucket[j].name = e.name => bucket[j].type = ShardType
             /\ bucket[j].name = SidecarName(r) => bucket[j].type = SidecarType
    <2>1. PICK q \in Launches : q = bucket[j].by /\ run[q] = r /\ SoundOrigin(bucket[j])
        BY <1>8, NamedInBucket
    <2>2. ~disturbed[q] /\ config[q].lookup = g
        BY <1>2, <1>3, <2>1 DEF Disputed
    <2>3. bucket[j].category = Forecast /\ IsAsMeant(bucket[j], r, g)
        BY <2>1, <2>2 DEF SoundOrigin
    <2> QED
        BY <1>8, <2>3, NamedInBucket
<1>9. ASSUME NEW e \in RecordsOf(r)
      PROVE  Resolves(e, ShardType) /\ ServesUnambiguously(e, ShardType)
    <2>1. PICK j \in 1..Len(bucket) :
              Documented(j) /\ bucket[j].name = e.name /\ bucket[j].content = e.sha256
        BY <1>7
    <2>2. j \in CarriersOf(e.name, Forecast, ShardType)
        BY <1>1, <1>8, <2>1 DEF CarriersOf, Matching
    <2>3. ASSUME NEW k \in CarriersOf(e.name, Forecast, ShardType)
          PROVE  bucket[k].content = e.sha256
        <3>1. k \in 1..Len(bucket) /\ bucket[k].name = e.name /\ bucket[k].type = ShardType
            BY <1>1 DEF CarriersOf, Matching
        <3>2. IsAsMeant(bucket[k], r, g)
            BY <1>8, <3>1
        <3> QED
            BY <3>1, <3>2, NameFixesContent
    <2> QED
        BY <2>1, <2>2, <2>3 DEF Resolves, ServesUnambiguously
<1>10. Resolves(SidecarEntry(r, g), SidecarType) /\ ServesUnambiguously(SidecarEntry(r, g), SidecarType)
    <2>1. PICK j \in 1..Len(bucket) :
              Documented(j) /\ bucket[j].name = SidecarName(r) /\ bucket[j].content = SidecarOf(r, g)
        BY <1>6, <1>7
    <2>2. j \in CarriersOf(SidecarName(r), Forecast, SidecarType)
        BY <1>1, <1>8, <2>1 DEF CarriersOf, Matching
    <2>3. ASSUME NEW k \in CarriersOf(SidecarName(r), Forecast, SidecarType)
          PROVE  bucket[k].content = SidecarOf(r, g)
        <3>1. /\ k \in 1..Len(bucket) /\ bucket[k].name = SidecarName(r)
              /\ bucket[k].type = SidecarType
            BY <1>1 DEF CarriersOf, Matching
        <3>2. PICK f : f = bucket[k]
            OBVIOUS
        <3>3. IsAsMeant(f, r, g)
            BY <1>8, <3>1, <3>2
        <3>4. f.type = SidecarType /\ f.name = SidecarName(r) /\ g = g => f.content = SidecarOf(r, g)
            BY ONLY <3>3, r \in Runs, NameFixesContent
        <3> QED
            BY <3>1, <3>2, <3>4
    <2> QED
        BY <1>6, <2>1, <2>2, <2>3 DEF Resolves, ServesUnambiguously
<1> QED
    BY <1>5, <1>9, <1>10 DEF Servable

(* So an undisputed run is visible exactly when a manifest of its name is.  *)
Committed(r) == \E i \in ManifestIds : bucket[i].name = ManifestName(r)

Seen(r) ==
    IF Disputed(r) THEN "disputed" ELSE IF Committed(r) THEN "whole" ELSE "invisible"

VisibleInv == \A r \in Runs : Visible(r) = Seen(r)

LEMMA VisibleMeansWhole ==
    ASSUME StepInv, BucketInv, ~Dedup
    PROVE  VisibleInv
<1>1. ASSUME NEW r \in Runs PROVE Visible(r) = Seen(r)
    <2>1. ASSUME NEW i \in ManifestIds, bucket[i].name = ManifestName(r), ~Disputed(r)
          PROVE  Servable(i)
        <3>1. run[bucket[i].by] = r
            BY <2>1, ManifestContent, NamesDistinct
        <3> QED
            BY <2>1, <3>1, ManifestsServe
    <2> QED
        BY <2>1 DEF Visible, Seen, Committed
<1> QED
    BY <1>1 DEF VisibleInv

(* A commitment is never taken back, and only the run of the uploading      *)
(* launch is committed.                                                     *)
LEMMA CommitmentsStay ==
    ASSUME StepInv, Grows, NEW r \in Runs, Committed(r)
    PROVE  Committed(r)'
<1>1. PICK i \in ManifestIds : bucket[i].name = ManifestName(r)
    BY DEF Committed
<1>2. i \in 1..Len(bucket)
    BY <1>1 DEF ManifestIds, Matching, FileIds, StepInv, SinkTypes
<1>4. i \in 1..Len(bucket') /\ bucket'[i] = bucket[i]
    BY <1>2, GrowsKeeps
<1>3. DOMAIN bucket' = 1..Len(bucket')
    <2>1. bucket' = bucket \/ bucket' # bucket
        OBVIOUS
    <2> QED
        BY GrowsKeeps DEF StepInv, SinkTypes
<1> QED
    BY <1>1, <1>3, <1>4 DEF Committed, ManifestIds, Matching, FileIds, Documented

LEMMA OneRunCommits ==
    ASSUME StepInv, StepInv', NEW l \in Launches, phase[l] = "uploading",
           NEW obj \in NextUploads(l), NEW d \in BOOLEAN, bucket' = Stored(l, obj, d),
           NEW r \in Runs, Committed(r)', ~Committed(r)
    PROVE  r = run[l]
<1>1. PICK n, f : n = Len(bucket) + 1 /\ f = bucket'[n]
    OBVIOUS
<1>2. /\ Len(bucket') = n
      /\ \A i \in 1..Len(bucket) : bucket'[i] = bucket[i]
      /\ f = [name |-> obj.name, type |-> obj.type, category |-> Forecast,
              content |-> obj.content, documented |-> d, by |-> l]
    BY <1>1, BucketGrows
<1>3. Len(bucket) \in Nat /\ FileIds = 1..Len(bucket) /\ FileIds' = 1..Len(bucket')
    BY DEF StepInv, SinkTypes, FileIds
<1>4. PICK i \in ManifestIds' : bucket'[i].name = ManifestName(r)
    BY DEF Committed
<1>5. i \in 1..Len(bucket')
    BY <1>3, <1>4 DEF ManifestIds, Matching
<1>6. i \notin 1..Len(bucket)
    BY <1>2, <1>3, <1>4 DEF Committed, ManifestIds, Matching, Documented
<1>7. i = n
    BY <1>1, <1>2, <1>3, <1>5, <1>6
<1>8. obj.name = ManifestName(r)
    <2>1. f.name = obj.name
        BY <1>2
    <2> QED
        BY <1>1, <1>4, <1>7, <2>1
<1>9. run[l] \in Runs /\ IsFileOf(obj, run[l])
    BY NextUploadIs
<1> QED
    BY <1>8, <1>9, NameFixesRun

(* What a step of the sink does to the facts a dispute is about.            *)
LEMMA WhoMoves ==
    ASSUME [Next]_vars
    PROVE  \/ UNCHANGED <<run, config, disturbed>>
           \/ \E l \in Launches : \/ \E r \in Runs, c \in Configs : Start(l, r, c)
                                  \/ OpenFile(l) \/ WriteFile(l)
<1>1. CASE Next
    <2>1. PICK l \in Launches : \/ \E r \in Runs, c \in Configs : Start(l, r, c)
                                \/ Step(l) \/ Crash(l)
        BY <1>1 DEF Next
    <2>2. CASE \/ LoadFails(l) \/ RefuseTarget(l) \/ AcceptTarget(l) \/ RecordShard(l)
               \/ RecordSidecar(l) \/ RefuseFile(l) \/ Interlock(l)
        BY <2>2 DEF LoadFails, RefuseTarget, AcceptTarget, RecordShard, RecordSidecar,
                    RefuseFile, Interlock, Move
    <2>3. CASE UploadConfirmed(l) \/ UploadTears(l) \/ Crash(l)
        BY <2>3 DEF UploadConfirmed, UploadTears, Crash
    <2> QED
        BY <2>1, <2>2, <2>3 DEF Step, Advance
<1>2. CASE UNCHANGED vars
    BY <1>2 DEF vars, sinkVars, progress
<1> QED
    BY <1>1, <1>2

(* The neighbours of a launch that writes are launches of its run.          *)
LEMMA NeighboursShareTheRun ==
    ASSUME StepInv, NEW l \in Launches, phase[l] \in Writing, NEW q \in Neighbours(l)
    PROVE  q \in Launches /\ run[q] = run[l]
<1>1. q \in Launches /\ phase[q] \in Running /\ reference[q] # None
      /\ reference[q].run = reference[l].run
    BY DEF Neighbours
<1>2. reference[l].run = run[l]
    BY ReferenceIsTheRun DEF Writing, Assembled
<1>3. Progress(q)
    BY <1>1 DEF StepInv, LaunchInv
<1>4. reference[q] = FactsOf(run[q])
    BY <1>1, <1>3 DEF Progress, Running, Writing, Assembled
<1> QED
    BY <1>1, <1>2, <1>4 DEF FactsOf

(* Whatever one step disputes or commits, it is one run.                    *)
Settled(r) == (Disputed(r)' <=> Disputed(r)) /\ (Committed(r)' <=> Committed(r))

Progresses(r) ==
    /\ Disputed(r) => Disputed(r)'
    /\ Committed(r) => Committed(r)'
    /\ Committed(r)' /\ ~Committed(r) => \E g \in Lookups : FitToDeliver(r, g)

LEMMA StartTouchesOneRun ==
    ASSUME StepInv, NEW l \in Launches, NEW s \in Runs, NEW c \in Configs, Start(l, s, c)
    PROVE  Progresses(s) /\ \A r \in Runs : r # s => Settled(r)
<1>1. /\ phase[l] = "idle" /\ UNCHANGED <<bucket, disturbed>>
      /\ run'[l] = s
      /\ \A q \in Launches : q # l => run'[q] = run[q] /\ config'[q] = config[q]
    BY DEF Start, StepInv, SinkTypes
<1>2. run[l] = None
    BY <1>1 DEF StepInv, LaunchInv, Progress
<1>3. \A r \in Runs : r # None
    BY NoneIsNothing
<1>4. \A r \in Runs : Committed(r)' <=> Committed(r)
    BY <1>1 DEF Committed, ManifestIds, Matching, FileIds, Documented
<1>5. ASSUME NEW r \in Runs, Disputed(r) PROVE Disputed(r)'
    BY <1>1, <1>2, <1>3, <1>5 DEF Disputed
<1>6. ASSUME NEW r \in Runs, r # s, Disputed(r)' PROVE Disputed(r)
    <2>1. \A q \in Launches : run'[q] = r => q # l /\ run[q] = r /\ config'[q] = config[q]
        BY <1>1, <1>6
    <2> QED
        BY <1>1, <1>6, <2>1 DEF Disputed
<1> QED
    BY <1>4, <1>5, <1>6 DEF Progresses, Settled

LEMMA WritingTouchesOneRun ==
    ASSUME StepInv, NEW l \in Launches, OpenFile(l) \/ WriteFile(l)
    PROVE  \E s \in Runs : Progresses(s) /\ \A r \in Runs : r # s => Settled(r)
<1>1. phase[l] \in Writing /\ UNCHANGED <<bucket, run, config>>
    BY DEF OpenFile, WriteFile
<1>2. run[l] \in Runs
    BY <1>1, ReferenceIsTheRun DEF Writing, Assembled
<1>3. \A q \in Launches : disturbed[q] => disturbed'[q]
    BY DEF OpenFile, WriteFile
<1>4. \A q \in Launches : disturbed'[q] => disturbed[q] \/ q = l \/ q \in Neighbours(l)
    BY DEF OpenFile, WriteFile, Clashing, Rivals
<1>5. \A q \in Launches : run[q] # run[l] => (disturbed'[q] <=> disturbed[q])
    BY <1>1, <1>3, <1>4, NeighboursShareTheRun
<1>6. \A r \in Runs : Committed(r)' <=> Committed(r)
    BY <1>1 DEF Committed, ManifestIds, Matching, FileIds, Documented
<1>7. \A r \in Runs : Disputed(r) => Disputed(r)'
    BY <1>1, <1>3 DEF Disputed
<1>8. \A r \in Runs : r # run[l] /\ Disputed(r)' => Disputed(r)
    BY <1>1, <1>5 DEF Disputed
<1>9. PICK s \in Runs : s = run[l]
    BY <1>2
<1>10. Progresses(s)
    BY <1>6, <1>7 DEF Progresses
<1>11. \A r \in Runs : r # s => Settled(r)
    BY <1>6, <1>7, <1>8, <1>9 DEF Settled
<1> QED
    BY <1>10, <1>11

LEMMA LandingTouchesOneRun ==
    ASSUME StepInv, StepInv', NEW l \in Launches, phase[l] = "uploading",
           NEW obj \in NextUploads(l), NEW d \in BOOLEAN, bucket' = Stored(l, obj, d),
           UNCHANGED <<run, config, disturbed>>
    PROVE  \E s \in Runs : Progresses(s) /\ \A r \in Runs : r # s => Settled(r)
<1>1. run[l] \in Runs /\ FitToDeliver(run[l], config[l].lookup)
    BY UploadingIsFit
<1>2. config[l].lookup \in Lookups
    <2>1. Progress(l)
        BY DEF StepInv, LaunchInv
    <2> QED
        BY <2>1 DEF Progress, Configs
<1>3. \A r \in Runs : Disputed(r)' <=> Disputed(r)
    BY DEF Disputed
<1>4. Grows
    <2>1. \E f : Lands(f)
        BY UploadLands
    <2> QED
        BY <2>1 DEF Grows
<1>5. \A r \in Runs : Committed(r) => Committed(r)'
    BY <1>4, CommitmentsStay
<1>6. \A r \in Runs : Committed(r)' /\ ~Committed(r) => r = run[l]
    BY OneRunCommits
<1>7. PICK s \in Runs : s = run[l]
    BY <1>1
<1>8. FitToDeliver(s, config[l].lookup)
    BY <1>1, <1>7
<1>9. Progresses(s)
    BY <1>2, <1>3, <1>5, <1>8 DEF Progresses
<1>10. \A r \in Runs : r # s => Settled(r)
    BY <1>3, <1>5, <1>6, <1>7 DEF Settled
<1> QED
    BY <1>9, <1>10

LEMMA OneRunProgresses ==
    ASSUME StepInv, StepInv', [Next]_vars
    PROVE  \/ \A r \in Runs : Settled(r)
           \/ \E s \in Runs : Progresses(s) /\ \A r \in Runs : r # s => Settled(r)
<1>1. CASE \E l \in Launches : \/ \E r \in Runs, c \in Configs : Start(l, r, c)
                               \/ OpenFile(l) \/ WriteFile(l)
    BY <1>1, StartTouchesOneRun, WritingTouchesOneRun
<1>2. CASE UNCHANGED <<run, config, disturbed>>
    <2>1. CASE UNCHANGED bucket
        BY <1>2, <2>1 DEF Settled, Disputed, Committed, ManifestIds, Matching, FileIds, Documented
    <2>2. CASE \E l \in Launches : phase[l] = "uploading" /\
                   \E obj \in NextUploads(l), d \in BOOLEAN : bucket' = Stored(l, obj, d)
        BY <1>2, <2>2, LandingTouchesOneRun
    <2> QED
        BY <2>1, <2>2, BucketSteps
<1> QED
    BY <1>1, <1>2, WhoMoves

(* A step of the sink publishes one fit run, disputes one, or changes       *)
(* nothing that a consumer sees.                                            *)
LEMMA StepPublishes ==
    ASSUME StepInv, StepInv', VisibleInv, VisibleInv', [Next]_vars
    PROVE  [Abstract!Next]_([r \in Runs |-> Visible(r)])
<1>1. \A r \in Runs : Visible(r) = Seen(r) /\ Visible(r)' = Seen(r)'
    BY DEF VisibleInv
<1>2. \A r \in Runs : Settled(r) => Visible(r)' = Visible(r)
    BY <1>1 DEF Settled, Seen
<1>3. CASE \A r \in Runs : Settled(r)
    BY <1>2, <1>3
<1>4. CASE \E s \in Runs : Progresses(s) /\ \A r \in Runs : r # s => Settled(r)
    <2>1. PICK s \in Runs : Progresses(s) /\ \A r \in Runs : r # s => Settled(r)
        BY <1>4
    <2>2. [r \in Runs |-> Visible(r)]' =
              [[r \in Runs |-> Visible(r)] EXCEPT ![s] = Visible(s)']
        BY <1>2, <2>1
    <2>3. CASE Disputed(s)'
        <3>1. Visible(s)' = "disputed"
            BY <1>1, <2>3 DEF Seen
        <3>2. Abstract!Dispute(s)
            BY <2>2, <3>1 DEF Abstract!Dispute
        <3> QED
            BY <3>2 DEF Abstract!Next
    <2>4. CASE ~Disputed(s)' /\ ~(Committed(s)' <=> Committed(s))
        <3>1. ~Disputed(s) /\ ~Committed(s) /\ Committed(s)'
            BY <2>1, <2>4 DEF Progresses
        <3>2. Visible(s) = "invisible" /\ Visible(s)' = "whole"
            BY <1>1, <2>4, <3>1 DEF Seen
        <3>3. s \in {r \in Runs : \E lookup \in Lookups : FitToDeliver(r, lookup)}
            BY <2>1, <3>1 DEF Progresses
        <3>4. Abstract!Publish(s)
            BY <2>2, <3>2, <3>3 DEF Abstract!Publish
        <3> QED
            BY <3>4 DEF Abstract!Next
    <2>5. CASE ~Disputed(s)' /\ (Committed(s)' <=> Committed(s))
        <3>1. Settled(s)
            BY <2>1, <2>5 DEF Progresses, Settled
        <3> QED
            BY <1>2, <2>1, <3>1
    <2> QED
        BY <2>3, <2>4, <2>5
<1> QED
    BY <1>3, <1>4, OneRunProgresses

(* Whatever fails, crashes or overlaps, the sink publishes fit runs whole   *)
(* and in one step; a run is out of the promise from the moment that        *)
(* launches of it wrote beneath each other or had loaded different lookups. *)
THEOREM SinkRefinesPublication ==
    ASSUME ~Dedup
    PROVE  Spec => AtomicPublication
<1>1. ASSUME Init PROVE Abstract!Init
    <2>1. \A l \in Launches : run[l] = None
        BY <1>1 DEF Init
    <2>2. \A r \in Runs : ~Disputed(r)
        BY <2>1, NoneIsNothing DEF Disputed
    <2>3. ManifestIds = {}
        BY <1>1 DEF Init, ManifestIds, Matching, FileIds
    <2> QED
        BY <2>2, <2>3 DEF Abstract!Init, Visible
<1>2. ASSUME StepInv, BucketInv PROVE VisibleInv
    BY <1>2, VisibleMeansWhole
<1>3. ASSUME StepInv, StepInv', VisibleInv, VisibleInv', [Next]_vars
      PROVE  [Abstract!Next]_([r \in Runs |-> Visible(r)])
    BY <1>3, StepPublishes
<1> QED
    BY <1>1, <1>2, <1>3, BucketIsSound, PTL DEF Spec, AtomicPublication, Abstract!Spec

=============================================================================
