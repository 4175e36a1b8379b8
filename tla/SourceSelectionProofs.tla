------------------------ MODULE SourceSelectionProofs ------------------------
(***************************************************************************)
(* The safety properties of SourceSelection as theorems: for any set of    *)
(* publications, targets and months, whatever the producers upload while a *)
(* delivery resolves its run, and whatever order the shelf answers in.     *)
(*                                                                         *)
(* The argument: every document of the shelf is one some publication files *)
(* under one of its names (Filed), so a name a manifest lists leads back   *)
(* to a publication; and what a delivery holds on to, manifests by content *)
(* and shards by file id, does not change while the shelf grows (Leased,   *)
(* Pinned).  What was loaded is then what the manifest pinned (Verbatim).  *)
(***************************************************************************)
EXTENDS SourceSelection, FiniteSetTheorems, TLAPS

-----------------------------------------------------------------------------
(* The upload order. *)

(* Position n of a publication is a target and a place in its documents. *)
LEMMA Places ==
  ASSUME NEW width \in Nat \ {0}, NEW n \in Nat, NEW count \in Nat, n < count * width
  PROVE  n \div width \in 0..(count - 1) /\ n % width \in 0..(width - 1)
  <1>1. PICK q \in Nat, r \in 0..(width - 1) :
            q = n \div width /\ r = n % width /\ n = width * q + r
    OBVIOUS
  <1>2. SUFFICES ASSUME q >= count PROVE FALSE
    BY <1>1
  <1>3. PICK d \in Nat : q = count + d
    BY <1>2
  <1>4. /\ width * q = width * count + width * d /\ width * d \in Nat
        /\ width * count = count * width
    BY <1>3
  <1>5. width * q \in Nat /\ count * width \in Nat
    OBVIOUS
  <1> QED
    BY <1>1, <1>4, <1>5

ShardOf(d, p, t, m) ==
    /\ d.type = "shard"
    /\ d.name = ShardName(p.named, t, m)
    /\ d.content = ShardContent(p, t, m)

ManifestOf(d, p, t) ==
    /\ d.type = "manifest"
    /\ d.name = ManifestName(p.named, t)
    /\ d.content = ManifestContent(p, t)

FiledBy(d, p) ==
    \E t \in PublishedTargets :
        ManifestOf(d, p, t) \/ \E m \in MonthSet : ShardOf(d, p, t, m)

Documents ==
    [type : {"shard"}, content : Shards,
     name : {ShardName(r, t, m) : r \in Runs, t \in PublishedTargets, m \in MonthSet}]
        \cup [type : {"manifest"}, content : Manifests,
              name : {ManifestName(r, t) : r \in Runs, t \in PublishedTargets}]

(* A publication uploads documents it files under its own names. *)
LEMMA DocumentsAreFiled ==
  ASSUME NEW p \in Publications, NEW n \in 1..Size(p)
  PROVE  DocumentAt(p, n) \in Documents /\ FiledBy(DocumentAt(p, n), p)
  <1> DEFINE width == Len(Months) + 1
             t == p.targets[((n - 1) \div width) + 1]
             k == ((n - 1) % width) + 1
  <1>1. /\ p.targets \in Seq(PublishedTargets) /\ Len(p.targets) \in Nat
        /\ Months \in Seq(MonthSet) /\ Len(Months) \in Nat /\ width \in Nat \ {0}
    BY SelectionAssumption
  <1>2. n - 1 \in Nat /\ n - 1 < Len(p.targets) * width
    <2>1. Size(p) = Len(p.targets) * width
      BY DEF Size
    <2> HIDE DEF width
    <2>2. Size(p) \in Nat
      BY <1>1, <2>1
    <2> QED
      BY <2>1, <2>2
  <1>3. (n - 1) \div width \in 0..(Len(p.targets) - 1) /\ (n - 1) % width \in 0..(width - 1)
    <2> HIDE DEF width
    <2> QED
      BY <1>1, <1>2, Places
  <1>4. t \in PublishedTargets
    <2> DEFINE q == (n - 1) \div width
    <2>1. q \in 0..(Len(p.targets) - 1)
      BY <1>3
    <2> HIDE DEF q
    <2>2. p.targets[q + 1] \in PublishedTargets
      BY <1>1, <2>1
    <2> QED
      BY <2>2 DEF q
  <1>5. k \in 1..width
    BY <1>1, <1>3
  <1>6. DocumentAt(p, n) =
            IF k < width
            THEN [type |-> "shard", name |-> ShardName(p.named, t, Months[k]),
                  content |-> ShardContent(p, t, Months[k])]
            ELSE [type |-> "manifest", name |-> ManifestName(p.named, t),
                  content |-> ManifestContent(p, t)]
    BY DEF DocumentAt
  <1> HIDE DEF t, k
  <1>7. CASE k < width
    <2>1. Months[k] \in MonthSet
      BY <1>1, <1>5, <1>7
    <2>2. DocumentAt(p, n) = [type |-> "shard", name |-> ShardName(p.named, t, Months[k]),
                              content |-> ShardContent(p, t, Months[k])]
      BY <1>6, <1>7
    <2> HIDE DEF width
    <2>3. ShardOf(DocumentAt(p, n), p, t, Months[k])
      BY <2>2 DEF ShardOf
    <2>4. /\ ShardContent(p, t, Months[k]) \in Shards
          /\ ShardName(p.named, t, Months[k]) \in
                {ShardName(r, x, m) : r \in Runs, x \in PublishedTargets, m \in MonthSet}
      BY <1>4, <2>1 DEF Shards, Runs
    <2> QED
      BY <1>4, <2>1, <2>2, <2>3, <2>4 DEF FiledBy, Documents
  <1>8. CASE ~(k < width)
    <2>1. DocumentAt(p, n) = [type |-> "manifest", name |-> ManifestName(p.named, t),
                              content |-> ManifestContent(p, t)]
      BY <1>6, <1>8
    <2>2. ManifestOf(DocumentAt(p, n), p, t)
      BY <2>1 DEF ManifestOf
    <2>3. /\ ManifestContent(p, t) \in Manifests
          /\ ManifestName(p.named, t) \in
                {ManifestName(r, x) : r \in Runs, x \in PublishedTargets}
      BY <1>4 DEF Manifests, Runs
    <2> QED
      BY <1>4, <2>1, <2>2, <2>3 DEF FiledBy, Documents
  <1> QED
    BY <1>7, <1>8

(* What a manifest says. *)
LEMMA ManifestSays ==
  ASSUME NEW p, NEW t
  PROVE  LET m == ManifestContent(p, t)
         IN  /\ m.run = p.run /\ m.target = t /\ DOMAIN m.shards = DOMAIN Months
             /\ \A k \in DOMAIN Months :
                   /\ m.shards[k].name = ShardName(p.named, t, Months[k])
                   /\ m.shards[k].sha256 = ShardContent(p, t, Months[k])
  BY DEF ManifestContent

-----------------------------------------------------------------------------
(* The inductive invariant. *)

Types ==
    /\ shelf \in Seq(Documents)
    /\ DOMAIN published \in Together /\ published \in [DOMAIN published -> Nat]
    /\ stage \in {"start", "manifests", "pins", "loading"} \cup Ended
    /\ newest \in Manifests \cup {None}
    /\ manifests \in Seq(Manifests)
    /\ pins \in Seq([DOMAIN Months -> Nat])
    /\ loaded \in Seq([DOMAIN Months -> Shards])

Filed(i) == \E p \in DOMAIN published : published[p] > 0 /\ FiledBy(shelf[i], p)

OnShelf(manifest) ==
    \E i \in 1..Len(shelf) : shelf[i].type = "manifest" /\ shelf[i].content = manifest

(* How far the delivery has come. *)
Come ==
    /\ Len(loaded) <= Len(pins) /\ Len(pins) <= Len(manifests)
    /\ Len(manifests) <= Len(TargetOrder)
    /\ stage = "start" => Len(manifests) = 0
    /\ stage = "manifests" => Len(manifests) = Len(pins) /\ Len(pins) < Len(TargetOrder)
    /\ stage = "pins" => Len(manifests) = Len(pins) + 1
    /\ stage \in {"manifests", "pins"} => Len(loaded) = 0
    /\ stage \in {"loading", "loaded", "lease refused"} => Len(pins) = Len(TargetOrder)
    /\ stage = "loading" => Len(loaded) < Len(TargetOrder)
    /\ stage \in {"manifests", "pins", "loading"} => OnShelf(newest)

Leased(t) ==
    /\ manifests[t].run = newest.run /\ manifests[t].target = TargetOrder[t]
    /\ OnShelf(manifests[t])

Pinned(t) ==
    \A k \in DOMAIN Months :
        /\ pins[t][k] \in 1..Len(shelf)
        /\ shelf[pins[t][k]].type = "shard"
        /\ shelf[pins[t][k]].name = manifests[t].shards[k].name

Verbatim(t) ==
    \A k \in DOMAIN Months :
        loaded[t][k] = manifests[t].shards[k].sha256 /\ loaded[t][k].ensemble = Ensemble

SelectionInv ==
    /\ Types
    /\ \A i \in 1..Len(shelf) : Filed(i)
    /\ Come
    /\ \A t \in 1..Len(manifests) : Leased(t)
    /\ \A t \in 1..Len(pins) : Pinned(t)
    /\ \A t \in 1..Len(loaded) : Verbatim(t)

LEMMA InitSelection == Init => SelectionInv
  <1> SUFFICES ASSUME Init PROVE SelectionInv
    OBVIOUS
  <1>1. /\ shelf = <<>> /\ manifests = <<>> /\ pins = <<>> /\ loaded = <<>>
        /\ stage = "start" /\ newest = None
    BY DEF Init
  <1>2. PICK producers \in Together : published = [p \in producers |-> 0]
    BY DEF Init
  <1>3. Types
    BY <1>1, <1>2 DEF Types
  <1>4. Come
    BY <1>1, SelectionAssumption DEF Come
  <1> QED
    BY <1>1, <1>3, <1>4 DEF SelectionInv

-----------------------------------------------------------------------------
(* What a delivery holds stays as it is while the shelf grows. *)

Grown ==
    /\ Len(shelf') \in Nat /\ Len(shelf) <= Len(shelf')
    /\ \A i \in 1..Len(shelf) : shelf'[i] = shelf[i]

LEMMA Lengths ==
  ASSUME Types
  PROVE  /\ Len(shelf) \in Nat /\ DOMAIN shelf = 1..Len(shelf)
         /\ Len(manifests) \in Nat /\ DOMAIN manifests = 1..Len(manifests)
         /\ Len(pins) \in Nat /\ DOMAIN pins = 1..Len(pins)
         /\ Len(loaded) \in Nat /\ DOMAIN loaded = 1..Len(loaded)
         /\ Len(TargetOrder) \in Nat \ {0} /\ DOMAIN TargetOrder = 1..Len(TargetOrder)
         /\ DOMAIN published \subseteq Publications
  BY SelectionAssumption DEF Types, Publications

(* Each loaded target was pinned, and each pinned one leased. *)
LEMMA Order ==
  ASSUME SelectionInv
  PROVE  /\ \A t \in 1..Len(loaded) : t \in 1..Len(pins)
         /\ \A t \in 1..Len(pins) : t \in 1..Len(manifests)
         /\ stage \in {"loading", "loaded", "lease refused"} =>
               Len(pins) = Len(TargetOrder) /\ Len(manifests) = Len(TargetOrder)
         /\ stage = "loading" => Len(loaded) + 1 \in 1..Len(TargetOrder)
  <1>1. /\ Len(manifests) \in Nat /\ Len(pins) \in Nat /\ Len(loaded) \in Nat
        /\ Len(TargetOrder) \in Nat
    BY Lengths DEF SelectionInv
  <1>2. /\ Len(loaded) <= Len(pins) /\ Len(pins) <= Len(manifests)
        /\ Len(manifests) <= Len(TargetOrder)
        /\ stage \in {"loading", "loaded", "lease refused"} => Len(pins) = Len(TargetOrder)
        /\ stage = "loading" => Len(loaded) < Len(TargetOrder)
    BY DEF SelectionInv, Come
  <1> DEFINE a == Len(loaded)
             b == Len(pins)
             c == Len(manifests)
             d == Len(TargetOrder)
  <1> HIDE DEF a, b, c, d
  <1>3. a \in Nat /\ b \in Nat /\ c \in Nat /\ d \in Nat /\ a <= b /\ b <= c /\ c <= d
    BY <1>1, <1>2 DEF a, b, c, d
  <1>4. /\ \A t \in 1..a : t \in 1..b
        /\ \A t \in 1..b : t \in 1..c
        /\ b = d => c = d
        /\ a < d => a + 1 \in 1..d
    BY <1>3
  <1> QED
    BY <1>2, <1>4 DEF a, b, c, d

LEMMA StaysLeased ==
  ASSUME Types, Grown, NEW t, Leased(t), manifests'[t] = manifests[t], newest' = newest
  PROVE  Leased(t)'
  <1>1. OnShelf(manifests[t])'
    <2>1. PICK i \in 1..Len(shelf) : shelf[i].type = "manifest" /\ shelf[i].content = manifests[t]
      BY DEF Leased, OnShelf
    <2>2. i \in 1..Len(shelf') /\ shelf'[i] = shelf[i]
      BY Lengths DEF Grown
    <2> QED
      BY <2>1, <2>2 DEF OnShelf
  <1> QED
    BY <1>1 DEF Leased

LEMMA StaysPinned ==
  ASSUME Types, Grown, NEW t, Pinned(t), pins'[t] = pins[t], manifests'[t] = manifests[t]
  PROVE  Pinned(t)'
  BY Lengths DEF Grown, Pinned

LEMMA StaysVerbatim ==
  ASSUME NEW t, Verbatim(t), loaded'[t] = loaded[t], manifests'[t] = manifests[t]
  PROVE  Verbatim(t)'
  BY DEF Verbatim

(* A step that leaves the shelf alone leaves its documents filed. *)
LEMMA ShelfUntouched ==
  ASSUME SelectionInv, UNCHANGED <<shelf, published>>
  PROVE  Grown /\ \A i \in 1..Len(shelf') : Filed(i)'
  BY Lengths DEF SelectionInv, Grown, Filed

-----------------------------------------------------------------------------
(* Publish: a document lands. *)
LEMMA PublishKeeps ==
  ASSUME SelectionInv, NEW p \in DOMAIN published, Publish(p)
  PROVE  SelectionInv'
  <1> DEFINE d == DocumentAt(p, published[p] + 1)
  <1>1. /\ p \in Publications /\ published[p] + 1 \in 1..Size(p)
        /\ shelf' = Append(shelf, d)
        /\ published' = [published EXCEPT ![p] = @ + 1]
        /\ UNCHANGED <<stage, newest, manifests, pins, loaded>>
    <2>1. p \in Publications /\ published[p] \in Nat /\ published[p] < Size(p)
      BY Lengths DEF SelectionInv, Types, Publish
    <2>2. Size(p) \in Nat
      <3>1. p.targets \in Seq(PublishedTargets) /\ Months \in Seq(MonthSet)
        BY <2>1, SelectionAssumption
      <3>2. Len(p.targets) \in Nat /\ Len(Months) + 1 \in Nat
        BY <3>1
      <3>3. \A a, b \in Nat : a * b \in Nat
        OBVIOUS
      <3> QED
        BY <3>2, <3>3 DEF Size
    <2> QED
      BY <2>1, <2>2 DEF Publish, lease
  <1>2. d \in Documents /\ FiledBy(d, p)
    BY <1>1, DocumentsAreFiled
  <1> HIDE DEF d
  <1>3. Types /\ shelf \in Seq(Documents)
    BY DEF SelectionInv, Types
  <1>4. /\ shelf' \in Seq(Documents) /\ Len(shelf') = Len(shelf) + 1
        /\ \A i \in 1..Len(shelf) : shelf'[i] = shelf[i]
        /\ shelf'[Len(shelf) + 1] = d
    BY <1>1, <1>2, <1>3
  <1>5. Grown
    BY <1>3, <1>4, Lengths DEF Grown
  <1>6. /\ DOMAIN published' = DOMAIN published
        /\ published' \in [DOMAIN published -> Nat]
        /\ \A q \in DOMAIN published : published[q] > 0 => published'[q] > 0
        /\ published'[p] > 0
    BY <1>1, <1>3 DEF Types
  <1>7. Types'
    BY <1>1, <1>3, <1>4, <1>6 DEF Types
  <1>8. ASSUME NEW i \in 1..Len(shelf') PROVE Filed(i)'
    <2>1. CASE i \in 1..Len(shelf)
      <3>1. PICK q \in DOMAIN published : published[q] > 0 /\ FiledBy(shelf[i], q)
        BY <2>1 DEF SelectionInv, Filed
      <3>2. q \in DOMAIN published' /\ published'[q] > 0 /\ shelf'[i] = shelf[i]
        BY <1>4, <1>6, <2>1, <3>1
      <3> QED
        BY <3>1, <3>2 DEF Filed, FiledBy, ManifestOf, ShardOf
    <2>2. CASE i = Len(shelf) + 1
      <3>1. p \in DOMAIN published' /\ published'[p] > 0 /\ shelf'[i] = d
        BY <1>4, <1>6, <2>2
      <3> QED
        BY <1>2, <3>1 DEF Filed, FiledBy, ManifestOf, ShardOf
    <2> QED
      BY <1>3, <1>4, <2>1, <2>2, Lengths
  <1>9. Come'
    <2>1. OnShelf(newest) => OnShelf(newest)'
      BY <1>1, <1>3, <1>5, Lengths DEF OnShelf, Grown
    <2> QED
      BY <1>1, <2>1 DEF SelectionInv, Come
  <1>10. \A t \in 1..Len(manifests) : Leased(t)'
    BY <1>1, <1>3, <1>5, StaysLeased DEF SelectionInv
  <1>11. \A t \in 1..Len(pins) : Pinned(t)'
    BY <1>1, <1>3, <1>5, StaysPinned DEF SelectionInv
  <1>12. \A t \in 1..Len(loaded) : Verbatim(t)'
    BY <1>1, StaysVerbatim DEF SelectionInv
  <1> QED
    BY <1>1, <1>7, <1>8, <1>9, <1>10, <1>11, <1>12 DEF SelectionInv

(* A step that only ends the delivery, or nothing at all. *)
LEMMA StopKeeps ==
  ASSUME SelectionInv, UNCHANGED <<shelf, published, newest, manifests, pins, loaded>>,
         \/ stage' = stage
         \/ stage' \in {"refused", "store failed"}
         \/ stage = "loading" /\ stage' = "lease refused"
  PROVE  SelectionInv'
  <1>1. Grown /\ \A i \in 1..Len(shelf') : Filed(i)'
    BY ShelfUntouched
  <1>2. Types'
    BY DEF SelectionInv, Types, Ended
  <1>3. Come'
    BY DEF SelectionInv, Come, OnShelf
  <1>4. \A t \in 1..Len(manifests) : Leased(t)'
    BY <1>1, StaysLeased DEF SelectionInv
  <1>5. \A t \in 1..Len(pins) : Pinned(t)'
    BY <1>1, StaysPinned DEF SelectionInv
  <1>6. \A t \in 1..Len(loaded) : Verbatim(t)'
    BY StaysVerbatim DEF SelectionInv
  <1> QED
    BY <1>1, <1>2, <1>3, <1>4, <1>5, <1>6 DEF SelectionInv

(* An answer of the shelf is NoId or a document that was asked for. *)
LEMMA Answers ==
  ASSUME NEW found, NEW id \in Latest(found), id # NoId \/ found # {}
  PROVE  id \in found
  BY DEF Latest

(* Every manifest of the shelf is a publication's. *)
LEMMA ManifestsAreTyped ==
  ASSUME Types, NEW i \in 1..Len(shelf), shelf[i].type = "manifest"
  PROVE  shelf[i].content \in Manifests
  <1>1. shelf[i] \in Documents
    BY DEF Types
  <1> QED
    BY <1>1 DEF Documents

(* PickNewest: resolve_run's first question. *)
LEMMA PickNewestKeeps ==
  ASSUME SelectionInv, PickNewest
  PROVE  SelectionInv'
  <1>1. Types /\ Come /\ stage = "start"
        /\ UNCHANGED <<shelf, published, manifests, pins, loaded>>
    BY DEF SelectionInv, PickNewest
  <1>2. PICK id \in LatestManifest :
            IF id = NoId THEN stage' = "refused" /\ UNCHANGED newest
            ELSE stage' = "manifests" /\ newest' = shelf[id].content
    BY DEF PickNewest
  <1>3. CASE id = NoId
    BY <1>1, <1>2, <1>3, StopKeeps
  <1>4. CASE id # NoId
    <2>1. id \in 1..Len(shelf) /\ shelf[id].type = "manifest"
      BY <1>1, <1>4, Answers, Lengths DEF LatestManifest
    <2>2. stage' = "manifests" /\ newest' = shelf[id].content /\ newest' \in Manifests
      BY <1>1, <1>2, <1>4, <2>1, ManifestsAreTyped
    <2>3. OnShelf(newest)'
      BY <1>1, <2>1, <2>2 DEF OnShelf
    <2>4. Len(manifests) = 0 /\ Len(pins) = 0 /\ Len(loaded) = 0
      BY <1>1, Lengths DEF Come
    <2>5. Types'
      BY <1>1, <2>2 DEF Types
    <2>6. Come'
      BY <1>1, <2>2, <2>3, <2>4, Lengths DEF Come
    <2>7. \A i \in 1..Len(shelf') : Filed(i)'
      BY <1>1, ShelfUntouched
    <2> QED
      BY <1>1, <2>4, <2>5, <2>6, <2>7 DEF SelectionInv
  <1> QED
    BY <1>3, <1>4

(* Lease: one more manifest, of the run and of the target. *)
LEMMA LeaseKeeps ==
  ASSUME SelectionInv, stage = "manifests", NEW manifest \in Manifests, Lease(manifest),
         OnShelf(manifest), manifest.run = newest.run, manifest.target = Target,
         UNCHANGED <<shelf, published, newest, pins, loaded>>
  PROVE  SelectionInv'
  <1>1. Types /\ Come /\ manifests \in Seq(Manifests)
    BY DEF SelectionInv, Types
  <1>2. Grown /\ \A i \in 1..Len(shelf') : Filed(i)'
    BY ShelfUntouched
  <1>3. stage' = "pins" /\ manifests' = Append(manifests, manifest)
    BY DEF Lease
  <1>4. /\ manifests' \in Seq(Manifests) /\ Len(manifests') = Len(manifests) + 1
        /\ \A t \in 1..Len(manifests) : manifests'[t] = manifests[t]
        /\ manifests'[Len(manifests) + 1] = manifest
    BY <1>1, <1>3
  <1>5. /\ Len(manifests) = Len(pins) /\ Len(pins) < Len(TargetOrder) /\ Len(loaded) = 0
        /\ OnShelf(newest)
    BY <1>1 DEF Come
  <1>6. Types'
    BY <1>1, <1>3, <1>4 DEF Types
  <1>7. Come'
    <2>1. /\ Len(manifests) \in Nat /\ Len(pins) \in Nat /\ Len(loaded) \in Nat
          /\ Len(TargetOrder) \in Nat /\ Len(pins') = Len(pins) /\ Len(loaded') = Len(loaded)
      BY <1>1, Lengths
    <2>2. OnShelf(newest)'
      BY <1>5 DEF OnShelf
    <2> QED
      BY <1>3, <1>4, <1>5, <2>1, <2>2 DEF Come
  <1>8. ASSUME NEW t \in 1..Len(manifests') PROVE Leased(t)'
    <2>1. CASE t \in 1..Len(manifests)
      BY <1>1, <1>2, <1>4, <2>1, StaysLeased DEF SelectionInv
    <2>2. CASE t = Len(manifests) + 1
      <3>1. manifests'[t] = manifest /\ TargetOrder[t] = manifest.target
        BY <1>4, <1>5, <2>2 DEF Target
      <3>2. OnShelf(manifests[t])'
        BY <3>1 DEF OnShelf
      <3> QED
        BY <3>1, <3>2 DEF Leased
    <2> QED
      BY <1>1, <1>4, <2>1, <2>2, Lengths
  <1>9. \A t \in 1..Len(pins) : Pinned(t)'
    BY <1>1, <1>2, <1>4, <1>5, StaysPinned DEF SelectionInv
  <1> QED
    BY <1>2, <1>5, <1>6, <1>7, <1>8, <1>9 DEF SelectionInv

(* ManifestFor: the manifest leased is of the newest one's run, whichever   *)
(* document the query answers with.                                         *)
LEMMA ManifestForKeeps ==
  ASSUME SelectionInv, ManifestFor
  PROVE  SelectionInv'
  <1>1. /\ Types /\ Come /\ stage = "manifests" /\ OnShelf(newest)
        /\ UNCHANGED <<shelf, published, newest, pins, loaded>>
    BY DEF SelectionInv, ManifestFor, Come
  <1>2. CASE newest.target = Target
    <2>1. PICK i \in 1..Len(shelf) : shelf[i].type = "manifest" /\ shelf[i].content = newest
      BY <1>1 DEF OnShelf
    <2>2. newest \in Manifests
      BY <1>1, <2>1, ManifestsAreTyped
    <2>3. Lease(newest)
      BY <1>2 DEF ManifestFor
    <2> QED
      BY <1>1, <1>2, <2>2, <2>3, LeaseKeeps
  <1>3. CASE newest.target # Target
    <2>1. PICK id \in LatestNamed("manifest", ManifestName(newest.run, Target)) :
              IF id = NoId \/ ~OfTheRunAndTarget(shelf[id].content)
              THEN stage' = "refused" /\ UNCHANGED manifests
              ELSE Lease(shelf[id].content)
      BY <1>3 DEF ManifestFor
    <2>2. CASE id = NoId \/ ~OfTheRunAndTarget(shelf[id].content)
      BY <1>1, <2>1, <2>2, StopKeeps
    <2>3. CASE ~(id = NoId \/ ~OfTheRunAndTarget(shelf[id].content))
      <3>1. id \in 1..Len(shelf) /\ shelf[id].type = "manifest"
        BY <1>1, <2>3, Answers, Lengths DEF LatestNamed
      <3>2. shelf[id].content \in Manifests /\ OnShelf(shelf[id].content)
        BY <1>1, <3>1, ManifestsAreTyped DEF OnShelf
      <3>3. shelf[id].content.run = newest.run /\ shelf[id].content.target = Target
        BY <2>3 DEF OfTheRunAndTarget
      <3> QED
        BY <1>1, <2>1, <2>3, <3>2, <3>3, LeaseKeeps
    <2> QED
      BY <2>2, <2>3
  <1> QED
    BY <1>2, <1>3

(* PinShards: every id pinned is of a shard filed under the listed name. *)
LEMMA PinShardsKeeps ==
  ASSUME SelectionInv, PinShards
  PROVE  SelectionInv'
  <1> DEFINE listed == manifests[Len(manifests)].shards
  <1>1. /\ Types /\ Come /\ stage = "pins"
        /\ UNCHANGED <<shelf, published, newest, manifests, loaded>>
    BY DEF SelectionInv, PinShards
  <1>2. /\ Len(manifests) = Len(pins) + 1 /\ Len(loaded) = 0
        /\ Len(manifests) \in 1..Len(TargetOrder) /\ OnShelf(newest)
    BY <1>1, Lengths DEF Come
  <1>3. manifests[Len(manifests)] \in Manifests /\ DOMAIN listed = DOMAIN Months
    <2>1. manifests[Len(manifests)] \in Manifests
      BY <1>1, <1>2, Lengths DEF Types
    <2>2. PICK p \in Publications, t \in PublishedTargets :
              manifests[Len(manifests)] = ManifestContent(p, t)
      BY <2>1 DEF Manifests
    <2> QED
      BY <2>1, <2>2, ManifestSays
  <1>4. CASE \E k \in DOMAIN listed : LatestNamed("shard", listed[k].name) = {NoId}
    <2>1. stage' = "refused" /\ UNCHANGED pins
      BY <1>4 DEF PinShards
    <2> QED
      BY <1>1, <2>1, StopKeeps
  <1>5. CASE ~\E k \in DOMAIN listed : LatestNamed("shard", listed[k].name) = {NoId}
    <2>1. PICK ids \in [DOMAIN listed -> DOMAIN shelf] :
              /\ \A k \in DOMAIN listed : ids[k] \in LatestNamed("shard", listed[k].name)
              /\ pins' = Append(pins, ids)
      BY <1>5 DEF PinShards
    <2>2. ASSUME NEW k \in DOMAIN Months
          PROVE  /\ ids[k] \in 1..Len(shelf) /\ shelf[ids[k]].type = "shard"
                 /\ shelf[ids[k]].name = listed[k].name
      <3> DEFINE found == {i \in DOMAIN shelf :
                              shelf[i].type = "shard" /\ shelf[i].name = listed[k].name}
      <3>1. ids[k] \in Latest(found) /\ Latest(found) # {NoId}
        BY <1>3, <1>5, <2>1, <2>2 DEF LatestNamed
      <3>2. found # {}
        BY <3>1 DEF Latest
      <3>3. ids[k] \in found
        <4> HIDE DEF found
        <4> QED
          BY <3>1, <3>2, Answers
      <3> QED
        BY <1>1, <3>3, Lengths
    <2>3. ids \in [DOMAIN Months -> Nat]
      BY <1>1, <1>3, <2>1, Lengths
    <2>4. /\ pins' \in Seq([DOMAIN Months -> Nat]) /\ Len(pins') = Len(pins) + 1
          /\ \A t \in 1..Len(pins) : pins'[t] = pins[t]
          /\ pins'[Len(pins) + 1] = ids
      <3>1. pins \in Seq([DOMAIN Months -> Nat])
        BY <1>1 DEF Types
      <3> QED
        BY <2>1, <2>3, <3>1
    <2>5. stage' = IF AtTheLastTarget THEN "loading" ELSE "manifests"
      BY <1>5 DEF PinShards
    <2>6. Types'
      BY <1>1, <2>4, <2>5 DEF Types
    <2>7. Come'
      <3>1. OnShelf(newest)'
        BY <1>1, <1>2 DEF OnShelf
      <3>2. /\ Len(pins) \in Nat /\ Len(TargetOrder) \in Nat
            /\ Len(manifests') = Len(manifests) /\ Len(loaded') = Len(loaded)
        BY <1>1, Lengths
      <3> QED
        BY <1>2, <2>4, <2>5, <3>1, <3>2 DEF Come, AtTheLastTarget
    <2>8. Grown /\ \A i \in 1..Len(shelf') : Filed(i)'
      BY <1>1, ShelfUntouched
    <2>9. \A t \in 1..Len(manifests) : Leased(t)'
      BY <1>1, <2>8, StaysLeased DEF SelectionInv
    <2>10. ASSUME NEW t \in 1..Len(pins') PROVE Pinned(t)'
      <3>1. CASE t \in 1..Len(pins)
        BY <1>1, <2>4, <2>8, <3>1, StaysPinned DEF SelectionInv
      <3>2. CASE t = Len(manifests)
        <4>1. pins'[t] = ids /\ manifests'[t].shards = listed /\ shelf' = shelf
          BY <1>1, <1>2, <2>4, <3>2
        <4> QED
          BY <2>2, <4>1 DEF Pinned
      <3> QED
        BY <1>1, <1>2, <2>4, <3>1, <3>2, Lengths
    <2> QED
      BY <1>1, <1>2, <2>6, <2>7, <2>8, <2>9, <2>10 DEF SelectionInv
  <1> QED
    BY <1>4, <1>5

(* Load: what is loaded is what the manifest pinned. *)
LEMMA LoadKeeps ==
  ASSUME SelectionInv, Load
  PROVE  SelectionInv'
  <1> DEFINE t == Len(loaded) + 1
             fetched == [k \in DOMAIN pins[t] |-> shelf[pins[t][k]].content]
  <1>1. /\ Types /\ Come /\ stage = "loading" /\ OnShelf(newest)
        /\ UNCHANGED <<shelf, published, newest, manifests, pins>>
    BY DEF SelectionInv, Load, lease, Come
  <1>2. /\ t \in 1..Len(TargetOrder) /\ t \in 1..Len(pins) /\ t \in 1..Len(manifests)
        /\ Len(manifests) = Len(TargetOrder) /\ Len(pins) = Len(TargetOrder)
        /\ Len(TargetOrder) \in Nat /\ Len(loaded) \in Nat
    BY <1>1, Lengths, Order
  <1>3. CASE ~Verified(manifests[t], fetched)
    <2>1. stage' = "lease refused" /\ UNCHANGED loaded
      BY <1>3 DEF Load
    <2> QED
      BY <1>1, <2>1, StopKeeps
  <1>4. CASE Verified(manifests[t], fetched)
    <2>1. /\ loaded' = Append(loaded, fetched)
          /\ stage' = IF t = Len(TargetOrder) THEN "loaded" ELSE "loading"
      BY <1>4 DEF Load
    <2>2. DOMAIN fetched = DOMAIN Months
      BY <1>1, <1>2 DEF Types
    <2>3. ASSUME NEW k \in DOMAIN Months
          PROVE  fetched[k] = manifests[t].shards[k].sha256 /\ fetched[k].ensemble = Ensemble
      BY <1>4, <2>2 DEF Verified
    <2>4. fetched \in [DOMAIN Months -> Shards]
      <3>1. manifests[t] \in Manifests
        BY <1>1, <1>2 DEF Types
      <3>2. PICK p \in Publications, x \in PublishedTargets : manifests[t] = ManifestContent(p, x)
        BY <3>1 DEF Manifests
      <3>3. ASSUME NEW k \in DOMAIN Months PROVE fetched[k] \in Shards
        <4>1. fetched[k] = ShardContent(p, x, Months[k])
          BY <2>3, <3>2, ManifestSays
        <4>2. Months[k] \in MonthSet
          BY DEF MonthSet
        <4> QED
          BY <4>1, <4>2 DEF Shards
      <3> QED
        BY <2>2, <3>3
    <2> HIDE DEF fetched
    <2>5. /\ loaded' \in Seq([DOMAIN Months -> Shards]) /\ Len(loaded') = t
          /\ \A i \in 1..Len(loaded) : loaded'[i] = loaded[i]
          /\ loaded'[t] = fetched
      <3>1. loaded \in Seq([DOMAIN Months -> Shards])
        BY <1>1 DEF Types
      <3> QED
        BY <2>1, <2>4, <3>1
    <2>6. Types'
      BY <1>1, <2>1, <2>5 DEF Types, Ended
    <2>7. Come'
      <3>1. OnShelf(newest)'
        BY <1>1 DEF OnShelf
      <3>2. Len(pins') = Len(pins) /\ Len(manifests') = Len(manifests)
        BY <1>1
      <3> QED
        BY <1>2, <2>1, <2>5, <3>1, <3>2 DEF Come
    <2>8. Grown /\ \A i \in 1..Len(shelf') : Filed(i)'
      BY <1>1, ShelfUntouched
    <2>9. \A i \in 1..Len(manifests) : Leased(i)'
      BY <1>1, <2>8, StaysLeased DEF SelectionInv
    <2>10. \A i \in 1..Len(pins) : Pinned(i)'
      BY <1>1, <2>8, StaysPinned DEF SelectionInv
    <2>11. ASSUME NEW i \in 1..Len(loaded') PROVE Verbatim(i)'
      <3>1. CASE i \in 1..Len(loaded)
        BY <1>1, <2>5, <3>1, StaysVerbatim DEF SelectionInv
      <3>2. CASE i = t
        <4>1. loaded'[i] = fetched /\ manifests'[i] = manifests[t]
          BY <1>1, <2>5, <3>2
        <4> QED
          BY <2>3, <4>1 DEF Verbatim
      <3> QED
        BY <1>1, <2>5, <3>1, <3>2, Lengths
    <2> QED
      BY <1>1, <2>6, <2>7, <2>8, <2>9, <2>10, <2>11 DEF SelectionInv
  <1> QED
    BY <1>3, <1>4

LEMMA StepKeeps ==
  ASSUME SelectionInv, [Next]_vars
  PROVE  SelectionInv'
  <1>1. CASE Deliver
    BY <1>1, PickNewestKeeps, ManifestForKeeps, PinShardsKeeps, LoadKeeps DEF Deliver
  <1>2. CASE StoreFails
    <2>1. /\ UNCHANGED <<shelf, published, newest, manifests, pins, loaded>>
          /\ \/ stage' = "store failed"
             \/ stage = "loading" /\ stage' = "lease refused"
      BY <1>2 DEF StoreFails, lease, FetchFailed
    <2> QED
      BY <2>1, StopKeeps
  <1>3. CASE \E p \in DOMAIN published : Publish(p)
    BY <1>3, PublishKeeps
  <1>4. CASE UNCHANGED vars
    BY <1>4, StopKeeps DEF vars
  <1> QED
    BY <1>1, <1>2, <1>3, <1>4 DEF Next

-----------------------------------------------------------------------------
(* The inductive invariant. *)
THEOREM SelectionHolds == Spec => []SelectionInv
  <1>1. Init => SelectionInv
    BY InitSelection
  <1>2. SelectionInv /\ [Next]_vars => SelectionInv'
    BY StepKeeps
  <1> QED
    BY <1>1, <1>2, PTL DEF Spec

(* The model's type invariant. *)
THEOREM SelectionTypes == Spec => []TypeOK
  <1>1. ASSUME SelectionInv PROVE TypeOK
    <2>1. Types
      BY <1>1 DEF SelectionInv
    <2>2. ASSUME NEW i \in DOMAIN shelf
          PROVE  \/ shelf[i].type = "shard" /\ shelf[i].content \in Shards
                 \/ shelf[i].type = "manifest" /\ shelf[i].content \in Manifests
      <3>1. shelf[i] \in Documents
        BY <2>1 DEF Types
      <3> QED
        BY <3>1 DEF Documents
    <2>3. ASSUME NEW t \in DOMAIN pins PROVE pins[t] \in [DOMAIN Months -> DOMAIN shelf]
      <3>1. pins[t] \in [DOMAIN Months -> Nat] /\ t \in 1..Len(pins)
        BY <2>1, Lengths DEF Types
      <3>2. \A k \in DOMAIN Months : pins[t][k] \in DOMAIN shelf
        BY <1>1, <2>1, <3>1, Lengths DEF SelectionInv, Pinned
      <3> QED
        BY <3>1, <3>2
    <2>4. \A t \in DOMAIN manifests : manifests[t] \in Manifests
      BY <2>1 DEF Types
    <2>5. ASSUME NEW t \in DOMAIN loaded, NEW k \in DOMAIN loaded[t] PROVE loaded[t][k] \in Shards
      <3>1. loaded[t] \in [DOMAIN Months -> Shards]
        BY <2>1 DEF Types
      <3> QED
        BY <3>1
    <2> QED
      BY <2>1, <2>2, <2>3, <2>4, <2>5 DEF Types, TypeOK
  <1> QED
    BY <1>1, SelectionHolds, PTL

(* What a lease's manifest is: one that a publication committed. *)
LEMMA LeaseOrigin ==
  ASSUME SelectionInv, NEW t \in 1..Len(manifests)
  PROVE  \E p \in DOMAIN published, i \in 1..Len(shelf) :
            /\ published[p] > 0 /\ shelf[i].type = "manifest"
            /\ manifests[t] = ManifestContent(p, TargetOrder[t])
            /\ shelf[i].content = manifests[t]
  <1>1. Leased(t)
    BY DEF SelectionInv
  <1>2. PICK i \in 1..Len(shelf) : shelf[i].type = "manifest" /\ shelf[i].content = manifests[t]
    BY <1>1 DEF Leased, OnShelf
  <1>3. PICK p \in DOMAIN published : published[p] > 0 /\ FiledBy(shelf[i], p)
    BY DEF SelectionInv, Filed
  <1>4. PICK x \in PublishedTargets : ManifestOf(shelf[i], p, x)
    BY <1>2, <1>3 DEF FiledBy, ShardOf
  <1>5. manifests[t] = ManifestContent(p, x) /\ x = TargetOrder[t]
    BY <1>1, <1>2, <1>4, ManifestSays DEF ManifestOf, Leased
  <1> QED
    BY <1>2, <1>3, <1>5

(* No torn target: each loaded target is what one publication committed     *)
(* for it by its manifest.                                                  *)
THEOREM TargetsHold == Spec => []TargetsAreWhole
  <1>1. ASSUME SelectionInv PROVE TargetsAreWhole
    <2>1. Types /\ Come
      BY <1>1 DEF SelectionInv
    <2> SUFFICES ASSUME NEW t \in DOMAIN loaded
                 PROVE  \E p \in Publications :
                            /\ loaded[t] = [k \in DOMAIN Months |->
                                                ShardContent(p, TargetOrder[t], Months[k])]
                            /\ \E i \in DOMAIN shelf :
                                  shelf[i].content = ManifestContent(p, TargetOrder[t])
      BY DEF TargetsAreWhole
    <2>2. t \in 1..Len(loaded) /\ t \in 1..Len(manifests)
      BY <1>1, <2>1, Lengths, Order
    <2>3. PICK p \in DOMAIN published, i \in 1..Len(shelf) :
              /\ manifests[t] = ManifestContent(p, TargetOrder[t])
              /\ shelf[i].content = manifests[t]
      BY <1>1, <2>2, LeaseOrigin
    <2>4. loaded[t] \in [DOMAIN Months -> Shards]
      BY <2>1 DEF Types
    <2>5. \A k \in DOMAIN Months : loaded[t][k] = ShardContent(p, TargetOrder[t], Months[k])
      BY <1>1, <2>2, <2>3, ManifestSays DEF SelectionInv, Verbatim
    <2>6. loaded[t] = [k \in DOMAIN Months |-> ShardContent(p, TargetOrder[t], Months[k])]
      BY <2>4, <2>5
    <2> QED
      BY <2>1, <2>3, <2>6, Lengths
  <1> QED
    BY <1>1, SelectionHolds, PTL

(* The leases are of one run, and what is loaded under them is of that run  *)
(* and of the declared ensemble, which a lease is not checked for before.   *)
THEOREM OneRunHolds == Spec => []OneRunOneEnsemble
  <1>1. ASSUME SelectionInv PROVE OneRunOneEnsemble
    <2>1. Types /\ Come
      BY <1>1 DEF SelectionInv
    <2>2. \A t \in DOMAIN manifests : manifests[t].run = newest.run
      BY <1>1, <2>1, Lengths DEF SelectionInv, Leased
    <2>3. ASSUME NEW t \in DOMAIN loaded, NEW k \in DOMAIN loaded[t]
          PROVE  loaded[t][k].run = newest.run /\ loaded[t][k].ensemble = Ensemble
      <3>1. t \in 1..Len(loaded) /\ t \in 1..Len(manifests)
        BY <1>1, <2>1, Lengths, Order
      <3>2. k \in DOMAIN Months
        BY <2>1 DEF Types
      <3>3. PICK p \in DOMAIN published : manifests[t] = ManifestContent(p, TargetOrder[t])
        BY <1>1, <3>1, LeaseOrigin
      <3>4. manifests[t].run = p.run
        BY <3>3, ManifestSays
      <3>5. loaded[t][k] = ShardContent(p, TargetOrder[t], Months[k])
        BY <1>1, <3>1, <3>2, <3>3, ManifestSays DEF SelectionInv, Verbatim
      <3>6. loaded[t][k].run = p.run
        BY <3>5 DEF ShardContent
      <3> QED
        BY <1>1, <2>2, <3>1, <3>2, <3>4, <3>6, <2>1, Lengths DEF SelectionInv, Verbatim
    <2> QED
      BY <2>2, <2>3 DEF OneRunOneEnsemble
  <1> QED
    BY <1>1, SelectionHolds, PTL

(* The heavy load starts only when every declared target of the run was     *)
(* committed by its manifest.                                               *)
THEOREM AwaitsHolds == Spec => []AwaitsAllTargets
  <1>1. ASSUME SelectionInv PROVE AwaitsAllTargets
    <2> SUFFICES ASSUME stage \in {"loading", "loaded", "lease refused"},
                        NEW t \in DOMAIN TargetOrder
                 PROVE  \E i \in DOMAIN shelf : /\ shelf[i].type = "manifest"
                                                /\ shelf[i].content.run = newest.run
                                                /\ shelf[i].content.target = TargetOrder[t]
      BY DEF AwaitsAllTargets
    <2>1. Types /\ Come
      BY <1>1 DEF SelectionInv
    <2>2. t \in 1..Len(manifests)
      BY <1>1, <2>1, Lengths, Order
    <2> QED
      BY <1>1, <2>1, <2>2, Lengths DEF SelectionInv, Leased, OnShelf
  <1> QED
    BY <1>1, SelectionHolds, PTL

-----------------------------------------------------------------------------
(* The pinned run loads. *)

(* Two publications whose documents are filed under a run republish it. *)
LEMMA TwoPublishIt ==
  ASSUME Types, NEW r, NEW p \in DOMAIN published, NEW q \in DOMAIN published, p # q,
         p.named = r, q.named = r, published[p] > 0, published[q] > 0
  PROVE  Republished(r)
  <1> DEFINE found == {x \in DOMAIN published : (x.run = r \/ x.named = r) /\ published[x] > 0}
  <1>1. IsFiniteSet(DOMAIN published)
    BY SelectionAssumption DEF Types
  <1>2. IsFiniteSet(found) /\ {p, q} \subseteq found
    BY <1>1, FS_Subset
  <1>3. IsFiniteSet({p}) /\ Cardinality({p}) = 1
    BY FS_Singleton
  <1>4. {p, q} = {p} \cup {q} /\ q \notin {p}
    OBVIOUS
  <1>5. Cardinality({p, q}) = 2
    <2>1. Cardinality({p} \cup {q}) = Cardinality({p}) + 1
      BY <1>3, <1>4, FS_AddElement
    <2> QED
      BY <1>3, <1>4, <2>1
  <1>6. Cardinality({p, q}) <= Cardinality(found) /\ Cardinality(found) \in Nat
    BY <1>2, FS_Subset, FS_CardinalityType
  <1> QED
    BY <1>5, <1>6 DEF Republished

(* A pinned shard is one that a publication filed under the name the        *)
(* manifest lists.                                                          *)
LEMMA PinOrigin ==
  ASSUME SelectionInv, NEW t \in 1..Len(pins), NEW k \in DOMAIN Months, NEW p,
         manifests[t] = ManifestContent(p, TargetOrder[t])
  PROVE  \E q \in DOMAIN published :
            /\ published[q] > 0 /\ q.named = p.named
            /\ shelf[pins[t][k]].content = ShardContent(q, TargetOrder[t], Months[k])
  <1> DEFINE d == shelf[pins[t][k]]
  <1>1. /\ pins[t][k] \in 1..Len(shelf) /\ d.type = "shard"
        /\ d.name = manifests[t].shards[k].name
    BY DEF SelectionInv, Pinned
  <1>2. d.name = ShardName(p.named, TargetOrder[t], Months[k])
    BY <1>1, ManifestSays
  <1>3. PICK q \in DOMAIN published : published[q] > 0 /\ FiledBy(d, q)
    BY <1>1 DEF SelectionInv, Filed
  <1> HIDE DEF d
  <1>4. PICK x \in PublishedTargets, m \in MonthSet : ShardOf(d, q, x, m)
    BY <1>1, <1>3 DEF FiledBy, ManifestOf
  <1>5. q.named = p.named /\ x = TargetOrder[t] /\ m = Months[k]
    BY <1>2, <1>4 DEF ShardOf, ShardName
  <1> QED
    BY <1>3, <1>4, <1>5 DEF ShardOf, d

(* Why a target does not verify. *)
LEMMA Unverified ==
  ASSUME SelectionInv, NEW turn \in 1..Len(pins), NEW fetched,
         fetched = [k \in DOMAIN pins[turn] |-> shelf[pins[turn][k]].content],
         ~Verified(manifests[turn], fetched)
  PROVE  \/ Republished(newest.run)
         \/ \E p \in DOMAIN published :
               p.run = newest.run /\ (p.named # p.run \/ p.ensemble # Ensemble)
  <1>1. Types
    BY DEF SelectionInv
  <1>2. turn \in 1..Len(manifests)
    BY Order
  <1>3. DOMAIN fetched = DOMAIN Months
    <2>1. pins \in Seq([DOMAIN Months -> Nat])
      BY <1>1 DEF Types
    <2>2. pins[turn] \in [DOMAIN Months -> Nat]
      BY <2>1
    <2> QED
      BY <2>2
  <1>4. PICK k \in DOMAIN Months :
            \/ fetched[k] # manifests[turn].shards[k].sha256
            \/ fetched[k].target # manifests[turn].target
            \/ fetched[k].ensemble # Ensemble
    BY <1>3 DEF Verified
  <1>5. PICK p \in DOMAIN published :
            published[p] > 0 /\ manifests[turn] = ManifestContent(p, TargetOrder[turn])
    BY <1>2, LeaseOrigin
  <1>6. PICK q \in DOMAIN published :
            /\ published[q] > 0 /\ q.named = p.named
            /\ shelf[pins[turn][k]].content = ShardContent(q, TargetOrder[turn], Months[k])
    BY <1>5, PinOrigin
  <1>7. fetched[k] = ShardContent(q, TargetOrder[turn], Months[k])
    BY <1>3, <1>6
  <1>8. newest.run = p.run
    <2>1. manifests[turn].run = newest.run
      BY <1>2 DEF SelectionInv, Leased
    <2>2. manifests[turn].run = p.run
      BY <1>5, ManifestSays
    <2> QED
      BY <2>1, <2>2
  <1>9. CASE q = p
    <2>1. /\ manifests[turn].shards[k].sha256 = fetched[k]
          /\ manifests[turn].target = TargetOrder[turn]
      BY <1>5, <1>7, <1>9, ManifestSays
    <2>2. fetched[k].target = TargetOrder[turn] /\ fetched[k].ensemble = p.ensemble
      BY <1>7, <1>9 DEF ShardContent
    <2> QED
      BY <1>4, <1>8, <2>1, <2>2
  <1>10. CASE q # p /\ p.named = p.run
    BY <1>1, <1>5, <1>6, <1>8, <1>10, TwoPublishIt
  <1> QED
    BY <1>8, <1>9, <1>10

LEMMA RefusedLoad ==
  ASSUME SelectionInv, Load, stage' = "lease refused"
  PROVE  \/ Republished(newest.run)
         \/ \E p \in DOMAIN published :
               p.run = newest.run /\ (p.named # p.run \/ p.ensemble # Ensemble)
  <1>1. stage = "loading" /\ Len(loaded) + 1 \in 1..Len(pins)
    BY Order DEF Load
  <1> QED
    BY <1>1, Unverified DEF Load

(* A store that raises in the middle of a load is not taken for a bad       *)
(* manifest; a load that is refused has a republished run, a misfiled one   *)
(* or another ensemble behind it.                                           *)
THEOREM PinnedHolds == Spec => PinnedRunsLoad
  <1> DEFINE Caused == \/ Republished(newest.run)
                       \/ \E p \in DOMAIN published :
                             p.run = newest.run /\ (p.named # p.run \/ p.ensemble # Ensemble)
             Refuses == stage = "loading" /\ stage' = "lease refused"
  <1>1. ASSUME SelectionInv, Next, Refuses PROVE Caused
    <2>1. ~StoreFails
      BY <1>1 DEF StoreFails, StoreErrors, FetchFailed, FetchError
    <2>2. \A p \in DOMAIN published : ~Publish(p)
      BY <1>1 DEF Publish
    <2>3. Load
      BY <1>1, <2>1, <2>2 DEF Next, Deliver, PickNewest, ManifestFor, PinShards
    <2> QED
      BY <1>1, <2>3, RefusedLoad
  <1>2. SelectionInv /\ [Next]_vars => [Refuses => Caused]_vars
    BY <1>1
  <1>3. Spec => [][Refuses => Caused]_vars
    BY <1>2, SelectionHolds, PTL DEF Spec
  <1> QED
    BY <1>3 DEF PinnedRunsLoad
=============================================================================
