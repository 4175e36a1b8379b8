# A TLA+ model of views-postprocessing

`views-postprocessing` is the last leg of the VIEWS forecasting pipeline. It takes one
producer run off a shared shelf ("Hop A"), checks it, and delivers it to a partner's
bucket ("Hop B") together with the historical actuals. The whole contract rests on an
order of uploads into a store that has no transactions, no deletion, no ordered queries
and, sometimes, no metadata document for a file it accepted. This directory models that
contract as the code implements it, checks it with TLC on small instances, and proves
its safety with TLAPS for every instance.

Paths below are relative to the repository's root; `contract/`, `delivery/`, `unfao/` and
`crafd/` are packages of `views_postprocessing/`.

## 1. Inventory

| Component | Code | State it keeps | Operations | Module |
|---|---|---|---|---|
| Store port, partner bucket | `unfao/store_port.py` (the store itself is pipeline-core's) | files and metadata documents | `upload`, `latest_file_id`, `documents`, `download` | `PartnerStore` |
| Hop-B sink | `contract/wire/sink.py`, with `shard`, `sidecar`, `run_manifest`, `naming`, `delivery/draws.py`, `delivery/parity.py` | staging tree, shard records, run-level facts, upload ledger | `deliver_run` | `WireSink` |
| What the sink promises | ADR-013 §4.2, §6 | which runs a consumer can see | publish | `Publication` |
| Delivery manager | `unfao/managers/unfao.py`; `crafd/managers/crafd.py` is a copy | historical frame, boundary, resolution | `_read`, `_validate`, `_save` | `DeliveryManager` |
| What a launch declares | `crafd/managers/crafd.py`, `crafd/product.py`, `*/appwrite_env.py`, `contract/launch_config.py` | none of its own | the assertions, three stores and the questions they are asked | `PartnerLaunch` |
| Read-back | `delivery/findability.py` | none | `verify`: two selections, four listings | `DeliveryManager` |
| Coverage, observed range, historical artifact, provenance | `delivery/coverage.py`, `delivery/observed_range.py`, `contract/source_metadata.py`, `contract/historical.py`, `delivery/provenance.py` | none | guards of the manager | `DeliveryManager`, `GaulLookup` |
| Run selection and lease | `contract/wire/source_selection.py` | manifests, pinned file ids | `resolve_run`, `TargetLease.load` | `SourceSelection` |
| Shard assembly | `contract/track_a_source.py`, `contract/frames.py` | preallocated buffer, months seen | `frames_for_target`, the lease's curation, the cut by `month_slice` | `TrackASource` |
| GAUL lookup | `scripts/build_gaul_lookup.py`, `contract/gaul_lookup.py`, `contract/gaul_schema.py` | one parquet file, rewritten by hand | `build`; `load`, `version` and the two joins | `GaulLookup`; the constants `Lookups` and `Blanks` elsewhere |
| Header codec, fixture builder | `contract/wire/header.py`, `scripts/build_wire_fixture.py` | none | pure or one-shot | not modelled |

How they interact. `execute()` (pipeline-core) runs the manager's phases in one process:
`_read` fetches and clips the history, then resolves a run to *leases* (manifests and
pinned ids, no heavy bytes); `_validate` checks the history's coverage; `_save` calls
`deliver_run`, which loads one lease at a time, stages its shards, then the sidecar and the
run manifest, and, if uploading was declared, uploads them in that order. The historical
artifact follows, and `findability.verify` reads the delivery back with the consumer's own
queries. Producers and other launches write to the same stores at the same time. The GAUL
lookup is a file a person rebuilds from the datafactory's parquets; a launch reads its table
once and its stamp later. There are
no threads, callbacks or locks; a call either returns or raises, nothing is retried inside
a launch, and nothing is undone. A retry is a new launch.

What is hard here. Two launches interleaving in one bucket and one staging directory, whose
files are written in place, hashed by a second read and uploaded by a third; a
store call that fails after it took effect; a crash between two uploads; producers
publishing between two queries; unordered answers; deduplication of identical bytes; one
leg failing after the other was committed; the slot arithmetic of the buffer; a lookup
rebuilt, or a producer ingesting, in the middle of a build or a delivery; declarations that
are asked for at four different moments of a launch. The list,
with source lines, is `hazards` in `PROJECT.json`.

What makes each component correct:

* sink: a visible manifest is preceded by all it lists; retries agree with what they
  repeat; both as far as no other launch wrote in the directory meanwhile; nothing unfit
  leaves the process, no collapsed payload is even staged; the torn-run refusal is an accurate
  inventory, whoever else is at work;
* manager: *complete* means servable; *invisible* is never said of a sound delivery; the
  forecast precedes its history; fabricated months are clipped or declared; uncovered
  history stops both legs; a launch that has begun ends;
* selection: no torn target, one run, one ensemble, all targets awaited, pinned ids stay
  loadable, a resolution that has begun ends;
* assembly: the buffer filled in place equals the shards stacked, distinct declared months
  have one header each, the product is the stack less the excluded cells and a full grid is
  not refused for them, and the cut by month gives the producer's shards back;
* lookup: what reaches the partner is the producer's value for that cell, one row a cell, the
  same on both legs; a stamp names the ingestion it digests;
* launch: a misdeclared launch leaves no trace, each refusal says all there is to its cause,
  and the repairs end in a delivery the consumer finds.

## 2. Modules

```
Publication            abstract: a run appears whole, at once, or never
PartnerStore           bucket, upload outcomes, queries, the consumer
  `- WireSink          deliver_run            --- implements --> Publication
       |- WireSinkProofs                         staging and bucket
       |    `- WireSinkLedgerProofs              ledger, refusal, the refinement
       |         `- DeliveryManagerProofs        the launch (extends DeliveryManager too)
       `- DeliveryManager                     composes WireSink with the rest of a launch
SourceSelection        resolve_run, TargetLease.load against live producers
  `- SourceSelectionProofs
TrackASource           frames_for_target, the lease's curation, the cut by month
  `- TrackASourceLemmas                  masks and sequences laid end to end
       `- TrackASourceProofs
GaulLookup             the lookup's builder, its readers, and the datafactory
  `- GaulLookupProofs
PartnerLaunch          a partner's launch, its declarations and its three stores
  `- PartnerLaunchProofs
MC*                    instances for TLC
```

**PartnerStore.** `bucket` is the sequence of files in creation order; a file id is a
position in it, since nothing deletes. A file is visible only if `documented`. `UploadSucceeds`
covers the ordinary upload and, with `Dedup`, the case the findability module records: the
store declines identical bytes and answers with the id of the file that has them, whose
document keeps its name. `UploadFails` covers a refusal with nothing landed, an orphan
without a document, and an upload whose answer was lost; the port treats all three alike.
With `OrderedQueries` FALSE the first document of an answer may be any of them, which is
what the code's own comment says of the store. `Servable` is the consumer (views-faoapi,
outside the repository), from the way the code says it resolves objects.

**WireSink.** One launch is one execution of `deliver_run`; `phase` is the place it has
reached. `LoadFails`, `RefuseTarget`, `AcceptTarget` are steps 1-2 of the loop. Steps 3-5
stage one file after the other (`AtHand`, `BytesAtHand`: a shard for each header, the sidecar,
the manifest), and each in the steps another launch can observe: `OpenFile` truncates the
file, `WriteFile` completes it, `RecordShard` and `RecordSidecar` read it again for the hash
(the manifest is not hashed; `Interlock` follows its write). `pen` says how far the file at
hand is. `RefuseFile` is a month without rows or a cell without geography, `UploadConfirmed`
and `UploadTears` are step 6, and `Crash` is the death of the process anywhere, with a file
left half-written and an upload in flight landing or not.

Contents are modelled by what determines them, so a hash is the content: a shard has its run
(the header is embedded), target, month and cells; a sidecar has the geography that the
launch's lookup gives its cells. Launches may have loaded different lookups, because the file
can be rebuilt between two of them. That a sidecar holds no run id is the deduplication
hazard. `staging` is shared by all launches, as `data_generated/wire_contract/<run_id>` is,
never emptied, and read again at upload (`NextUploads`). Whoever reads a file that is being
written, to hash it or to upload it, gets some fragment of it (`Readings`). Two launches that
have one file open at once (`Clashing`) leave it whole or as a fragment; this over-approximates
what two writers can do to each other, and both are disturbed by then.

`disturbed` is a history variable: it holds of a launch from the moment another launch opens
or writes a file in its run's directory while it runs and has that directory. The code has no
lock and promises nothing there; the properties about bytes are of launches that were not
disturbed, those about names, ids and fitness of all, and section 6 shows the difference.

**DeliveryManager** extends WireSink with the launch around it. `stage` is the place in
`execute()`; `Deliver` runs the sink's own actions. The read-back is one action per
selection query, so other launches may write between them, and one for the listings (a
document, once there, does not go away, so splitting them adds no behaviour). The lookup is
loaded once, in `Save`, and serves both legs. Outcomes are
what the operator sees: *complete*, *staged only*, *refused*, *failed*, *invisible*
(`DeliveryNotFindableError`), *unverified* (`FindabilityUnverifiedError`), *died*.

**SourceSelection** has the producers as environment: each publication uploads its shards
and then its manifest, target by target, and may stop anywhere; a run may be published
twice with other draws and a document may be misfiled under another run. `PickNewest`,
`ManifestFor`, `PinShards`, `Load` are the delivery's steps. `Together` says which
publications one delivery meets. Any call to the store may raise; `FetchError` is the closure
in `TargetLease.load` that renames a `KeyError` of the store, which `frames_for_target` would
take for a shard that was never pinned.

**TrackASource** assembles one target. The buffer is a sequence of slots of which an
unwritten one holds `Garbage`, as `np.empty` leaves it; payload, header and manifest may
all disagree. `Curate` is the lease's ensemble check, exclusion and coverage gate; `Slice`
is the sink's loop over the headers, which cuts the product by month and not by slot.
`Masked` is numpy's `rows[mask]`, which both the exclusion and the cut are: the rows at the
places of the mask, listed in order.

**GaulLookup** has three parties that share files and no lock: the datafactory (`Ingest`,
`Redefine`), the builder and one delivery. The builder reads one parquet at a time
(`ReadSource`), so an ingestion may fall between two; `MakeTable` is the inner join, the
region filter, the completeness filter and the hard invariants, which touch nothing but
locals and are one action; `StampAndOpen` reads the ledger and truncates the file and
`CloseFile` completes it, so a delivery or a crash in between meets an unreadable file.
The join is modelled row by row because a repeated gid multiplies. `loaded` is the one read
of the table, `Describe` the separate read of the stamp. Parquet contents are chosen from
sound ones and ones with one defect each; a column of codes holds numbers and one of names
holds strings (`Parquet`), so neither holds the other's absent value. Each bundled region
has a definition file of its own, which the datafactory may replace by itself.

**PartnerLaunch** starts from any combination of declarations and walks the phases of the
CRAF'd manager in their order: the queryset's import and format, `wire_contract`, the
ensemble, the shelf's environment, the partner's environment, the run's ensemble, the
geography of its cells. `Ask` is pipeline-core's query, which replaces the name asked for by
the model's own unless `model_path` is `None`; the read stores set it so. After a refusal
the operator repairs what it names (`Repaired`) and launches again.

`map` in `PROJECT.json` names, for every definition, the lines it stands for.

## 3. Runs

| Run | Instance | Checks |
|---|---|---|
| `WireSink` | a good run and 2 malformed ones, 1 target, 2 launches, 2 lookups | `TypeOK`, `CommittedRunIsWhole`, `RetriesAgree`, `TornRefusalIsAccurate`, `OnlyFitRunsReachTheStore`, refinement `AtomicPublication` |
| `DeliveryManager` | 1 run, 2 launches, ordered, no dedup | `ManagerTypeOK`, `AlarmHasACause`, `UncoveredNeverShips` |
| `DeliveryReadBack` | 2 runs, 2 launches, unordered, dedup | `CompleteMeansServable`, `HistoryFollowsItsRun` |
| `DeliveryAlone` | 6 runs, 3 of them malformed in the second of 2 targets and one in its geography, 1 launch, every history and boundary, unordered, dedup, fairness | `ClippedOrDeclared`, `UncoveredNeverShips`, `OnlyFitRunsReachTheStore`, `CollapsedNeverStaged`, `EveryDeliveryEnds` |
| `SourceSelection` | 2 targets x 2 months, unordered; a run published twice, another ensemble's newer run, a misfiled one, fairness | `TypeOK`, `TargetsAreWhole`, `AwaitsAllTargets`, `OneRunOneEnsemble`, `PinnedRunsLoad`, `EveryResolutionEnds` |
| `TrackASource` | all lists of <= 2 shards of <= 2 rows | `TypeOK`, `FilledLikeStacking`, `DeclaredMonthsOnce`, `ProductIsTheRegion`, `FullGridIsAccepted`, `SlicesAreTheShards` |
| `GaulLookup` | 2 cells, a code and a name, 8 parquet contents, 2 definitions, 3 regions, 2 builds, 1 rewrite, 1 delivery | `TypeOK`, `GeographyIsTheProducers`, `OneGeographyPerDelivery`, `StampNamesWhatWasBuilt` |
| `PartnerLaunch` | every declaration over 5 variables, 2 ensembles, 2 regions, 2 directories; up to 9 repairs | `TypeOK`, `MisdeclaredLeavesNoTrace`, `NoCellWithoutGeography`, `ReportIsTheConsumersView`, `OneRefusalPerCause`, `MistakesAreRepaired` |
| `SourceNewest`, `DeliveryAfterCommit`, `WireSinkOverlap`, `GaulStamp` | | one documented statement each that the code does not keep (section 6) |

Why these bounds are enough. Two launches are every pairwise interleaving of an opening, a
write, a hash, an upload, a crash or a query with each other, and a retry after a torn or dead
launch. A third launch would meet fragments and files of the same few kinds, since the names a
launch uses depend on its run only and its undisturbed bytes on its run and lookup (the proved
invariant of section 4, which has no bound). One fragment (`Pieces`) is enough: a fragment is
only ever compared with whole contents, except under deduplication, where all fragments count
as twins of each other, which is the worst case.

`WireSink` has one target, and one month in its good run, because the interleavings of two
launches that write, hash, read and tear are many already: a shard, the sidecar and the
manifest are the three kinds of file, and each is met opened, written, hashed, uploaded and
overwritten. The two lookups differ in the geography of one cell of the run. One
malformed run is refused at once, the other for its second month, when its first is staged.
That a run is compared with its *first* target needs a second one, which `DeliveryAlone` has;
there, too, something is staged when the refusal comes. What launches of
several targets and months do to each other is left to the theorems, which have no bound.

In the runs of two deliveries one target of one month keeps three uploads of three types. Two
runs of equal cells have equal sidecars and unequal shards, the smallest case in which
deduplication strands one object and not the others. `DeliveryAlone` has one launch: what it
asks of a launch depends on its own history and its own steps, and no step of a launch waits
for another's. The histories vary there and not in the runs of two launches, which take a sound
one (`DeliveryReadBack`) or a sound and an uncovered one (`DeliveryManager`).

Two publications of one run, of two targets and two months each, are the smallest in which a
target could be stitched from two of them; a newer run, another ensemble and a misfiled
manifest are met in the same instance. Two shards of two rows have a first slot, a boundary
between shards and a last slot.

In `GaulLookup` one rewrite (`MaxChanges`) falls before, inside or after each of two builds
(`MaxBuilds`), which is every way a build and a delivery can straddle a change; a second
rewrite can only repeat one of these. Two columns are one that is read before a rewrite and
one that is read after, and one of each role. `Patience` is 9 because there are nine causes
of refusal and each occurs at most once (`OneRefusalPerCause`); with 8 the liveness property
fails, so the longest chain of repairs is reached.

There is no state constraint: every run is finite because launches are finite, each makes
one pass, and publications have a size. Deadlock checking is off throughout because every
launch is a program that ends; that it does end is `EveryDeliveryEnds` and
`EveryResolutionEnds`. Launches are interchangeable: nothing tells two of them apart but what
they have done, so the runs of two launches declare them symmetric (`Interchangeable`); no run
that checks liveness does. Runs, targets and cells are told apart by the shelf.

Each property has a deliberate variant of one definition (a `mutant:` comment beside it: a
dropped guard, an off-by-one, a changed order) under which it fails; `mutants` lists them.
They show that the property depends on the code it names.

Fairness. `ManagerFairSpec` has weak fairness of `ManagerAdvance` for a launch that has
begun. The manager is sequential code that waits for nothing but the calls it makes, and
those return unless they raise; no failure, crash or refusal of a call is counted on to end
a launch, so the property would not hold by failing. Beginning a launch is not fair:
nobody must start one. `FairSpec` of `SourceSelection` is weak fairness of the delivery's
own steps, and none of the producers'. `Spec` of `PartnerLaunch` has weak fairness of the
launched process, which waits for nothing, of the operator, who answers a refusal while it
can be answered, and of the producer, who publishes: `MistakesAreRepaired` is about people
who do their part, and says that the refusals lead them somewhere. `GaulLookup` states none:
nobody must build, ingest or deliver.

## 4. Proofs

Every safety property of a passing run is a theorem; liveness is not. A theorem holds for
every value of the constants that satisfies the module's named assumptions, which TLC
evaluates on each run's instance.

### The sink

`WireSinkProofs` and `WireSinkLedgerProofs` prove about `Spec`, for any runs, targets,
months, cells, shelf and launches, and any store with or without deduplication unless the
table says otherwise:

| Theorem | Statement |
|---|---|
| `StagingHolds` | the staging invariant `StepInv` holds |
| `TypeCorrect` | `[]TypeOK` |
| `GatePrecedesStaging` | `[]CollapsedNeverStaged` |
| `BucketIsSound` | the bucket invariant `BucketInv` holds |
| `OnlyFitRuns` | `[]OnlyFitRunsReachTheStore` |
| `CarriersAgree` | `[]RetriesAgree`, about undisturbed launches |
| `RunsAreWhole` | `[]CommittedRunIsWhole`, about undisturbed launches, on a store that does not deduplicate |
| `LedgerHolds` | the ledger invariant `LedgerInv` holds |
| `RefusalNamesAll` | `[]TornRefusalIsAccurate`, on a store that does not deduplicate |
| `SinkRefinesPublication` | `AtomicPublication`, on a store that does not deduplicate |

The argument. None of the properties is inductive: `CommittedRunIsWhole` speaks of the
bucket only, and a state with a corrupt staged file satisfies it until the file is
uploaded. Two ideas make it inductive. *Names are a matter of the run alone*, whoever else is
at work: a launch records, stages and uploads the files its run has. *Bytes are a matter of who
wrote*: a launch that nobody wrote beneath finds in the staging tree what it put there, and
that is a function of its run and its lookup (`ShardOf`, `RecordOf`, `SidecarOf`,
`ManifestOf`). The invariant says, in layers,

1. `Progress(l)`: where the loop stands, and that every target before it was accepted, had its
   rows and agreed with the first;
2. `Recorded(l)`: `shard_records` names exactly the shards of the months done; undisturbed, it
   pins the bytes the run determines, and the sidecar's record those of the lookup;
3. `Canonical` and `Present(l)`: a staged file is of a kind its name admits, possibly cut
   short, a shard is only ever staged for a target that passed the gate, and what a running
   launch has staged is there;
4. `Held(l)`: undisturbed, each staged file still is what the launch recorded or wrote;
5. `SoundOrigin`: a file in the bucket came from a launch with uploading declared and a fit
   run, under one of that run's names; an undisturbed launch's has the determined content;
6. `Confirmed(l)`, without deduplication: the ledger is a prefix of the fixed upload order,
   each entry a document with its name and, undisturbed, its content;
7. `WholeAt(i)`, without deduplication: a documented manifest at `i` of an undisturbed launch
   has all it lists before `i`.

Layers 1-4 (`StepInv`) do not mention the bucket and are proved first, then 5-7
(`BucketInv`) from them. `Held` is where an overlap matters: another launch of the run that
opens or writes a file breaks it, and marks the launch as disturbed in the same step
(`Neighbours`). A launch of another run writes other names. Without the exception the statement
is false, and `WireSinkOverlap` is the counterexample; `RunsAreWhole` needs the store to keep
every copy, since with deduplication another run's sidecar may stand for the launch's own
(section 6). `CarriersAgree` holds on either store, since it compares what carries a name; but two launches that loaded different
lookups write two sidecars under one name, which it excepts.

The ledger is a third layer, and it holds with deduplication too. `Backed(l)`: the k-th
entry is a visible document, recorded under the name of the launch's k-th object, with that
object's bytes if the launch was not disturbed. `OwnFiles(l)`: every file a launch left is in
its ledger, or is the one of the upload that failed. What makes the two inductive is that a
launch uploads an object once and the manifest comes last. `TornRefusalIsAccurate` is these
two read by names and ids, so it holds of disturbed launches too; names are why it needs a
store that keeps every copy.

The refinement maps a run to how a consumer finds it (`Visible`): not at all, whole, in part,
or disputed, once a launch of it was disturbed or two had different lookups. A dispute of one
run is no business of another, and `Publication` promises nothing of a disputed run. While a
run is not disputed, every visible manifest of it can be served, with unambiguous bytes
(`ManifestsServe`, from `WholeAt` and the origin of every file), so *partial* does not occur and
a run is whole exactly when it is committed (`VisibleMeansWhole`). It remains that a step
commits at most one run, that of the uploading launch, which is fit (`OneRunCommits`), takes no
commitment back (`CommitmentsStay`), and ends no dispute.

Assumptions. `SinkAssumption`: the shelf is well typed, cells are finite, targets are
declared once (`product.TARGETS` are the keys of a dict). `PublisherAssumption`: shards that
one manifest lists and whose headers agree on a run agree on the manifest's, one header a
month. It is the producer's obligation; the sink takes the run id from the headers and never
compares it with the lease. That the lease is a function of run and target is the pinning,
checked in `SourceSelection`, for runs published once. `NoneIsNothing`: the absent value is
neither a run nor a record of facts. `StoreAssumption`: two flags are Boolean.

### The delivery

`DeliveryManagerProofs` proves about `ManagerSpec`, for any launches and runs, histories and
boundaries:

| Theorem | Statement |
|---|---|
| `DeliveriesHold` | the sink's three invariants and `ManagerInv` hold |
| `DeliveryTypes` | `[]ManagerTypeOK` |
| `OnlyCoveredShip` | `[]UncoveredNeverShips` |
| `NoMonthUnannounced` | `[]ClippedOrDeclared` |
| `HistoryComesAfter` | `[]HistoryFollowsItsRun`, about undisturbed launches |
| `CompleteIsServable` | `[]CompleteMeansServable`, on any store |
| `NoFalseAlarm` | `[]AlarmHasACause`, on a store that answers newest first and keeps every copy |

The argument. A step of `execute()` leaves the sink's variables alone, is a step of the
sink, or adds a historical artifact to the bucket. The sink's invariants survive all three,
because they are about the sink's own types and the artifact is of another (`ArtifactKeeps`);
so the sink's proofs are used as they stand and only what is new is proved. That is
`ManagerInv`: `Flow(l)` ties the stage of a launch to the phase of the sink and to what the
legs before it established; `Origin` traces each artifact to a launch that had delivered,
and its rows to that launch's clipped and covered history; `Verified(l)` is what the listings
have found; `Named` gives the ids that the read-back compares.

`CompleteIsServable` does not rest on `RunsAreWhole` and could not: with deduplication a
committed run need not be whole. It rests on the ledger and the read-back together. The
ledger gives an id for each object (`Backed`), the listing gives that id under the object's own
name, and a document does not go away: hence everything is found under its name, for any
launch. The read-back never looks at bytes. That the id has the pinned ones comes from the
sink's invariants alone, and only for a launch that was not disturbed.
`NoFalseAlarm` is about the other answer of the read-back: while a launch is selecting,
every document after its manifest that a newest-first query could prefer is another
launch's, since its own are before it.

### Selection, assembly, geography

| Theorem | Statement |
|---|---|
| `SelectionHolds`, `SelectionTypes` | `SelectionInv` and `[]TypeOK` |
| `TargetsHold` | `[]TargetsAreWhole` |
| `OneRunHolds` | `[]OneRunOneEnsemble` |
| `AwaitsHolds` | `[]AwaitsAllTargets` |
| `PinnedHolds` | `PinnedRunsLoad`, an action property |
| `AssemblyHolds`, `AssemblyTypes` | `AssemblyInv`, `[]EverySlotIsItsShards`, `[]TypeOK` |
| `EveryMonthIsThere` | `[]DeclaredMonthsOnce` |
| `BufferFillsLikeStacking` | `[]FilledLikeStacking` |
| `SlicesHold` | `SliceInv` |
| `LeaseGivesTheRegion` | `[]ProductIsTheRegion` |
| `FullGridAccepted` | `[]FullGridIsAccepted` |
| `SlicesReturnTheShards` | `[]SlicesAreTheShards` |
| `GeographyHolds`, `GeographyTypes` | `GeographyInv` and `[]TypeOK` |
| `GeographyComesFromTheProducer` | `[]GeographyIsTheProducers` |
| `BothLegsAgree` | `[]OneGeographyPerDelivery` |
| `StampIsTrue` | `[]StampNamesWhatWasBuilt` |

`SourceSelectionProofs`. A document on the shelf is one that some publication files under
one of its names (`Filed`), so a name that a manifest lists leads back to a publication.
What a delivery holds on to does not change while the shelf grows: manifests by content
(`Leased`), shards by id (`Pinned`). A load that goes through has compared the bytes of each
pinned id with the manifest's hash, so what is loaded is what the manifest's publication
committed (`Verbatim`), whichever publication the *name* led to; this is why `TargetsAreWhole`
survives a republication between two queries. `PinnedHolds` turns the argument round: a
load that is refused has met a shard of another publication under the pinned name, and two
publications under one name are a republication or a misfiled run.

`TrackASourceProofs`. Slots are products of two unknowns, a shard's place and the count of
cells, which the solver cannot be left alone with: `SlotsOf` and `Monotone` say once that the
ranges of two shards do not meet and end where the buffer ends. `EverySlotIsItsShards` is
`FilledLikeStacking` without the concatenation: row j of shard k is in slot
`(k-1) * count + j`, and the slots above are as allocated. `SliceInv` says that the product is
the curated buffer and that each partner shard is the cut of its own header's month.
`FullGridAccepted` goes refusal by refusal: of shards that are what the manifest declares each
guard holds, the last two because the cells of the product are those the region keeps of the
stack (`ProductListed`). The properties then are about what the operators compute, for every
length, and that is in `TrackASourceLemmas`: `FlattenEqual` (sequences of one length laid end to end have each row in
its slot), `FlattenOnce` (sequences with no value in common give one without repetition),
`MaskedRows` and `MaskedOnce` (a mask keeps exactly the rows at its places, and repeats none),
`InOrderIsTheList` (the places of a mask, in order), `MaskedTwice` (a mask of a mask is a
mask) and `MaskedPart` (a mask of a part is a mask of the whole, moved). `CutIsTheShard` puts them together: masking by cell and then by month picks the
places of one shard, because declared months are distinct and payloads honest, so the two
masks are the shard's own exclusion moved to its place in the stack. These lemmas need
induction over lengths, and the library's induction theorems take a predicate, which no
prover here can instantiate; `NatSetInduction` says the same of a *set* of numbers and is
proved from `WFMin` of the library, by the least number outside the set. It is also why rows
are selected by `Masked`, whose order is a function on places, and not by the recursive
`SelectSeq` of the standard module, which the provers do not unfold.

`GaulLookupProofs`. What the builder has joined may be a mixture of ingestions: the
invariant says of each value only that some ingestion published it (`ReadInv`). The guards
turn a mixture into rows without absent values and one for a cell (`GuardedRows`); only such
tables become readable (`LookupInv`); a delivery holds a sublist of one of them, which gives
both properties of the delivery. The stamp needs the other half: while nothing has changed
since the build began, the mixture is the present sources (`Current`), and the last ledger
entry of each dataset digests what is there or nothing (`Settled`). `Ingest` and `Redefine`
break the first half and mark the build as disturbed in the same step.

Assumptions. `SelectionAssumption`: producers are finitely many, targets and months are
sequences, and something is asked for. `AssemblyAssumption`: shards and manifests are
sequences of rows and months with natural counts, and the absent value is not a number.
`LookupAssumption`: the columns are read in some order, a parquet's column of codes holds
numbers and one of names strings, and regions and cells are finite. `ManagerAssumption`:
months and boundaries are numbers, and the blank geographies are among the geographies.

What the proofs changed. Three attempts failed for a reason and the model was corrected:
`PinnedRunsLoad` did not allow for a run filed under another's name when there is one target,
an instance no run had; `StampNamesWhatWasBuilt` was false for two bundled regions, because
the model had given them one definition; and a column of codes with an empty string in it
passed the completeness filter, which the file types rule out.

### The launch

`PartnerLaunchProofs` proves every safety property of the launch, for any variables,
ensembles, regions, cells and patience:

| Theorem | Statement |
|---|---|
| `LaunchIsAnswered` | the invariant `LaunchInv` holds |
| `LaunchTypes` | `[]TypeOK` |
| `NoTrace` | `[]MisdeclaredLeavesNoTrace` |
| `OnlyKnownCells` | `[]NoCellWithoutGeography` |
| `ReportIsTrue` | `[]ReportIsTheConsumersView` |
| `NoCauseTwice` | `[]OneRefusalPerCause` |

The argument. A file or a document is left by the last stages only, so
`MisdeclaredLeavesNoTrace` needs `Answered`: what each stage asked still holds in every
later one. It also needs that a relaunch does not undo an answer an earlier launch left files
under, the one place where repairs must be looked at: they only add variables, and every
other key has one right value (`RepairsAreMonotone`). `RefusedForACause` ties the last
refusal to what is missing, and `DocumentsAreTheConsumers` the bucket to the one name both
sides use. `OneRefusalPerCause` rests on `Heals`: every cause met so far is absent, but for
the one just refused. A refusal is then of a cause that is not healed, hence a new one
(`RefusalIsNew`), and the repair heals it and hurts none (`RelaunchHeals`); the delicate
pair is *no ensemble*, which any ensemble heals, and *ensemble mismatch*, which only the
right one does. `LaunchAssumption` says that the pinned region's cells are in the lookup,
that the published run's ensemble and the consumer's name are among the possible ones, and
that the absent value is none of them.

### Only model-checked

`EveryDeliveryEnds`, `EveryResolutionEnds` and `MistakesAreRepaired`: liveness under fairness,
whose proof needs ENABLED.

## 5. Not modelled, and why

* Upload success without a file id (`store_port.py:111` may return `None`): the read-back
  then compares with `None` and reports the delivery invisible; a data fault of the client.
* The bytes of launches that write in one directory at once. The model says what can happen to
  them (fragments under a pinned name, `WireSinkOverlap`) and promises nothing else of them;
  two writers of one file may leave anything between their two contents, of which the model has
  whole ones and one fragment. The shelf being fixed per run, two launches of one run mean the
  same shards.
* A retry with a rebuilt lookup. `WireSink` has it: the launch and its retry then write two
  sidecars under one name, and both documents stay in the bucket. `RetriesAgree` and
  `AtomicPublication` except it, so nothing is promised to a consumer who fetches the sidecar
  by its name; `CommittedRunIsWhole` says only that each manifest finds the one it pins.
* Fragments under deduplication: any two fragments of one shape count as equal bytes, so a
  disturbed launch may be answered with the id of another one's fragment.
* The alarm on a store that deduplicates: `AlarmHasACause` is checked and proved for a store
  that keeps every copy. With deduplication the id of a selection may be an older launch's.
* Two launches in one second, which would share the artifact's name (`unfao.py:432`).
* A run republished between a launch and its retry: the sink's shelf is fixed per run, so
  `RetriesAgree` is about retries of one publication. With other draws under the same names
  the bucket would hold two contents under one name; `SourceSelection` covers the read side.
* The 255-character fallback of the description; it is one cause of `ArtifactFails`.
* Disk failures while staging: to the store and to other launches the same as `Crash`.
* Header codec and fixture builder: a pure function nobody calls on the delivery's path, and
  a script that writes test files.
* In the builder: coordinates, types and dictionary encoding; the count
  `n_dropped_incomplete`, which is wrong for rows whose completeness is null and which nothing
  reads; that all seven parquets come from one ingestion, which the builder does not promise
  (`GeographyIsTheProducers` asks for values the producer published at some time).
* A lookup without the `lookup_version` key, or with other columns: written by another tool.
* Environment variables that change while a process runs.
* A run without a pinned region whose curation removes every row.

## 6. Where documents and code differ

Each is a run that TLC refutes.

* `SourceNewest`. "Resolve the newest fully-manifested run" (`source_selection.py:123`,
  ADR-013 §4.2a): the code takes the run of the newest manifest and refuses when that one is
  incomplete or of another ensemble, even if an older complete run is on the shelf. Loud and
  safe, but not what is written; an unrelated publication on the shared shelf stops a delivery.
* `DeliveryAfterCommit`. "A run whose upload died halfway has no manifest and is invisible"
  (`docs/operations/correction_procedure.md`, section 0, which counts the historical artifact
  in): the historical leg is uploaded after the manifest, so a delivery that fails there is
  visible.
* `WireSinkOverlap`. "Either whole or invisible" (`run_manifest.py:5-6`): one launch of a run
  uploads a file that another one has just opened for writing (`shard.py:34`; likewise
  `sidecar.py:80`, `sink.py:203`), the store takes the fragment under the file's name, and the
  first launch goes on to commit a manifest that pins the whole file's hash. The read-back
  compares names and ids, so `findability.verify` does not report it. A consumer that checks
  the hash refuses the object. It takes two launches of one run in one working directory at once.
* `GaulStamp`. `lookup_version` answers "which GAUL build produced its geography" and is "the
  digest of the views-datafactory ingestion the lookup was built from"
  (`docs/operations/correction_procedure.md`, section 1): a regional build is stamped with
  the digest of the region's *definition* (`build_gaul_lookup.py:134`, deliberately), so a
  lookup rebuilt after an ingestion of other GAUL values has the same stamp and other rows.
  The join's ledger entry is kept in `source_provenance`, which is not delivered.

Not checked by a run of their own: with a deduplicating store "either whole or invisible" fails
for one launch already, because the manifest may be committed while the sidecar it lists has no
document under its name (two runs of equal cells, as in `DeliveryReadBack`);
`findability.verify` reports this afterwards, which is `CompleteMeansServable`. And "ONE cell set
across the whole run" (`sink.py:154-155`): the cell set compared is that of the whole frame, so
months may differ if they differ alike in every target.

Smaller observations: `findability.py:148-153` says a re-run
deduplicates *all* objects, but a shard embeds a header with the run id, so only files whose
bytes carry no run id can (here, the sidecar); `findability.py:99-100` says the consumer goes
on serving the *previous* delivery, where after an overlapping launch it may be a *newer* one;
`track_a_source.py:116` says the cell count per month is verified, while months are compared
by header only and the payload's own month column is not; `historical.py:89` says any missing
metadata value fails, while missing codes have become NaN by then and are not nulls;
`build_gaul_lookup.py:99` accepts `--region global_complete`, which no ledger entry can stamp,
so that build is always refused after all its work.

## 7. Plan

Done: the inventory, all modules above, the runs, the safety of every module as theorems and
the sink's refinement.

Order chosen: the commit protocol first (PartnerStore, Publication, WireSink), because every
other promise rests on it; then the launch around it (DeliveryManager); then the inbound
(SourceSelection, TrackASource); then what is shared with people (GaulLookup, PartnerLaunch).

Next: a composition of `SourceSelection` with the sink, so that a retry after a republication
is covered; and `GaulLookup` composed with the sink, so that the lookups two launches may have
loaded are the ones a builder can leave.
