--------------------------- MODULE SourceSelection ---------------------------
(***************************************************************************)
(* resolve_run and TargetLease.load (contract/wire/source_selection.py):   *)
(* the Hop-A inbound of one delivery, reading a shelf that producers go on *)
(* publishing to.                                                          *)
(*                                                                         *)
(* The producers are outside the repository: a publication uploads, target *)
(* by target, its shards and then the (run, target) manifest that lists    *)
(* them, and may stop at any point.  A run may be published again under    *)
(* the same names with other draws, and a document may be filed under      *)
(* another run's name.  A shelf file is immutable and its id is its        *)
(* position.  A shard's bytes are modelled by what determines them, so its *)
(* hash is the content itself.                                             *)
(***************************************************************************)
EXTENDS Naturals, Sequences, FiniteSets

CONSTANTS
    Together,        \* what producers may publish: each a set of publications one delivery meets
    Months,          \* the forecast months, as the manifest lists them (a sequence)
    TargetOrder,     \* expected_targets
    Ensemble,        \* expected_ensemble
    OrderedQueries,  \* is the first document of a query the newest one?
    NoId,            \* what latest_file_id answers when nothing matches
    None

Publications == UNION Together

PublishedTargets == UNION {{p.targets[k] : k \in DOMAIN p.targets} : p \in Publications}
Targets  == {TargetOrder[k] : k \in DOMAIN TargetOrder}
MonthSet == {Months[k] : k \in DOMAIN Months}

(* named is the run the documents are filed under, draws tells one          *)
(* publication of a run from the next.                                      *)
ASSUME SelectionAssumption ==
    /\ \A producers \in Together : IsFiniteSet(producers)
    /\ \A p \in Publications : /\ DOMAIN p = {"run", "named", "ensemble", "draws", "targets"}
                               /\ p.targets \in Seq(PublishedTargets)
    /\ OrderedQueries \in BOOLEAN
    /\ TargetOrder \in Seq(Targets) /\ Len(TargetOrder) > 0
    /\ Months \in Seq(MonthSet) /\ Len(Months) > 0

VARIABLES
    shelf,       \* the shared shelf: documents in creation order
    published,   \* how many of its documents each publication has uploaded
    stage,       \* where the delivery stands
    newest,      \* the newest manifest
    manifests,   \* the manifest leased for each target so far
    pins,        \* the shard file ids pinned for each target so far
    loaded       \* the shards each loaded target was assembled from

vars == <<shelf, published, stage, newest, manifests, pins, loaded>>
lease == <<newest, manifests, pins>>

-----------------------------------------------------------------------------
(* The producers. *)

ShardContent(p, t, m) ==
    [run |-> p.run, ensemble |-> p.ensemble, target |-> t, month |-> m, draws |-> p.draws]

ShardName(r, t, m) == <<r, t, m>>
ManifestName(r, t) == <<r, t>>

ManifestContent(p, t) ==
    [run |-> p.run, target |-> t,
     shards |-> [k \in DOMAIN Months |->
                    [name |-> ShardName(p.named, t, Months[k]),
                     sha256 |-> ShardContent(p, t, Months[k])]]]

(* The documents of a publication in upload order: each target's shards,    *)
(* then its manifest.                                                       *)
DocumentAt(p, n) ==
    LET width == Len(Months) + 1
        t == p.targets[((n - 1) \div width) + 1]
        k == ((n - 1) % width) + 1
    IN  IF k < width
        THEN [type |-> "shard", name |-> ShardName(p.named, t, Months[k]),
              content |-> ShardContent(p, t, Months[k])]
        ELSE [type |-> "manifest", name |-> ManifestName(p.named, t),
              content |-> ManifestContent(p, t)]

Size(p) == Len(p.targets) * (Len(Months) + 1)

(* Nothing looks at the shelf once the delivery has ended. *)
Ended == {"loaded", "refused", "lease refused", "store failed"}

Publish(p) ==
    /\ stage \notin Ended
    /\ published[p] < Size(p)
    /\ shelf' = Append(shelf, DocumentAt(p, published[p] + 1))
    /\ published' = [published EXCEPT ![p] = @ + 1]
    /\ UNCHANGED <<stage, lease, loaded>>

-----------------------------------------------------------------------------
(* The shelf's answers. *)

Latest(found) ==
    IF found = {} THEN {NoId}
    ELSE IF OrderedQueries THEN {i \in found : \A j \in found : j <= i}
    ELSE found

LatestDocument == Latest(DOMAIN shelf)    \* mutant: the query has no type filter

LatestManifest == Latest({i \in DOMAIN shelf : shelf[i].type = "manifest"})

LatestNamed(type, name) ==
    Latest({i \in DOMAIN shelf : shelf[i].type = type /\ shelf[i].name = name})

-----------------------------------------------------------------------------
Init ==
    /\ shelf = <<>>
    /\ \E producers \in Together : published = [p \in producers |-> 0]
    /\ stage = "start"
    /\ newest = None
    /\ manifests = <<>>
    /\ pins = <<>>
    /\ loaded = <<>>

(* What the lease's fetch raises when the store raises (the closure in      *)
(* TargetLease.load), and how frames_for_target ends: to it a KeyError says *)
(* that the shard was never pinned.                                         *)
StoreErrors == {"KeyError", "other"}

FetchErrorAsRaised(error) == error    \* mutant: the store's KeyError passes through

FetchError(error) == IF error = "KeyError" THEN "SourceSelectionError" ELSE error

FetchFailed(error) ==
    IF FetchError(error) = "KeyError" THEN "lease refused" ELSE "store failed"

(* Any call to the store may raise. *)
StoreFails ==
    /\ stage \notin Ended
    /\ \E error \in StoreErrors :
          stage' = IF stage = "loading" THEN FetchFailed(error) ELSE "store failed"
    /\ UNCHANGED <<shelf, published, lease, loaded>>

(* The newest manifest of the shelf names the run. *)
PickNewest ==
    /\ stage = "start"
    /\ \E id \in LatestManifest :
          IF id = NoId
          THEN stage' = "refused" /\ UNCHANGED newest
          ELSE stage' = "manifests" /\ newest' = shelf[id].content
    /\ UNCHANGED <<shelf, published, manifests, pins, loaded>>

Target == TargetOrder[Len(pins) + 1]

Lease(manifest) == stage' = "pins" /\ manifests' = Append(manifests, manifest)

OfTheTarget(manifest) == manifest.target = Target    \* mutant: the run is not compared

OfTheRunAndTarget(manifest) == manifest.run = newest.run /\ manifest.target = Target

(* _manifest_for: the newest one if it is this target's, else the one filed *)
(* under this run and target, whose content must say the same.              *)
ManifestAwaited ==             \* mutant: waits for a manifest that is not there yet
    /\ stage = "manifests"
    /\ IF newest.target = Target
       THEN Lease(newest)
       ELSE \E id \in LatestNamed("manifest", ManifestName(newest.run, Target)) :
               id # NoId /\ Lease(shelf[id].content)
    /\ UNCHANGED <<shelf, published, newest, pins, loaded>>

ManifestFor ==
    /\ stage = "manifests"
    /\ IF newest.target = Target
       THEN Lease(newest)
       ELSE \E id \in LatestNamed("manifest", ManifestName(newest.run, Target)) :
               IF id = NoId \/ ~OfTheRunAndTarget(shelf[id].content)
               THEN stage' = "refused" /\ UNCHANGED manifests
               ELSE Lease(shelf[id].content)
    /\ UNCHANGED <<shelf, published, newest, pins, loaded>>

AtTheLastButOne == Len(pins) + 2 >= Len(TargetOrder)    \* mutant: one target too early

AtTheLastTarget == Len(pins) + 1 = Len(TargetOrder)

(* Every listed shard's file id is pinned; the queries of one target are    *)
(* one action.                                                              *)
PinShards ==
    LET shards == manifests[Len(manifests)].shards
        Answers(k) == LatestNamed("shard", shards[k].name)
    IN  /\ stage = "pins"
        /\ IF \E k \in DOMAIN shards : Answers(k) = {NoId}
           THEN stage' = "refused" /\ UNCHANGED pins
           ELSE /\ \E ids \in [DOMAIN shards -> DOMAIN shelf] :
                      /\ \A k \in DOMAIN shards : ids[k] \in Answers(k)
                      /\ pins' = Append(pins, ids)
                /\ stage' = IF AtTheLastTarget THEN "loading" ELSE "manifests"
        /\ UNCHANGED <<shelf, published, newest, manifests, loaded>>

(* TargetLease.load: the pinned files must have the manifest's hashes and   *)
(* name its target (frames_for_target), and their headers the declared      *)
(* ensemble.                                                                *)
VerifiedUnhashed(manifest, shards) ==    \* mutant: the hash is not compared
    \A k \in DOMAIN shards : /\ shards[k].target = manifest.target
                             /\ shards[k].ensemble = Ensemble

Verified(manifest, shards) ==
    /\ \A k \in DOMAIN shards : /\ shards[k] = manifest.shards[k].sha256
                                /\ shards[k].target = manifest.target
    /\ \A k \in DOMAIN shards : shards[k].ensemble = Ensemble

Load ==
    LET t == Len(loaded) + 1
        shards == [k \in DOMAIN pins[t] |-> shelf[pins[t][k]].content]
    IN  /\ stage = "loading"
        /\ IF Verified(manifests[t], shards)
           THEN /\ loaded' = Append(loaded, shards)
                /\ stage' = IF t = Len(TargetOrder) THEN "loaded" ELSE "loading"
           ELSE stage' = "lease refused" /\ UNCHANGED loaded
        /\ UNCHANGED <<shelf, published, lease>>

Deliver == PickNewest \/ ManifestFor \/ PinShards \/ Load

Next == Deliver \/ StoreFails \/ \E p \in DOMAIN published : Publish(p)

Spec == Init /\ [][Next]_vars

(* The delivery never waits for a producer, and a call answers unless it    *)
(* raises.                                                                  *)
FairSpec == Spec /\ WF_vars(Deliver)

-----------------------------------------------------------------------------
(* Types. *)

Runs      == {p.run : p \in Publications} \cup {p.named : p \in Publications}
Shards    == {ShardContent(p, t, m) : p \in Publications, t \in PublishedTargets, m \in MonthSet}
Manifests == {ManifestContent(p, t) : p \in Publications, t \in PublishedTargets}

TypeOK ==
    /\ \A i \in DOMAIN shelf :
          \/ shelf[i].type = "shard" /\ shelf[i].content \in Shards
          \/ shelf[i].type = "manifest" /\ shelf[i].content \in Manifests
    /\ \E producers \in Together : published \in [producers -> Nat]
    /\ stage \in {"start", "manifests", "pins", "loading"} \cup Ended
    /\ newest \in Manifests \cup {None}
    /\ \A t \in DOMAIN manifests : manifests[t] \in Manifests
    /\ \A t \in DOMAIN pins : pins[t] \in [DOMAIN Months -> DOMAIN shelf]
    /\ \A t \in DOMAIN loaded : \A k \in DOMAIN loaded[t] : loaded[t][k] \in Shards

-----------------------------------------------------------------------------
(* Safety. *)

(* No torn target (4.2a): each loaded target is, for every month, what one  *)
(* publication committed for it by its manifest; never the shards of one    *)
(* publication under the manifest of another, whichever was uploaded        *)
(* between two queries and whatever order the store answers in.             *)
TargetsAreWhole ==
    \A t \in DOMAIN loaded :
        \E p \in Publications :
            /\ loaded[t] = [k \in DOMAIN Months |-> ShardContent(p, TargetOrder[t], Months[k])]
            /\ \E i \in DOMAIN shelf : shelf[i].content = ManifestContent(p, TargetOrder[t])

(* The leases are one run, that of the manifest picked first, also when a   *)
(* newer run is published in between or a manifest is misfiled; and what is *)
(* loaded is of that run and of the declared ensemble.                      *)
OneRunOneEnsemble ==
    /\ \A t \in DOMAIN manifests : manifests[t].run = newest.run
    /\ \A t \in DOMAIN loaded : \A k \in DOMAIN loaded[t] :
          loaded[t][k].run = newest.run /\ loaded[t][k].ensemble = Ensemble

(* Await-all-targets: the heavy load starts only when every declared target *)
(* of the run was committed by its manifest.                                *)
AwaitsAllTargets ==
    stage \in {"loading", "loaded", "lease refused"} =>
        \A t \in DOMAIN TargetOrder :
            \E i \in DOMAIN shelf : /\ shelf[i].type = "manifest"
                                    /\ shelf[i].content.run = newest.run
                                    /\ shelf[i].content.target = TargetOrder[t]

(* Pinning makes the later fetches race-free: once resolved, a run that was *)
(* published once and under its own name loads, whatever is published       *)
(* meanwhile, unless the ensemble is another; and a store that fails in the *)
(* middle of it, whatever it raises, is never taken for a bad manifest.     *)
Republished(r) ==
    Cardinality({p \in DOMAIN published : (p.run = r \/ p.named = r) /\ published[p] > 0}) > 1

PinnedRunsLoad ==
    [][stage = "loading" /\ stage' = "lease refused" =>
          \/ Republished(newest.run)
          \/ \E p \in DOMAIN published :
                p.run = newest.run /\ (p.named # p.run \/ p.ensemble # Ensemble)]_vars

(* The delivery reaches a verdict though producers never stop. *)
EveryResolutionEnds == <>(stage \in Ended)

-----------------------------------------------------------------------------
(* What resolve_run's documentation says ("Resolve the newest               *)
(* fully-manifested run") and ADR-013 4.2a adds ("matching that             *)
(* declaration"): when it refuses for want of a manifest, no run of the     *)
(* declared ensemble is fully manifested on the shelf.                      *)
FullyManifested(r) ==
    \A t \in Targets :
        \E i \in DOMAIN shelf : /\ shelf[i].type = "manifest"
                                /\ shelf[i].content.run = r /\ shelf[i].content.target = t
                                /\ \A k \in DOMAIN shelf[i].content.shards :
                                      shelf[i].content.shards[k].sha256.ensemble = Ensemble

RefusesOnlyWithoutACompleteRun ==
    [][stage = "manifests" /\ stage' = "refused" =>
          ~\E r \in Runs : FullyManifested(r)]_vars
=============================================================================
