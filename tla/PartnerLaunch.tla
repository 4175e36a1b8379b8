---------------------------- MODULE PartnerLaunch ----------------------------
(***************************************************************************)
(* What a launcher must declare for one partner's delivery, when each      *)
(* declaration is asked for, and which store and which question each       *)
(* answer is used for (crafd/managers/crafd.py, crafd/appwrite_env.py,     *)
(* contract/launch_config.py; unfao's files differ in names only).         *)
(*                                                                         *)
(* The launcher and the operator are outside the repository: a launch      *)
(* starts from whatever was declared, and after a refusal the operator     *)
(* repairs what the refusal names and launches again.  The run on the      *)
(* shelf, once it is published, the stores and the historical frame are    *)
(* sound here: what goes wrong with those is the business of WireSink,     *)
(* SourceSelection and DeliveryManager.                                    *)
(***************************************************************************)
EXTENDS Naturals, Sequences

CONSTANTS
    ConsumerName,    \* product.CONSUMER_DOCUMENT_NAME
    Directories,     \* what views-models may call the postprocessor's directory
    Ensembles, RunEnsemble,   \* ensemble names; the one whose run is on the shelf
    ConnectionEnv, ProdForecastsEnv, PartnerEnv,   \* sets of variables
    GridCells,       \* the cells of the run on the shelf
    LookupCells,     \* the cells the GAUL lookup has
    Regions, Pinned, \* region names; the one pinned in delivery/coverage.py
    ExcludedCells,   \* EXCLUDED_GIDS_BY_REGION[Pinned]
    Patience,        \* bound: how many refusals the operator answers
    None

ASSUME LaunchAssumption ==
    /\ Patience \in Nat
    /\ ConsumerName \in Directories
    /\ RunEnsemble \in Ensembles
    /\ None \notin Ensembles \cup {"feature_frame", "dataframe"}
    /\ Pinned \in Regions
    /\ GridCells \ ExcludedCells \subseteq LookupCells

AllEnv == ConnectionEnv \cup ProdForecastsEnv \cup PartnerEnv

(* importable, format: does config_queryset import, and the data_format it  *)
(* declares; wire, ensemble, region, upload: keys of the launch config      *)
(* (None: left out); env: the variables that are set and not empty.         *)
Declarations ==
    [importable : BOOLEAN, format : {"feature_frame", "dataframe"}, wire : BOOLEAN,
     ensemble : Ensembles \cup {None}, region : Regions, upload : BOOLEAN \cup {None},
     env : SUBSET AllEnv, directory : Directories]

(* The shelf's documents are named after run, target and month; one stands  *)
(* for them.                                                                *)
ShelfDocuments == {[category |-> "manifest", name |-> "a run's artifact"]}

VARIABLES
    config,      \* what the launcher declares
    shelf,       \* the shared shelf's documents
    stage,       \* where the launch stands in execute()
    uploading,   \* upload_enabled
    staged,      \* the files under data_generated/wire_contract
    bucket,      \* the partner's documents
    blames       \* what the refusals so far named, in order

vars == <<config, shelf, stage, uploading, staged, bucket, blames>>

Init ==
    /\ config \in Declarations
    /\ shelf \in {{}, ShelfDocuments}
    /\ stage = "historical data"
    /\ uploading = FALSE
    /\ staged = {}
    /\ bucket = {}
    /\ blames = <<>>

Enter(next) == stage' = next /\ UNCHANGED <<config, shelf, uploading, staged, bucket, blames>>

(* Raise, naming a cause and the variables that are missing. *)
Refuse(cause, missing) ==
    /\ stage' = "refused"
    /\ blames' = Append(blames, [cause |-> cause, missing |-> missing])
    /\ UNCHANGED <<config, shelf, uploading, bucket>>

-----------------------------------------------------------------------------
(* _read_historical_data.  get_queryset swallows a failed import and        *)
(* answers None; declared_data_format(None) is "dataframe".                 *)

Queryset == IF config.importable THEN config.format ELSE None

DataFormat(queryset) == IF queryset = None THEN "dataframe" ELSE queryset

ImportUnasked(queryset) == TRUE    \* mutant: only the declared format is asked for

WasImportable(queryset) == queryset # None

FrameNative(queryset) == DataFormat(queryset) = "feature_frame"

ReadHistory ==
    /\ stage = "historical data"
    /\ WasImportable(Queryset) /\ FrameNative(Queryset)
    /\ Enter("forecast data")

RefuseQueryset ==
    /\ stage = "historical data"
    /\ ~WasImportable(Queryset)
    /\ Refuse("config_queryset import", {}) /\ UNCHANGED staged

RefuseFormat ==
    /\ stage = "historical data"
    /\ WasImportable(Queryset) /\ ~FrameNative(Queryset)
    /\ Refuse("data_format", {}) /\ UNCHANGED staged

-----------------------------------------------------------------------------
(* assert_env_declared: all the variables that are missing, in one refusal. *)

MissingUnnamed(names) ==       \* mutant: names the store, not the variables
    IF names \subseteq config.env THEN {} ELSE {"datastore"}

MissingFirst(names) ==         \* mutant: stops at the first missing variable
    IF names \subseteq config.env THEN {} ELSE {CHOOSE name \in names : name \notin config.env}

Missing(names) == names \ config.env

(* A DatastoreModule asks with name = the model's name, whatever was asked, *)
(* while it has a model_path; both read stores here set it to None.         *)
Ask(model, documents, question) ==
    LET name == IF model = None THEN question.name ELSE model
    IN  {d \in documents : d.category = question.category /\ name \in {None, d.name}}

ProdForecastsModel == None

(* _read_forecast_data, _build_prod_forecasts_store and the first question  *)
(* of resolve_run.                                                          *)
ResolvedManifests ==
    Ask(ProdForecastsModel, shelf, [category |-> "manifest", name |-> None])

ShelfEnv == ConnectionEnv \cup ProdForecastsEnv

ReadForecast ==
    /\ stage = "forecast data"
    /\ config.wire
    /\ config.ensemble # None
    /\ Missing(ShelfEnv) = {}
    /\ ResolvedManifests # {}
    /\ Enter("save")

RefuseForecast ==
    /\ stage = "forecast data"
    /\ \/ ~config.wire /\ Refuse("wire_contract", {})
       \/ config.wire /\ config.ensemble = None /\ Refuse("no ensemble", {})
       \/ /\ config.wire /\ config.ensemble # None
          /\ Missing(ShelfEnv) # {}
          /\ Refuse("production_forecasts datastore", Missing(ShelfEnv))
       \/ /\ config.wire /\ config.ensemble # None
          /\ Missing(ShelfEnv) = {} /\ ResolvedManifests = {}
          /\ Refuse("nothing published", {})
    /\ UNCHANGED staged

-----------------------------------------------------------------------------
(* _save_contract.  The partner's environment is asked for only when        *)
(* uploading is declared, and before the sink stages anything.              *)

UPLOAD_ENABLED == FALSE

UploadEnabled == IF config.upload = None THEN UPLOAD_ENABLED ELSE config.upload

PartnerStoreEnv == ConnectionEnv \cup PartnerEnv

StoreBuiltLater == TRUE    \* mutant: the environment is not asked for before the sink runs

PartnerStoreBuilt == UploadEnabled => Missing(PartnerStoreEnv) = {}

Save ==
    /\ stage = "save"
    /\ PartnerStoreBuilt
    /\ uploading' = UploadEnabled
    /\ stage' = "deliver_run"
    /\ UNCHANGED <<config, shelf, staged, bucket, blames>>

RefuseSave ==
    /\ stage = "save"
    /\ ~PartnerStoreBuilt
    /\ Refuse("partner datastore", Missing(PartnerStoreEnv)) /\ UNCHANGED staged

(* What the lease of the run yields: excluded_for of the region, and of an  *)
(* unpinned region nothing; its count gate then does not apply.             *)
ExcludedFor(region) == IF region = Pinned THEN ExcludedCells ELSE {}

Product == GridCells \ ExcludedFor(config.region)

SidecarOfTheKnown(cells) == TRUE    \* mutant: cells without geography are left out of it

SidecarCovers(cells) == cells \subseteq LookupCells

Document(category, cells) ==
    [category |-> category, name |-> ConsumerName, cells |-> cells, launch |-> Len(blames)]

Forecast == Document("forecast", Product)

DeliverRun ==
    /\ stage = "deliver_run"
    /\ config.ensemble = RunEnsemble
    /\ SidecarCovers(Product)
    /\ staged' = staged \cup {"shards", "sidecar", "manifest"}
    /\ bucket' = IF uploading THEN bucket \cup {Forecast} ELSE bucket
    /\ stage' = "historical leg"
    /\ UNCHANGED <<config, shelf, uploading, blames>>

(* The first lease's load refuses before anything is staged; the sidecar,   *)
(* when the shards are.                                                     *)
RefuseRun ==
    /\ stage = "deliver_run"
    /\ \/ config.ensemble # RunEnsemble /\ Refuse("ensemble mismatch", {}) /\ UNCHANGED staged
       \/ /\ config.ensemble = RunEnsemble /\ ~SidecarCovers(Product)
          /\ Refuse("geography", {})
          /\ staged' = staged \cup {"shards"}

(* The historical frame is the pinned region's. *)
Historical == Document("historical", GridCells \ ExcludedCells)

HistoricalLeg ==
    /\ stage = "historical leg"
    /\ staged' = staged \cup {"historical"}
    /\ bucket' = IF uploading THEN bucket \cup {Historical} ELSE bucket
    /\ stage' = IF uploading THEN "read-back" ELSE "staged only"
    /\ UNCHANGED <<config, shelf, uploading, blames>>

(* _assert_delivery_is_findable with the store of                           *)
(* _build_partner_read_store.  It asks for the environment of Save again,   *)
(* which in one process is still there.                                     *)
DirectoryModel == config.directory    \* mutant: the read store keeps its model_path

ReadModel == None

Findable(leg) ==
    LET found == Ask(ReadModel, bucket, [category |-> leg, name |-> ConsumerName])
    IN  \E d \in found : d.launch = Len(blames)

ReadBack ==
    /\ stage = "read-back"
    /\ Enter(IF Findable("forecast") /\ Findable("historical") THEN "delivered" ELSE "invisible")

-----------------------------------------------------------------------------
(* The producer and the operator (external). *)

Publish ==
    /\ shelf = {}
    /\ shelf' = ShelfDocuments
    /\ UNCHANGED <<config, stage, uploading, staged, bucket, blames>>

Blame == blames[Len(blames)]

Repaired(c) ==
    CASE Blame.cause = "config_queryset import" -> {[c EXCEPT !.importable = TRUE]}
      [] Blame.cause = "data_format" -> {[c EXCEPT !.format = "feature_frame"]}
      [] Blame.cause = "wire_contract" -> {[c EXCEPT !.wire = TRUE]}
      [] Blame.cause = "no ensemble" -> {[c EXCEPT !.ensemble = e] : e \in Ensembles}
      [] Blame.cause = "ensemble mismatch" -> {[c EXCEPT !.ensemble = RunEnsemble]}
      [] Blame.cause = "geography" -> {[c EXCEPT !.region = Pinned]}
      [] OTHER -> {[c EXCEPT !.env = @ \cup Blame.missing]}

(* With nothing published there is nothing to repair: the operator waits.   *)
Relaunch ==
    /\ stage = "refused"
    /\ Len(blames) <= Patience
    /\ Blame.cause = "nothing published" => shelf # {}
    /\ config' \in Repaired(config)
    /\ stage' = "historical data"
    /\ uploading' = FALSE
    /\ UNCHANGED <<shelf, staged, bucket, blames>>

Launch ==
    \/ ReadHistory \/ RefuseQueryset \/ RefuseFormat
    \/ ReadForecast \/ RefuseForecast
    \/ Save \/ RefuseSave
    \/ DeliverRun \/ RefuseRun
    \/ HistoricalLeg
    \/ ReadBack

Next == Launch \/ Relaunch \/ Publish

(* A launched process runs on, the operator answers a refusal and the       *)
(* producer publishes.                                                      *)
Spec == Init /\ [][Next]_vars /\ WF_vars(Launch) /\ WF_vars(Relaunch) /\ WF_vars(Publish)

-----------------------------------------------------------------------------
Causes == {"config_queryset import", "data_format", "wire_contract", "no ensemble",
           "production_forecasts datastore", "nothing published", "partner datastore",
           "ensemble mismatch", "geography"}

TypeOK ==
    /\ config \in Declarations
    /\ shelf \subseteq ShelfDocuments
    /\ stage \in {"historical data", "forecast data", "save", "deliver_run", "historical leg",
                  "read-back", "staged only", "delivered", "invisible", "refused"}
    /\ uploading \in BOOLEAN
    /\ staged \subseteq {"shards", "sidecar", "manifest", "historical"}
    /\ \A d \in bucket : /\ d.category \in {"forecast", "historical"}
                         /\ d.cells \subseteq GridCells /\ d.launch \in Nat
    /\ \A k \in DOMAIN blames : blames[k].cause \in Causes /\ blames[k].missing \subseteq AllEnv

(* Whatever is missing or wrong in the launcher's declarations, and however *)
(* late it is asked for, is found before the delivery leaves a file or a    *)
(* document behind; only a region the code does not know is found when the  *)
(* shards are staged, by the sidecar.                                       *)
Declared ==
    /\ config.importable /\ config.format = "feature_frame"
    /\ config.wire /\ config.ensemble = RunEnsemble
    /\ Missing(ShelfEnv) = {}
    /\ UploadEnabled => Missing(PartnerStoreEnv) = {}

MisdeclaredLeavesNoTrace == staged # {} \/ bucket # {} => Declared

(* An unpinned region switches the exclusion and the count gate off, and    *)
(* still no cell without geography reaches the partner: the sidecar refuses *)
(* first (5.2).                                                             *)
NoCellWithoutGeography == \A d \in bucket : d.cells \subseteq LookupCells

(* The report is the consumer's view (C-77, C-94): a delivery is called     *)
(* complete exactly when both legs answer the consumer's own question,      *)
(* whatever views-models calls the postprocessor's directory.               *)
Served(leg) == \E d \in bucket : /\ d.category = leg /\ d.name = ConsumerName
                                 /\ d.launch = Len(blames)

ReportIsTheConsumersView ==
    /\ stage = "delivered" => Served("forecast") /\ Served("historical")
    /\ stage = "invisible" => ~(Served("forecast") /\ Served("historical"))

(* A refusal says all there is to its cause: the operator who repairs what  *)
(* it names never meets it again.                                           *)
OneRefusalPerCause ==
    \A i, j \in DOMAIN blames : blames[i].cause = blames[j].cause => i = j

(* The refusals lead somewhere (C-83): repairing what each one names ends,  *)
(* within Patience repairs, in a delivery, or in a staged one where         *)
(* uploading is not declared.                                               *)
MistakesAreRepaired == <>(stage \in {"delivered", "staged only"})

=============================================================================
