------------------------- MODULE PartnerLaunchProofs -------------------------
(***************************************************************************)
(* The safety properties of PartnerLaunch as theorems, for any partner:    *)
(* whatever its variables, ensembles, regions and cells, however often its *)
(* operator is willing to launch again.                                    *)
(*                                                                         *)
(* What makes them inductive is the order of the questions.  Answered says *)
(* that everything asked before the current stage still holds, so a file   *)
(* or a document, which only the last stages leave, means that all was     *)
(* declared.  Heals says that a cause once repaired stays repaired, because *)
(* repairs only add variables and each other key has one right value.      *)
(***************************************************************************)
EXTENDS PartnerLaunch, SequenceTheorems, TLAPS

Refusals == [cause : Causes, missing : SUBSET AllEnv]

Refusal(cause, missing) == [cause |-> cause, missing |-> missing]

AfterHistory  == {"forecast data", "save", "deliver_run", "historical leg", "read-back",
                  "staged only", "delivered", "invisible"}
AfterForecast == AfterHistory \ {"forecast data"}
AfterSave     == AfterForecast \ {"save"}
AfterRun      == AfterSave \ {"deliver_run"}

(* What each phase asked holds while the launch goes on. *)
Answered ==
    /\ stage \in AfterHistory => config.importable /\ config.format = "feature_frame"
    /\ stage \in AfterForecast => config.wire /\ Missing(ShelfEnv) = {}
    /\ stage \in AfterSave => PartnerStoreBuilt
    /\ stage \in AfterRun => config.ensemble = RunEnsemble

(* A refusal has its cause, and what it names is what is missing. *)
RefusedForACause ==
    stage = "refused" =>
        /\ Len(blames) > 0
        /\ Blame.cause = "no ensemble" => config.ensemble = None
        /\ Blame.cause = "production_forecasts datastore" => Blame.missing = Missing(ShelfEnv)
        /\ Blame.cause = "partner datastore" => Blame.missing = Missing(PartnerStoreEnv)

DocumentsAreTheConsumers ==
    \A d \in bucket : d.cells \subseteq LookupCells /\ d.name = ConsumerName

(* The cause is absent, and nothing the launch asks can find it. *)
Healed(cause) ==
    /\ cause = "config_queryset import" => config.importable
    /\ cause = "data_format" => config.format = "feature_frame"
    /\ cause = "wire_contract" => config.wire
    /\ cause = "no ensemble" => config.ensemble # None
    /\ cause = "production_forecasts datastore" => Missing(ShelfEnv) = {}
    /\ cause = "nothing published" => shelf # {}
    /\ cause = "partner datastore" => Missing(PartnerStoreEnv) = {}
    /\ cause = "ensemble mismatch" => config.ensemble = RunEnsemble
    /\ cause = "geography" => config.region = Pinned

(* Every cause met so far is healed, but for the one just refused. *)
Heals ==
    \A cause \in Causes : \A i \in DOMAIN blames :
        blames[i].cause = cause => Healed(cause) \/ (stage = "refused" /\ i = Len(blames))

TypeInv == TypeOK /\ blames \in Seq(Refusals)

LaunchInv ==
    /\ TypeInv
    /\ Answered
    /\ RefusedForACause
    /\ DocumentsAreTheConsumers
    /\ MisdeclaredLeavesNoTrace
    /\ ReportIsTheConsumersView

CauseInv == Heals /\ OneRefusalPerCause

-----------------------------------------------------------------------------
LEMMA InitLaunch == Init => LaunchInv /\ CauseInv
  <1> SUFFICES ASSUME Init PROVE LaunchInv /\ CauseInv
    OBVIOUS
  <1>1. /\ config \in Declarations /\ shelf \subseteq ShelfDocuments
        /\ stage = "historical data" /\ uploading = FALSE /\ staged = {} /\ bucket = {}
    BY DEF Init
  <1>2. blames \in Seq(Refusals) /\ Len(blames) = 0
    BY EmptySeq DEF Init
  <1>3. DOMAIN blames = {}
    BY <1>2
  <1>4. TypeInv
    BY <1>1, <1>2, <1>3 DEF TypeInv, TypeOK
  <1>5. Answered /\ RefusedForACause /\ DocumentsAreTheConsumers
    BY <1>1 DEF Answered, AfterHistory, AfterForecast, AfterSave, AfterRun,
                RefusedForACause, DocumentsAreTheConsumers
  <1>6. MisdeclaredLeavesNoTrace /\ ReportIsTheConsumersView
    BY <1>1 DEF MisdeclaredLeavesNoTrace, ReportIsTheConsumersView
  <1>7. CauseInv
    BY <1>3 DEF CauseInv, Heals, OneRefusalPerCause
  <1> QED BY <1>4, <1>5, <1>6, <1>7 DEF LaunchInv

(* A repaired configuration is one a launcher may declare. *)
LEMMA RepairsAreDeclarations ==
  ASSUME TypeInv, RefusedForACause, stage = "refused", NEW c \in Repaired(config)
  PROVE  c \in Declarations
  <1>1. Blame \in Refusals
    <2>1. blames \in Seq(Refusals) /\ Len(blames) > 0
      BY DEF TypeInv, RefusedForACause
    <2> HIDE DEF Refusals
    <2> QED
      BY <2>1 DEF Blame
  <1> DEFINE Types == [importable : BOOLEAN, format : {"feature_frame", "dataframe"},
                       wire : BOOLEAN, ensemble : Ensembles \cup {None}, region : Regions,
                       upload : BOOLEAN \cup {None}, env : SUBSET AllEnv,
                       directory : Directories]
  <1>2. config \in Types /\ Types = Declarations
    BY DEF TypeInv, TypeOK, Declarations
  <1> HIDE DEF Types
  <1>3. CASE \/ c = [config EXCEPT !.importable = TRUE]
             \/ c = [config EXCEPT !.format = "feature_frame"]
             \/ c = [config EXCEPT !.wire = TRUE]
    BY <1>2, <1>3 DEF Types
  <1>4. CASE \/ \E e \in Ensembles : c = [config EXCEPT !.ensemble = e]
             \/ c = [config EXCEPT !.ensemble = RunEnsemble]
             \/ c = [config EXCEPT !.region = Pinned]
    BY <1>2, <1>4, LaunchAssumption DEF Types
  <1>5. CASE c = [config EXCEPT !.env = @ \cup Blame.missing]
    BY <1>1, <1>2, <1>5 DEF Types, Refusals
  <1> QED
    BY <1>3, <1>4, <1>5 DEF Repaired

(* A refusal records its cause and changes nothing else, but that the       *)
(* sidecar may refuse over shards already staged.                           *)
LEMMA RefusalIsRecorded ==
  ASSUME LaunchInv, NEW cause \in Causes, NEW missing \in SUBSET AllEnv,
         Refuse(cause, missing)
  PROVE  /\ blames' \in Seq(Refusals)
         /\ Len(blames') = Len(blames) + 1 /\ Len(blames') > 0
         /\ blames'[Len(blames')] = Refusal(cause, missing)
         /\ \A i \in DOMAIN blames : blames'[i] = blames[i]
         /\ DOMAIN blames' = DOMAIN blames \cup {Len(blames')}
         /\ DOMAIN blames = 1..Len(blames) /\ Len(blames) \in Nat
         /\ Blame' = Refusal(cause, missing)
  <1>1. Refusal(cause, missing) \in Refusals
    BY DEF Refusal, Refusals
  <1>2. blames \in Seq(Refusals) /\ blames' = Append(blames, Refusal(cause, missing))
    BY DEF LaunchInv, TypeInv, Refuse, Refusal
  <1>3. /\ blames' \in Seq(Refusals)
        /\ Len(blames') = Len(blames) + 1
        /\ blames'[Len(blames')] = Refusal(cause, missing)
        /\ \A i \in DOMAIN blames : blames'[i] = blames[i]
        /\ DOMAIN blames' = DOMAIN blames \cup {Len(blames')}
        /\ DOMAIN blames = 1..Len(blames) /\ Len(blames) \in Nat
    BY <1>1, <1>2
  <1>4. Len(blames') > 0
    BY <1>3
  <1> QED
    BY <1>3, <1>4 DEF Blame

LEMMA RefusalKeepsLaunchInv ==
  ASSUME LaunchInv, NEW cause \in Causes, NEW missing \in SUBSET AllEnv,
         Refuse(cause, missing),
         staged' \subseteq {"shards", "sidecar", "manifest", "historical"},
         staged' # {} \/ bucket # {} => Declared,
         cause = "no ensemble" => config.ensemble = None,
         cause = "production_forecasts datastore" => missing = Missing(ShelfEnv),
         cause = "partner datastore" => missing = Missing(PartnerStoreEnv)
  PROVE  LaunchInv'
  <1>0. /\ blames' \in Seq(Refusals) /\ Len(blames') = Len(blames) + 1 /\ Len(blames') > 0
        /\ \A i \in DOMAIN blames : blames'[i] = blames[i]
        /\ blames'[Len(blames')] = Refusal(cause, missing)
        /\ DOMAIN blames' = DOMAIN blames \cup {Len(blames')}
        /\ Blame' = Refusal(cause, missing)
    BY RefusalIsRecorded
  <1>9. Refusal(cause, missing).cause = cause /\ Refusal(cause, missing).missing = missing
    BY DEF Refusal
  <1>1. /\ stage' = "refused" /\ config' = config /\ shelf' = shelf
        /\ uploading' = uploading /\ bucket' = bucket
    BY DEF Refuse
  <1>2. TypeInv'
    <2>1. /\ config' \in Declarations /\ shelf' \subseteq ShelfDocuments /\ uploading' \in BOOLEAN
          /\ \A d \in bucket' : /\ d.category \in {"forecast", "historical"}
                                /\ d.cells \subseteq GridCells /\ d.launch \in Nat
      BY <1>1 DEF LaunchInv, TypeInv, TypeOK
    <2>2. \A k \in DOMAIN blames' : blames'[k].cause \in Causes /\ blames'[k].missing \subseteq AllEnv
      <3> TAKE k \in DOMAIN blames'
      <3>1. CASE k \in DOMAIN blames
        BY <1>0, <3>1 DEF LaunchInv, TypeInv, TypeOK
      <3>2. CASE k = Len(blames')
        BY <1>0, <1>9, <3>2
      <3> QED
        BY <1>0, <3>1, <3>2
    <2> QED
      BY <1>0, <1>1, <2>1, <2>2 DEF TypeInv, TypeOK
  <1>3. Answered'
    BY <1>1 DEF Answered, AfterHistory, AfterForecast, AfterSave, AfterRun
  <1>4. RefusedForACause'
    <2>1. Len(blames') > 0
      BY <1>0
    <2>3. Blame'.cause = cause /\ Blame'.missing = missing
      BY <1>0, <1>9
    <2>2. Missing(ShelfEnv)' = Missing(ShelfEnv) /\ Missing(PartnerStoreEnv)' = Missing(PartnerStoreEnv)
      BY <1>1 DEF Missing
    <2> QED
      BY <1>1, <2>1, <2>2, <2>3 DEF RefusedForACause
  <1>5. DocumentsAreTheConsumers'
    BY <1>1 DEF LaunchInv, DocumentsAreTheConsumers
  <1>6. MisdeclaredLeavesNoTrace'
    BY <1>1 DEF MisdeclaredLeavesNoTrace, Declared, Missing, UploadEnabled
  <1>7. ReportIsTheConsumersView'
    BY <1>1 DEF ReportIsTheConsumersView
  <1> QED
    BY <1>2, <1>3, <1>4, <1>5, <1>6, <1>7 DEF LaunchInv

(* The other steps of a launch change neither what is declared nor what was *)
(* refused; what is left of each is what it stages, documents and reports.  *)
LEMMA ProgressKeepsLaunchInv ==
  ASSUME LaunchInv, UNCHANGED <<config, blames>>,
         shelf' \subseteq ShelfDocuments, uploading' \in BOOLEAN,
         stage' \in AfterHistory, Answered',
         staged' \subseteq {"shards", "sidecar", "manifest", "historical"},
         \A d \in bucket' \ bucket : d \in {Forecast, Historical} /\ d.cells \subseteq LookupCells,
         staged' # {} \/ bucket' # {} => Declared,
         ReportIsTheConsumersView'
  PROVE  LaunchInv'
  <1>1. Len(blames) \in Nat
    BY DEF LaunchInv, TypeInv
  <1>2. \A d \in bucket' : /\ d.category \in {"forecast", "historical"}
                          /\ d.cells \subseteq GridCells /\ d.launch \in Nat
                          /\ d.cells \subseteq LookupCells /\ d.name = ConsumerName
    <2> TAKE d \in bucket'
    <2>1. CASE d \in bucket
      BY <2>1 DEF LaunchInv, TypeInv, TypeOK, DocumentsAreTheConsumers
    <2>2. CASE d \in {Forecast, Historical} /\ d.cells \subseteq LookupCells
      BY <1>1, <2>2 DEF Forecast, Historical, Document, Product, ExcludedFor
    <2> QED
      BY <2>1, <2>2
  <1>3. stage' \in {"historical data", "forecast data", "save", "deliver_run", "historical leg",
                    "read-back", "staged only", "delivered", "invisible", "refused"}
        /\ stage' # "refused"
    BY DEF AfterHistory
  <1>4. TypeInv'
    BY <1>2, <1>3 DEF LaunchInv, TypeInv, TypeOK
  <1>5. RefusedForACause' /\ DocumentsAreTheConsumers'
    BY <1>2, <1>3 DEF RefusedForACause, DocumentsAreTheConsumers
  <1>6. MisdeclaredLeavesNoTrace'
    BY DEF MisdeclaredLeavesNoTrace, Declared, Missing, UploadEnabled
  <1> QED
    BY <1>4, <1>5, <1>6 DEF LaunchInv

-----------------------------------------------------------------------------
(* One step of the launch, action by action. *)

LEMMA HistoryKeepsLaunchInv ==
  ASSUME LaunchInv, ReadHistory \/ RefuseQueryset \/ RefuseFormat
  PROVE  LaunchInv'
  <1>1. staged \subseteq {"shards", "sidecar", "manifest", "historical"}
        /\ (staged # {} \/ bucket # {} => Declared)
    BY DEF LaunchInv, TypeInv, TypeOK, MisdeclaredLeavesNoTrace
  <1>2. CASE ReadHistory
    <2>1. UNCHANGED <<config, shelf, uploading, staged, bucket, blames>> /\ stage' = "forecast data"
      BY <1>2 DEF ReadHistory, Enter
    <2>2. config.importable /\ config.format = "feature_frame"
      <3>1. config \in Declarations
        BY DEF LaunchInv, TypeInv, TypeOK
      <3>2. config.importable \in BOOLEAN /\ config.format \in {"feature_frame", "dataframe"}
        BY <3>1 DEF Declarations
      <3> QED
        BY <1>2, <3>2 DEF ReadHistory, Queryset, WasImportable, FrameNative, DataFormat
    <2>3. Answered'
      BY <2>1, <2>2 DEF Answered, AfterHistory, AfterForecast, AfterSave, AfterRun
    <2>4. ReportIsTheConsumersView'
      BY <2>1 DEF ReportIsTheConsumersView
    <2>5. shelf' \subseteq ShelfDocuments /\ uploading' \in BOOLEAN /\ stage' \in AfterHistory
      BY <2>1 DEF LaunchInv, TypeInv, TypeOK, AfterHistory
    <2> QED
      BY <1>1, <2>1, <2>3, <2>4, <2>5, ProgressKeepsLaunchInv
  <1>3. CASE RefuseQueryset
    <2>1. Refuse("config_queryset import", {}) /\ staged' = staged
      BY <1>3 DEF RefuseQueryset
    <2>2. "config_queryset import" \in Causes /\ {} \in SUBSET AllEnv
      BY DEF Causes
    <2> QED
      BY <1>1, <2>1, <2>2, RefusalKeepsLaunchInv
  <1>4. CASE RefuseFormat
    <2>1. Refuse("data_format", {}) /\ staged' = staged
      BY <1>4 DEF RefuseFormat
    <2>2. "data_format" \in Causes /\ {} \in SUBSET AllEnv
      BY DEF Causes
    <2> QED
      BY <1>1, <2>1, <2>2, RefusalKeepsLaunchInv
  <1> QED
    BY <1>2, <1>3, <1>4

LEMMA ForecastKeepsLaunchInv ==
  ASSUME LaunchInv, ReadForecast \/ RefuseForecast
  PROVE  LaunchInv'
  <1>1. staged \subseteq {"shards", "sidecar", "manifest", "historical"}
        /\ (staged # {} \/ bucket # {} => Declared)
    BY DEF LaunchInv, TypeInv, TypeOK, MisdeclaredLeavesNoTrace
  <1>2. CASE ReadForecast
    <2>1. /\ UNCHANGED <<config, shelf, uploading, staged, bucket, blames>>
          /\ stage = "forecast data" /\ stage' = "save"
      BY <1>2 DEF ReadForecast, Enter
    <2>2. config.importable /\ config.format = "feature_frame" /\ config.wire /\ Missing(ShelfEnv) = {}
      BY <1>2, <2>1 DEF ReadForecast, LaunchInv, Answered, AfterHistory
    <2>3. Answered'
      BY <2>1, <2>2 DEF Answered, AfterHistory, AfterForecast, AfterSave, AfterRun, Missing
    <2>4. ReportIsTheConsumersView'
      BY <2>1 DEF ReportIsTheConsumersView
    <2>5. shelf' \subseteq ShelfDocuments /\ uploading' \in BOOLEAN /\ stage' \in AfterHistory
      BY <2>1 DEF LaunchInv, TypeInv, TypeOK, AfterHistory
    <2> QED
      BY <1>1, <2>1, <2>3, <2>4, <2>5, ProgressKeepsLaunchInv
  <1>3. CASE RefuseForecast
    <2>1. staged' = staged
      BY <1>3 DEF RefuseForecast
    <2>2. /\ {"wire_contract", "no ensemble", "production_forecasts datastore",
              "nothing published"} \subseteq Causes
          /\ {} \in SUBSET AllEnv /\ Missing(ShelfEnv) \in SUBSET AllEnv
      BY DEF Causes, Missing, ShelfEnv, AllEnv
    <2>3. CASE Refuse("wire_contract", {})
      BY <1>1, <2>1, <2>2, <2>3, RefusalKeepsLaunchInv
    <2>4. CASE config.ensemble = None /\ Refuse("no ensemble", {})
      BY <1>1, <2>1, <2>2, <2>4, RefusalKeepsLaunchInv
    <2>5. CASE Refuse("production_forecasts datastore", Missing(ShelfEnv))
      BY <1>1, <2>1, <2>2, <2>5, RefusalKeepsLaunchInv
    <2>6. CASE Refuse("nothing published", {})
      BY <1>1, <2>1, <2>2, <2>6, RefusalKeepsLaunchInv
    <2> QED
      BY <1>3, <2>3, <2>4, <2>5, <2>6 DEF RefuseForecast
  <1> QED
    BY <1>2, <1>3

LEMMA SaveKeepsLaunchInv ==
  ASSUME LaunchInv, Save \/ RefuseSave
  PROVE  LaunchInv'
  <1>1. staged \subseteq {"shards", "sidecar", "manifest", "historical"}
        /\ (staged # {} \/ bucket # {} => Declared)
    BY DEF LaunchInv, TypeInv, TypeOK, MisdeclaredLeavesNoTrace
  <1>2. CASE Save
    <2>1. /\ UNCHANGED <<config, shelf, staged, bucket, blames>>
          /\ stage = "save" /\ stage' = "deliver_run" /\ uploading' = UploadEnabled
      BY <1>2 DEF Save
    <2>2. /\ config.importable /\ config.format = "feature_frame" /\ config.wire
          /\ Missing(ShelfEnv) = {} /\ PartnerStoreBuilt
      BY <1>2, <2>1 DEF Save, LaunchInv, Answered, AfterHistory, AfterForecast
    <2>3. Answered'
      BY <2>1, <2>2 DEF Answered, AfterHistory, AfterForecast, AfterSave, AfterRun, Missing,
                        PartnerStoreBuilt, UploadEnabled
    <2>4. ReportIsTheConsumersView'
      BY <2>1 DEF ReportIsTheConsumersView
    <2>5. uploading' \in BOOLEAN
      <3>1. config \in Declarations
        BY DEF LaunchInv, TypeInv, TypeOK
      <3>2. config.upload \in BOOLEAN \cup {None}
        BY <3>1 DEF Declarations
      <3> QED
        BY <2>1, <3>2 DEF UploadEnabled, UPLOAD_ENABLED
    <2>6. shelf' \subseteq ShelfDocuments /\ stage' \in AfterHistory
      BY <2>1 DEF LaunchInv, TypeInv, TypeOK, AfterHistory
    <2> QED
      BY <1>1, <2>1, <2>3, <2>4, <2>5, <2>6, ProgressKeepsLaunchInv
  <1>3. CASE RefuseSave
    <2>1. Refuse("partner datastore", Missing(PartnerStoreEnv)) /\ staged' = staged
      BY <1>3 DEF RefuseSave
    <2>2. "partner datastore" \in Causes /\ Missing(PartnerStoreEnv) \in SUBSET AllEnv
      BY DEF Causes, Missing, PartnerStoreEnv, AllEnv
    <2> QED
      BY <1>1, <2>1, <2>2, RefusalKeepsLaunchInv
  <1> QED
    BY <1>2, <1>3

(* At deliver_run everything but the run's ensemble has been asked for. *)
LEMMA AllWasAsked ==
  ASSUME LaunchInv, stage \in AfterSave, config.ensemble = RunEnsemble
  PROVE  Declared
  BY DEF LaunchInv, Answered, AfterSave, AfterForecast, Declared, PartnerStoreBuilt

LEMMA DeliverKeepsLaunchInv ==
  ASSUME LaunchInv, DeliverRun \/ RefuseRun
  PROVE  LaunchInv'
  <1>1. staged \subseteq {"shards", "sidecar", "manifest", "historical"}
        /\ (staged # {} \/ bucket # {} => Declared)
    BY DEF LaunchInv, TypeInv, TypeOK, MisdeclaredLeavesNoTrace
  <1>2. stage = "deliver_run" /\ stage \in AfterSave
    BY DEF DeliverRun, RefuseRun, AfterSave, AfterForecast, AfterHistory
  <1>3. CASE DeliverRun
    <2>1. /\ UNCHANGED <<config, shelf, uploading, blames>>
          /\ stage' = "historical leg" /\ config.ensemble = RunEnsemble
          /\ staged' = staged \cup {"shards", "sidecar", "manifest"}
          /\ bucket' \subseteq bucket \cup {Forecast}
          /\ Forecast.cells \subseteq LookupCells
      BY <1>3 DEF DeliverRun, SidecarCovers, Forecast, Document
    <2>2. Declared
      BY <1>2, <2>1, AllWasAsked
    <2>3. Answered'
      BY <2>1, <2>2 DEF Answered, AfterHistory, AfterForecast, AfterSave, AfterRun, Missing,
                        PartnerStoreBuilt, UploadEnabled, Declared
    <2>4. ReportIsTheConsumersView'
      BY <2>1 DEF ReportIsTheConsumersView
    <2>5. shelf' \subseteq ShelfDocuments /\ uploading' \in BOOLEAN /\ stage' \in AfterHistory
          /\ staged' \subseteq {"shards", "sidecar", "manifest", "historical"}
      BY <1>1, <2>1 DEF LaunchInv, TypeInv, TypeOK, AfterHistory
    <2> QED
      BY <2>1, <2>2, <2>3, <2>4, <2>5, ProgressKeepsLaunchInv
  <1>4. CASE RefuseRun
    <2>1. "ensemble mismatch" \in Causes /\ "geography" \in Causes /\ {} \in SUBSET AllEnv
      BY DEF Causes
    <2>2. CASE Refuse("ensemble mismatch", {}) /\ staged' = staged
      BY <1>1, <2>1, <2>2, RefusalKeepsLaunchInv
    <2>3. CASE /\ config.ensemble = RunEnsemble /\ Refuse("geography", {})
               /\ staged' = staged \cup {"shards"}
      <3>1. Declared
        BY <1>2, <2>3, AllWasAsked
      <3>2. staged' \subseteq {"shards", "sidecar", "manifest", "historical"}
        BY <1>1, <2>3
      <3> QED
        BY <2>1, <2>3, <3>1, <3>2, RefusalKeepsLaunchInv
    <2> QED
      BY <1>4, <2>2, <2>3 DEF RefuseRun
  <1> QED
    BY <1>3, <1>4

LEMMA HistoricalKeepsLaunchInv ==
  ASSUME LaunchInv, HistoricalLeg
  PROVE  LaunchInv'
  <1>1. /\ UNCHANGED <<config, shelf, uploading, blames>>
        /\ stage = "historical leg" /\ stage' \in {"read-back", "staged only"}
        /\ staged' = staged \cup {"historical"} /\ bucket' \subseteq bucket \cup {Historical}
    BY DEF HistoricalLeg
  <1>2. Historical.cells \subseteq LookupCells
    BY LaunchAssumption DEF Historical, Document
  <1>3. stage \in AfterSave /\ config.ensemble = RunEnsemble
    BY <1>1 DEF LaunchInv, Answered, AfterRun, AfterSave, AfterForecast, AfterHistory
  <1>4. Declared
    BY <1>3, AllWasAsked
  <1>5. Answered'
    BY <1>1, <1>4 DEF Answered, AfterHistory, AfterForecast, AfterSave, AfterRun, Missing,
                      PartnerStoreBuilt, UploadEnabled, Declared
  <1>6. ReportIsTheConsumersView'
    BY <1>1 DEF ReportIsTheConsumersView
  <1>7. shelf' \subseteq ShelfDocuments /\ uploading' \in BOOLEAN /\ stage' \in AfterHistory
        /\ staged' \subseteq {"shards", "sidecar", "manifest", "historical"}
    BY <1>1 DEF LaunchInv, TypeInv, TypeOK, AfterHistory
  <1> QED
    BY <1>1, <1>2, <1>4, <1>5, <1>6, <1>7, ProgressKeepsLaunchInv

(* The read store asks by the consumer's name, and every document carries   *)
(* it: what the read-back finds is what the consumer is served.             *)
LEMMA FindableIsServed ==
  ASSUME DocumentsAreTheConsumers, NEW leg
  PROVE  Findable(leg) <=> Served(leg)
  BY DEF DocumentsAreTheConsumers, Findable, Served, Ask, ReadModel

LEMMA ReadBackKeepsLaunchInv ==
  ASSUME LaunchInv, ReadBack
  PROVE  LaunchInv'
  <1>1. /\ UNCHANGED <<config, shelf, uploading, staged, bucket, blames>>
        /\ stage = "read-back" /\ stage' \in {"delivered", "invisible"}
        /\ stage' = "delivered" <=> Findable("forecast") /\ Findable("historical")
    BY DEF ReadBack, Enter
  <1>2. stage \in AfterSave /\ config.ensemble = RunEnsemble
    BY <1>1 DEF LaunchInv, Answered, AfterRun, AfterSave, AfterForecast, AfterHistory
  <1>3. Declared
    BY <1>2, AllWasAsked
  <1>4. Answered'
    BY <1>1, <1>3 DEF Answered, AfterHistory, AfterForecast, AfterSave, AfterRun, Missing,
                      PartnerStoreBuilt, UploadEnabled, Declared
  <1>5. ReportIsTheConsumersView'
    <2>1. /\ Findable("forecast") <=> Served("forecast")
          /\ Findable("historical") <=> Served("historical")
      BY FindableIsServed DEF LaunchInv
    <2>2. Served("forecast")' <=> Served("forecast")
      BY <1>1 DEF Served
    <2>3. Served("historical")' <=> Served("historical")
      BY <1>1 DEF Served
    <2> QED
      BY <1>1, <2>1, <2>2, <2>3 DEF ReportIsTheConsumersView
  <1>6. shelf' \subseteq ShelfDocuments /\ uploading' \in BOOLEAN /\ stage' \in AfterHistory
        /\ staged' \subseteq {"shards", "sidecar", "manifest", "historical"}
    BY <1>1 DEF LaunchInv, TypeInv, TypeOK, AfterHistory
  <1> QED
    BY <1>1, <1>3, <1>4, <1>5, <1>6, ProgressKeepsLaunchInv

-----------------------------------------------------------------------------
(* The environment: the producer publishes, the operator repairs. *)

LEMMA PublishKeepsLaunchInv ==
  ASSUME LaunchInv, Publish
  PROVE  LaunchInv'
  <1>1. UNCHANGED <<config, stage, uploading, staged, bucket, blames>> /\ shelf' = ShelfDocuments
    BY DEF Publish
  <1>2. TypeInv'
    BY <1>1 DEF LaunchInv, TypeInv, TypeOK
  <1>3. Answered' /\ RefusedForACause' /\ DocumentsAreTheConsumers'
    BY <1>1 DEF LaunchInv, Answered, RefusedForACause, DocumentsAreTheConsumers, Missing, Blame,
                PartnerStoreBuilt, UploadEnabled
  <1>4. MisdeclaredLeavesNoTrace' /\ ReportIsTheConsumersView'
    BY <1>1 DEF LaunchInv, MisdeclaredLeavesNoTrace, ReportIsTheConsumersView, Declared, Missing,
                UploadEnabled, Served
  <1> QED
    BY <1>2, <1>3, <1>4 DEF LaunchInv

(* A repair sets a key to its one right value, or adds variables; a key is  *)
(* only ever set anew when the ensemble was missing altogether.             *)
LEMMA RepairsAreMonotone ==
  ASSUME config \in Declarations, NEW c \in Repaired(config)
  PROVE  /\ config.importable => c.importable
         /\ config.format = "feature_frame" => c.format = "feature_frame"
         /\ config.wire => c.wire
         /\ config.env \subseteq c.env
         /\ config.region = Pinned => c.region = Pinned
         /\ c.upload = config.upload
         /\ \/ c.ensemble = config.ensemble
            \/ c.ensemble = RunEnsemble
            \/ Blame.cause = "no ensemble" /\ c.ensemble \in Ensembles
  <1> DEFINE Types == [importable : BOOLEAN, format : {"feature_frame", "dataframe"},
                       wire : BOOLEAN, ensemble : Ensembles \cup {None}, region : Regions,
                       upload : BOOLEAN \cup {None}, env : SUBSET AllEnv,
                       directory : Directories]
  <1>1. config \in Types
    BY DEF Declarations
  <1>2. CASE c = [config EXCEPT !.importable = TRUE]
    BY <1>1, <1>2
  <1>3. CASE c = [config EXCEPT !.format = "feature_frame"]
    BY <1>1, <1>3
  <1>4. CASE c = [config EXCEPT !.wire = TRUE]
    BY <1>1, <1>4
  <1>5. CASE Blame.cause = "no ensemble" /\ \E e \in Ensembles : c = [config EXCEPT !.ensemble = e]
    BY <1>1, <1>5
  <1>6. CASE c = [config EXCEPT !.ensemble = RunEnsemble]
    BY <1>1, <1>6
  <1>7. CASE c = [config EXCEPT !.region = Pinned]
    BY <1>1, <1>7
  <1>8. CASE c = [config EXCEPT !.env = @ \cup Blame.missing]
    BY <1>1, <1>8
  <1> QED
    BY <1>2, <1>3, <1>4, <1>5, <1>6, <1>7, <1>8 DEF Repaired

LEMMA RelaunchKeepsLaunchInv ==
  ASSUME LaunchInv, Relaunch
  PROVE  LaunchInv'
  <1>1. /\ stage = "refused" /\ stage' = "historical data" /\ uploading' = FALSE
        /\ config' \in Repaired(config) /\ UNCHANGED <<shelf, staged, bucket, blames>>
    BY DEF Relaunch
  <1>2. config' \in Declarations
    BY <1>1, RepairsAreDeclarations DEF LaunchInv
  <1>3. TypeInv'
    BY <1>1, <1>2 DEF LaunchInv, TypeInv, TypeOK
  <1>4. Answered' /\ RefusedForACause' /\ DocumentsAreTheConsumers'
    BY <1>1 DEF LaunchInv, Answered, RefusedForACause, DocumentsAreTheConsumers,
                AfterHistory, AfterForecast, AfterSave, AfterRun
  <1>5. MisdeclaredLeavesNoTrace'
    <2>1. config \in Declarations
      BY DEF LaunchInv, TypeInv, TypeOK
    <2>2. ASSUME Declared PROVE Declared'
      <3>1. Blame.cause # "no ensemble"
        BY <1>1, <2>2, LaunchAssumption DEF LaunchInv, RefusedForACause, Declared
      <3>2. /\ config'.importable /\ config'.format = "feature_frame" /\ config'.wire
            /\ config.env \subseteq config'.env /\ config'.upload = config.upload
            /\ config'.ensemble = RunEnsemble
        BY <1>1, <2>1, <2>2, <3>1, RepairsAreMonotone DEF Declared
      <3> QED
        BY <2>2, <3>2 DEF Declared, Missing, UploadEnabled
    <2> QED
      BY <1>1, <2>2 DEF LaunchInv, MisdeclaredLeavesNoTrace
  <1>6. ReportIsTheConsumersView'
    BY <1>1 DEF ReportIsTheConsumersView
  <1> QED
    BY <1>3, <1>4, <1>5, <1>6 DEF LaunchInv

LEMMA StepKeepsLaunchInv ==
  ASSUME LaunchInv, [Next]_vars
  PROVE  LaunchInv'
  <1>1. CASE ReadHistory \/ RefuseQueryset \/ RefuseFormat
    BY <1>1, HistoryKeepsLaunchInv
  <1>2. CASE ReadForecast \/ RefuseForecast
    BY <1>2, ForecastKeepsLaunchInv
  <1>3. CASE Save \/ RefuseSave
    BY <1>3, SaveKeepsLaunchInv
  <1>4. CASE DeliverRun \/ RefuseRun
    BY <1>4, DeliverKeepsLaunchInv
  <1>5. CASE HistoricalLeg
    BY <1>5, HistoricalKeepsLaunchInv
  <1>6. CASE ReadBack
    BY <1>6, ReadBackKeepsLaunchInv
  <1>7. CASE Relaunch
    BY <1>7, RelaunchKeepsLaunchInv
  <1>8. CASE Publish
    BY <1>8, PublishKeepsLaunchInv
  <1>9. CASE UNCHANGED vars
    <2>1. UNCHANGED <<config, shelf, stage, uploading, staged, bucket, blames>>
      BY <1>9 DEF vars
    <2>2. TypeInv'
      BY <2>1 DEF LaunchInv, TypeInv, TypeOK
    <2>3. Answered' /\ RefusedForACause' /\ DocumentsAreTheConsumers'
      BY <2>1 DEF LaunchInv, Answered, RefusedForACause, DocumentsAreTheConsumers, Missing, Blame,
                  PartnerStoreBuilt, UploadEnabled
    <2>4. MisdeclaredLeavesNoTrace' /\ ReportIsTheConsumersView'
      BY <2>1 DEF LaunchInv, MisdeclaredLeavesNoTrace, ReportIsTheConsumersView, Declared, Missing,
                  UploadEnabled, Served
    <2> QED
      BY <2>2, <2>3, <2>4 DEF LaunchInv
  <1> QED
    BY <1>1, <1>2, <1>3, <1>4, <1>5, <1>6, <1>7, <1>8, <1>9 DEF Next, Launch

(* The inductive invariant: what was asked is answered, every refusal has   *)
(* its cause, and what was left behind was declared.                        *)
THEOREM LaunchIsAnswered == Spec => []LaunchInv
  <1>1. Init => LaunchInv
    BY InitLaunch
  <1>2. LaunchInv /\ [Next]_vars => LaunchInv'
    BY StepKeepsLaunchInv
  <1> QED
    BY <1>1, <1>2, PTL DEF Spec

(* Every variable of a launch keeps its type. *)
THEOREM LaunchTypes == Spec => []TypeOK
  <1>1. LaunchInv => TypeOK
    BY DEF LaunchInv, TypeInv
  <1> QED
    BY <1>1, LaunchIsAnswered, PTL

(* A misdeclared launch leaves neither a staged file nor a document: each   *)
(* of _read_historical_data, _read_forecast_data and _save_contract asks    *)
(* before the first effect.                                                 *)
THEOREM NoTrace == Spec => []MisdeclaredLeavesNoTrace
  <1>1. LaunchInv => MisdeclaredLeavesNoTrace
    BY DEF LaunchInv
  <1> QED
    BY <1>1, LaunchIsAnswered, PTL

(* No document holds a cell without geography, whatever region was          *)
(* declared: build_sidecar refuses where the coverage gates do not apply.   *)
THEOREM OnlyKnownCells == Spec => []NoCellWithoutGeography
  <1>1. LaunchInv => NoCellWithoutGeography
    BY DEF LaunchInv, DocumentsAreTheConsumers, NoCellWithoutGeography
  <1> QED
    BY <1>1, LaunchIsAnswered, PTL

(* The read-back of _assert_delivery_is_findable says complete exactly when *)
(* the consumer is served both legs, whatever the directory is called.      *)
THEOREM ReportIsTrue == Spec => []ReportIsTheConsumersView
  <1>1. LaunchInv => ReportIsTheConsumersView
    BY DEF LaunchInv
  <1> QED
    BY <1>1, LaunchIsAnswered, PTL

-----------------------------------------------------------------------------
(* One refusal per cause. *)

(* What is healed stays healed while what is declared does not change. *)
LEMMA HealedStays ==
  ASSUME NEW cause, Healed(cause), config' = config, shelf # {} => shelf' # {}
  PROVE  Healed(cause)'
  BY DEF Healed, Missing

(* A refusal whose cause is not healed is a new one. *)
LEMMA RefusalIsNew ==
  ASSUME LaunchInv, CauseInv, stage # "refused",
         NEW cause \in Causes, NEW missing \in SUBSET AllEnv,
         Refuse(cause, missing), ~Healed(cause)
  PROVE  CauseInv'
  <1>1. /\ \A i \in DOMAIN blames : blames'[i] = blames[i]
        /\ blames'[Len(blames')] = Refusal(cause, missing)
        /\ DOMAIN blames' = DOMAIN blames \cup {Len(blames')}
    BY RefusalIsRecorded
  <1>2. blames'[Len(blames')].cause = cause
    BY <1>1 DEF Refusal
  <1>3. stage' = "refused" /\ config' = config /\ shelf' = shelf
    BY DEF Refuse
  <1>4. ASSUME NEW c \in Causes, NEW i \in DOMAIN blames, blames[i].cause = c
        PROVE  Healed(c)
    BY <1>4 DEF CauseInv, Heals
  <1>5. Heals'
    <2> SUFFICES ASSUME NEW c \in Causes, NEW i \in DOMAIN blames',
                        blames'[i].cause = c, i # Len(blames')
                 PROVE  Healed(c)'
      BY <1>3 DEF Heals
    <2>1. i \in DOMAIN blames /\ blames[i].cause = c
      BY <1>1
    <2> QED
      BY <1>3, <1>4, <2>1, HealedStays
  <1>6. \A k \in DOMAIN blames : blames'[k].cause # cause
    BY <1>1, <1>4
  <1>7. OneRefusalPerCause'
    BY <1>1, <1>2, <1>6 DEF CauseInv, OneRefusalPerCause
  <1> QED
    BY <1>5, <1>7 DEF CauseInv

(* A step that refuses nothing and declares nothing. *)
LEMMA ProgressKeepsCauseInv ==
  ASSUME CauseInv, UNCHANGED <<config, blames>>, shelf # {} => shelf' # {},
         stage' = stage \/ stage # "refused"
  PROVE  CauseInv'
  <1>1. Heals'
    <2> SUFFICES ASSUME NEW c \in Causes, NEW i \in DOMAIN blames, blames[i].cause = c
                 PROVE  Healed(c)' \/ (stage' = "refused" /\ i = Len(blames))
      BY DEF Heals
    <2>1. Healed(c) \/ (stage = "refused" /\ i = Len(blames))
      BY DEF CauseInv, Heals
    <2> QED
      BY <2>1, HealedStays
  <1>2. OneRefusalPerCause'
    BY DEF CauseInv, OneRefusalPerCause
  <1> QED
    BY <1>1, <1>2 DEF CauseInv

LEMMA RefusalsAreNew ==
  ASSUME LaunchInv, CauseInv,
         RefuseQueryset \/ RefuseFormat \/ RefuseForecast \/ RefuseSave \/ RefuseRun
  PROVE  CauseInv'
  <1>1. stage # "refused"
    BY DEF RefuseQueryset, RefuseFormat, RefuseForecast, RefuseSave, RefuseRun
  <1>2. /\ {"config_queryset import", "data_format", "wire_contract", "no ensemble",
            "production_forecasts datastore", "nothing published", "partner datastore",
            "ensemble mismatch", "geography"} = Causes
        /\ {} \in SUBSET AllEnv /\ Missing(ShelfEnv) \in SUBSET AllEnv
        /\ Missing(PartnerStoreEnv) \in SUBSET AllEnv
    BY DEF Causes, Missing, ShelfEnv, PartnerStoreEnv, AllEnv
  <1>3. config \in Declarations /\ shelf \subseteq ShelfDocuments
    BY DEF LaunchInv, TypeInv, TypeOK
  <1>4. config.format \in {"feature_frame", "dataframe"}
    BY <1>3 DEF Declarations
  <1>5. CASE RefuseQueryset
    <2>1. ~Healed("config_queryset import")
      BY <1>4, <1>5, LaunchAssumption DEF RefuseQueryset, WasImportable, Queryset, Healed
    <2>2. Refuse("config_queryset import", {})
      BY <1>5 DEF RefuseQueryset
    <2> QED
      BY <1>1, <1>2, <2>1, <2>2, RefusalIsNew
  <1>6. CASE RefuseFormat
    <2>1. ~Healed("data_format")
      BY <1>4, <1>6, LaunchAssumption DEF RefuseFormat, WasImportable, FrameNative, DataFormat,
                                          Queryset, Healed
    <2>2. Refuse("data_format", {})
      BY <1>6 DEF RefuseFormat
    <2> QED
      BY <1>1, <1>2, <2>1, <2>2, RefusalIsNew
  <1>7. CASE RefuseForecast
    <2>1. CASE ~config.wire /\ Refuse("wire_contract", {})
      <3>1. ~Healed("wire_contract")
        BY <2>1 DEF Healed
      <3> QED
        BY <1>1, <1>2, <2>1, <3>1, RefusalIsNew
    <2>2. CASE config.ensemble = None /\ Refuse("no ensemble", {})
      <3>1. ~Healed("no ensemble")
        BY <2>2 DEF Healed
      <3> QED
        BY <1>1, <1>2, <2>2, <3>1, RefusalIsNew
    <2>3. CASE /\ Missing(ShelfEnv) # {}
               /\ Refuse("production_forecasts datastore", Missing(ShelfEnv))
      <3>1. ~Healed("production_forecasts datastore")
        BY <2>3 DEF Healed
      <3> QED
        BY <1>1, <1>2, <2>3, <3>1, RefusalIsNew
    <2>4. CASE ResolvedManifests = {} /\ Refuse("nothing published", {})
      <3>1. shelf = {}
        <4>1. ASSUME NEW d \in shelf PROVE d.category = "manifest"
          <5>1. d = [category |-> "manifest", name |-> "a run's artifact"]
            BY <1>3 DEF ShelfDocuments
          <5> QED
            BY <5>1
        <4>2. ASSUME NEW d \in shelf PROVE d \in ResolvedManifests
          BY <4>1, <4>2 DEF ResolvedManifests, Ask, ProdForecastsModel
        <4> QED
          BY <2>4, <4>2
      <3>2. ~Healed("nothing published")
        BY <3>1 DEF Healed
      <3> QED
        BY <1>1, <1>2, <2>4, <3>2, RefusalIsNew
    <2> QED
      BY <1>7, <2>1, <2>2, <2>3, <2>4 DEF RefuseForecast
  <1>8. CASE RefuseSave
    <2>1. ~Healed("partner datastore")
      BY <1>8 DEF RefuseSave, PartnerStoreBuilt, Healed
    <2>2. Refuse("partner datastore", Missing(PartnerStoreEnv))
      BY <1>8 DEF RefuseSave
    <2> QED
      BY <1>1, <1>2, <2>1, <2>2, RefusalIsNew
  <1>9. CASE RefuseRun
    <2>1. CASE config.ensemble # RunEnsemble /\ Refuse("ensemble mismatch", {})
      <3>1. ~Healed("ensemble mismatch")
        BY <2>1 DEF Healed
      <3> QED
        BY <1>1, <1>2, <2>1, <3>1, RefusalIsNew
    <2>2. CASE ~SidecarCovers(Product) /\ Refuse("geography", {})
      <3>1. ~Healed("geography")
        BY <2>2, LaunchAssumption DEF SidecarCovers, Product, ExcludedFor, Healed
      <3> QED
        BY <1>1, <1>2, <2>2, <3>1, RefusalIsNew
    <2> QED
      BY <1>9, <2>1, <2>2 DEF RefuseRun
  <1> QED
    BY <1>5, <1>6, <1>7, <1>8, <1>9

(* The operator's repair heals the cause refused last and no other suffers. *)
LEMMA RelaunchHeals ==
  ASSUME LaunchInv, CauseInv, Relaunch
  PROVE  CauseInv'
  <1>1. /\ stage = "refused" /\ config' \in Repaired(config) /\ UNCHANGED <<shelf, blames>>
        /\ Blame.cause = "nothing published" => shelf # {}
    BY DEF Relaunch
  <1>2. config \in Declarations
    BY DEF LaunchInv, TypeInv, TypeOK
  <1>3. blames \in Seq(Refusals) /\ Len(blames) > 0
    BY <1>1 DEF LaunchInv, TypeInv, RefusedForACause
  <1>4. Blame \in Refusals /\ Blame = blames[Len(blames)]
    <2> HIDE DEF Refusals
    <2> QED
      BY <1>3 DEF Blame
  <1>5. Blame.cause \in Causes
    BY <1>4 DEF Refusals
  <1>6. /\ config.importable => config'.importable
        /\ config.format = "feature_frame" => config'.format = "feature_frame"
        /\ config.wire => config'.wire
        /\ config.env \subseteq config'.env
        /\ config.region = Pinned => config'.region = Pinned
        /\ \/ config'.ensemble = config.ensemble
           \/ config'.ensemble = RunEnsemble
           \/ Blame.cause = "no ensemble" /\ config'.ensemble \in Ensembles
    BY <1>1, <1>2, RepairsAreMonotone
  <1>7. ASSUME NEW cause, Healed(cause)
        PROVE  Healed(cause)'
    <2>1. cause = "no ensemble" => config'.ensemble # None
      <3>1. RunEnsemble # None /\ \A e \in Ensembles : e # None
        BY LaunchAssumption
      <3> QED
        BY <1>6, <1>7, <3>1 DEF Healed
    <2>2. cause = "ensemble mismatch" => config'.ensemble = RunEnsemble
      <3>1. Blame.cause = "no ensemble" => config.ensemble = None
        BY <1>1 DEF LaunchInv, RefusedForACause
      <3>2. RunEnsemble # None
        BY LaunchAssumption
      <3> QED
        BY <1>6, <1>7, <3>1, <3>2 DEF Healed
    <2>3. /\ Missing(ShelfEnv) = {} => Missing(ShelfEnv)' = {}
          /\ Missing(PartnerStoreEnv) = {} => Missing(PartnerStoreEnv)' = {}
      BY <1>6 DEF Missing, ShelfEnv, PartnerStoreEnv
    <2> QED
      BY <1>1, <1>6, <1>7, <2>1, <2>2, <2>3 DEF Healed
  <1>8. \A cause \in Causes : Blame.cause = cause => Healed(cause)'
    <2> DEFINE Types == [importable : BOOLEAN, format : {"feature_frame", "dataframe"},
                         wire : BOOLEAN, ensemble : Ensembles \cup {None}, region : Regions,
                         upload : BOOLEAN \cup {None}, env : SUBSET AllEnv,
                         directory : Directories]
    <2>1. config \in Types
      BY <1>2 DEF Declarations
    <2>2. CASE Blame.cause = "config_queryset import"
      BY <1>1, <2>1, <2>2 DEF Repaired, Healed
    <2>3. CASE Blame.cause = "data_format"
      BY <1>1, <2>1, <2>3 DEF Repaired, Healed
    <2>4. CASE Blame.cause = "wire_contract"
      BY <1>1, <2>1, <2>4 DEF Repaired, Healed
    <2>5. CASE Blame.cause = "no ensemble"
      <3>1. PICK e \in Ensembles : config' = [config EXCEPT !.ensemble = e]
        BY <1>1, <2>5 DEF Repaired
      <3>2. e # None
        BY LaunchAssumption
      <3> QED
        BY <2>1, <2>5, <3>1, <3>2 DEF Healed
    <2>6. CASE Blame.cause = "ensemble mismatch"
      BY <1>1, <2>1, <2>6 DEF Repaired, Healed
    <2>7. CASE Blame.cause = "geography"
      BY <1>1, <2>1, <2>7 DEF Repaired, Healed
    <2>8. CASE Blame.cause \in {"production_forecasts datastore", "partner datastore"}
      <3>1. config' = [config EXCEPT !.env = @ \cup Blame.missing]
        BY <1>1, <2>8 DEF Repaired
      <3>2. config'.env = config.env \cup Blame.missing
        BY <2>1, <3>1
      <3>3. /\ Blame.cause = "production_forecasts datastore" => Blame.missing = Missing(ShelfEnv)
            /\ Blame.cause = "partner datastore" => Blame.missing = Missing(PartnerStoreEnv)
        BY <1>1 DEF LaunchInv, RefusedForACause
      <3> QED
        BY <2>8, <3>2, <3>3 DEF Healed, Missing
    <2>9. CASE Blame.cause = "nothing published"
      BY <1>1, <2>9 DEF Healed
    <2> QED
      BY <1>5, <2>2, <2>3, <2>4, <2>5, <2>6, <2>7, <2>8, <2>9 DEF Causes
  <1>9. Heals'
    <2> SUFFICES ASSUME NEW c \in Causes, NEW i \in DOMAIN blames, blames[i].cause = c
                 PROVE  Healed(c)'
      BY <1>1 DEF Heals
    <2>1. CASE Healed(c)
      BY <1>7, <2>1
    <2>2. CASE i = Len(blames)
      BY <1>4, <1>8, <2>2
    <2> QED
      BY <2>1, <2>2 DEF CauseInv, Heals
  <1> QED
    BY <1>1, <1>9 DEF CauseInv, OneRefusalPerCause

LEMMA StepKeepsCauseInv ==
  ASSUME LaunchInv, CauseInv, [Next]_vars
  PROVE  CauseInv'
  <1>1. CASE RefuseQueryset \/ RefuseFormat \/ RefuseForecast \/ RefuseSave \/ RefuseRun
    BY <1>1, RefusalsAreNew
  <1>2. CASE ReadHistory \/ ReadForecast \/ Save \/ DeliverRun \/ HistoricalLeg \/ ReadBack
    <2>1. UNCHANGED <<config, shelf, blames>> /\ stage # "refused"
      BY <1>2 DEF ReadHistory, ReadForecast, Save, DeliverRun, HistoricalLeg, ReadBack, Enter
    <2> QED
      BY <2>1, ProgressKeepsCauseInv
  <1>3. CASE Relaunch
    BY <1>3, RelaunchHeals
  <1>4. CASE Publish
    <2>1. UNCHANGED <<config, blames>> /\ shelf = {} /\ stage' = stage
      BY <1>4 DEF Publish
    <2> QED
      BY <2>1, ProgressKeepsCauseInv
  <1>5. CASE UNCHANGED vars
    BY <1>5, ProgressKeepsCauseInv DEF vars
  <1> QED
    BY <1>1, <1>2, <1>3, <1>4, <1>5 DEF Next, Launch

(* No refusal of assert_env_declared, of launch_config or of the delivery   *)
(* is met twice by an operator who repairs what it names.                   *)
THEOREM NoCauseTwice == Spec => []OneRefusalPerCause
  <1>1. Init => LaunchInv /\ CauseInv
    BY InitLaunch
  <1>2. LaunchInv /\ CauseInv /\ [Next]_vars => (LaunchInv /\ CauseInv)'
    BY StepKeepsLaunchInv, StepKeepsCauseInv
  <1>3. LaunchInv /\ CauseInv => OneRefusalPerCause
    BY DEF CauseInv
  <1> QED
    BY <1>1, <1>2, <1>3, PTL DEF Spec
=============================================================================
