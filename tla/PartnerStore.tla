---------------------------- MODULE PartnerStore ----------------------------
(***************************************************************************)
(* The partner's bucket, seen through the store port (unfao/store_port.py) *)
(* and through the consumer's queries.  The store itself (Appwrite behind  *)
(* pipeline-core) is not in this repository: what it may answer is taken   *)
(* from how the port, the sink and the findability guard defend against    *)
(* it.                                                                     *)
(*                                                                         *)
(* A file is never removed (no code here deletes), so the bucket is the    *)
(* sequence of files in creation order and a file id is a position in it.  *)
(* A file becomes visible to queries only through its metadata document:   *)
(* an upload can leave the file without one (register C-79).  Every        *)
(* document in the model carries the partner's pinned consumer name, so    *)
(* that filter is left out of the queries.                                 *)
(***************************************************************************)
EXTENDS Naturals, Sequences, FiniteSets

CONSTANTS
    Launches,        \* executions of the delivery, concurrent or one after the other
    Dedup,           \* does the store decline a second copy of identical bytes?
    OrderedQueries,  \* is the first document of a query the newest one?
    NoId             \* what a query answers when nothing matches

ASSUME StoreAssumption == Dedup \in BOOLEAN /\ OrderedQueries \in BOOLEAN

VARIABLE bucket

ShardType    == "sampled_forecast_shard"
SidecarType  == "sampled_forecast_sidecar"
ManifestType == "sampled_forecast_manifest"
HistoryType  == "model"

Types == {ShardType, SidecarType, ManifestType, HistoryType}
Forecast   == "forecast"
Historical == "historical"

(* What store.upload is handed: a local file and the fields of its document. *)
Upload(name, type, category, content) ==
    [name |-> name, type |-> type, category |-> category, content |-> content]

FileIds == DOMAIN bucket

Documented(i) == bucket[i].documented

-----------------------------------------------------------------------------
(* What one upload_data call may do.  "by" is a history field: the launch   *)
(* that created the file.                                                   *)

Stored(l, obj, documented) ==
    Append(bucket, [name |-> obj.name, type |-> obj.type, category |-> obj.category,
                    content |-> obj.content, documented |-> documented, by |-> l])

(* The files whose bytes the content-addressed store would recognise. *)
Twins(obj) ==
    IF Dedup THEN {i \in FileIds : Documented(i) /\ bucket[i].content = obj.content}
             ELSE {}

(* success=True: the file landed with its document, or the store declined   *)
(* the copy and answered with the id of the file that holds these bytes     *)
(* already, whose document keeps the name it was uploaded under.            *)
UploadSucceeds(l, obj, id) ==
    \/ /\ Twins(obj) = {}
       /\ id = Len(bucket) + 1
       /\ bucket' = Stored(l, obj, TRUE)
    \/ /\ id \in Twins(obj)
       /\ UNCHANGED bucket

(* success=False or an exception: nothing landed, or the file without its   *)
(* document, or all of it and only the answer was lost.                     *)
UploadFails(l, obj) ==
    \/ UNCHANGED bucket
    \/ Twins(obj) = {} /\ \E documented \in BOOLEAN : bucket' = Stored(l, obj, documented)

-----------------------------------------------------------------------------
(* Queries.  get_latest_file_id takes the first element of the result: the  *)
(* newest match when the store orders its answers, any match when not.      *)

Matching(category, types) ==
    {i \in FileIds : Documented(i) /\ bucket[i].category = category /\ bucket[i].type \in types}

LatestIds(category, types) ==
    LET found == Matching(category, types)
    IN  IF found = {} THEN {NoId}
        ELSE IF OrderedQueries THEN {i \in found : \A j \in found : j <= i}
        ELSE found

(* Filename resolution: the documents of a scope that carry a filename. *)
CarriersOf(name, category, type) ==
    {i \in Matching(category, {type}) : bucket[i].name = name}

-----------------------------------------------------------------------------
(* The consumer (views-faoapi, outside the repository): the newest manifest *)
(* names the run; each listed object is fetched by its filename and must    *)
(* have the bytes the manifest pins.  Document order being unspecified, an  *)
(* object is safe to fetch only when every carrier of its name has them.    *)

ManifestIds == Matching(Forecast, {ManifestType})

Resolves(entry, type) ==
    \E j \in CarriersOf(entry.name, Forecast, type) : bucket[j].content = entry.sha256

ServesUnambiguously(entry, type) ==
    \A j \in CarriersOf(entry.name, Forecast, type) : bucket[j].content = entry.sha256

Servable(i) ==
    /\ bucket[i].content.kind = "manifest"
    /\ \A e \in bucket[i].content.shards :
          Resolves(e, ShardType) /\ ServesUnambiguously(e, ShardType)
    /\ LET e == bucket[i].content.sidecar
       IN  Resolves(e, SidecarType) /\ ServesUnambiguously(e, SidecarType)
=============================================================================
