--------------------------- MODULE MCPartnerLaunch ---------------------------
(***************************************************************************)
(* CRAF'd's launch with every combination of declarations: five            *)
(* environment variables, of which the two Appwrite stores share three,    *)
(* two ensembles, a region the code pins and one it does not know, and a   *)
(* postprocessor directory with or without the consumer's name.            *)
(***************************************************************************)
EXTENDS PartnerLaunch

CONSTANTS endpoint, key, database, shelfBucket, crafdBucket, e1, e2, c1, c2

MCDirectories      == {ConsumerName, "renamed"}
MCConnectionEnv    == {endpoint, key}
MCProdForecastsEnv == {shelfBucket, database}
MCPartnerEnv       == {crafdBucket, database}
=============================================================================
