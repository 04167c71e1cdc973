----------------------------- MODULE MCGallWork -----------------------------
(***************************************************************************)
(* Instances of GallWork: two dispatches of different epochs in one work   *)
(* surface, the first given its directory through a symbolic link and the  *)
(* second by its real path.                                                *)
(***************************************************************************)
EXTENDS GallWork

CONSTANTS w1, w2, e1, e2

MCEpochOf  == [w \in Worker |-> IF w = w1 THEN e1 ELSE e2]
MCDir      == {"link", "real"}
MCCwdOf    == [w \in Worker |-> IF w = w1 THEN "link" ELSE "real"]
MCRealpath == [d \in MCDir |-> "real"]

\* Without XAAS_LEASE_ID every worker of a directory shares its lease files;
\* with it each has files of its own.
MCLegacyKey   == {"legacy"}
MCLegacyKeyOf == [w \in Worker |-> "legacy"]
MCEpochKey    == {"k1", "k2"}
MCEpochKeyOf  == [w \in Worker |-> IF w = w1 THEN "k1" ELSE "k2"]
=============================================================================
