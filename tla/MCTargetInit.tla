---------------------------- MODULE MCTargetInit ----------------------------
(* Values of the constants of TargetInit for TLC.                          *)
EXTENDS TargetInit

BothKinds == {"mounted_nfs_v4", "gcs"}
=============================================================================
