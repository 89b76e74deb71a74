----------------------------- MODULE MCSyncCore -----------------------------
(***************************************************************************)
(* Small instances of SyncCore for TLC; the cfgs give the constants.       *)
(***************************************************************************)
EXTENDS SyncCoreProps
=============================================================================
