---------------------------- MODULE MCSyncTimer -----------------------------
(***************************************************************************)
(* Small instances of SyncTimer for TLC.                                   *)
(***************************************************************************)
EXTENDS SyncTimerProps

\* The default, and in the network-aware mode the configured minimum too.
Intervals ==
  [md \in Modes |-> IF md = "adaptive" THEN {30000} ELSE {4000, 30000}]
=============================================================================
