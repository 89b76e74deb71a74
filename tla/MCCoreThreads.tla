--------------------------- MODULE MCCoreThreads ----------------------------
(***************************************************************************)
(* Small instances of CoreThreads for TLC.                                 *)
(***************************************************************************)
EXTENDS CoreThreadsProps, TLC

CONSTANTS t1, t2, s1, other

\* One thread that publishes beside the event loop, and two under one name.
OneThread == t1 :> s1
OneStream == t1 :> s1 @@ t2 :> s1

\* A node that announced two numbers before it was started again, and a new one.
Restarted == s1 :> 2
FirstRun  == s1 :> 0
=============================================================================
