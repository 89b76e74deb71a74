---------------------------- MODULE SyncCoreProps ---------------------------
(***************************************************************************)
(* What the synchronisation protocol of SyncCore is required to do.        *)
(***************************************************************************)
EXTENDS SyncCore

-----------------------------------------------------------------------------
(* Safety. *)

\* What is recorded during suppression is already in the local vector. This is
\* why retxSyncInterest may drop the missingInfo of the merge it makes with
\* m_recordedVv: there is never anything in it (core.cpp:803).
RecordedIsKnown ==
  \A n \in Nodes : Suppressing(n) => recordedVv[n] \preceq vv[n]

\* No vector in the system, held, recorded or in flight, is ahead of what a
\* producer published, restarts and stale Sync Interests included.
NoPhantom ==
  /\ \A n \in Nodes : vv[n] \preceq published
  /\ \A n \in Nodes : Suppressing(n) => recordedVv[n] \preceq published
  /\ \A msg \in net : msg.sv \preceq published

\* Every sequence number of another node that the local vector covers was
\* handed to m_onUpdate exactly once since the node started: the ranges of
\* missing data neither overlap nor leave a gap.
ReportedOnce ==
  \A n \in Nodes : \A m \in Nodes \ {n} : reported[n][m] = vv[n][m]

-----------------------------------------------------------------------------
(* What a step may not do. *)

\* A node that does not restart never loses an entry or moves one backward,
\* whatever stale or partial vector arrives.
Monotonic ==
  [][\A n \in Nodes : restarts' = restarts => vv[n] \preceq vv'[n]]_vars

InSync ==
  /\ \A n, m \in Nodes : phase[n] = "running" /\ vv[n] = vv[m]
  /\ \A msg \in net : msg.sv \in SyncVectors(vv[msg.from], msg.from, Limit)

\* In a group whose members all hold the same state, and sent nothing else, an
\* incoming vector is identical to the local one: it resets the timer, and
\* starts no suppression (core.cpp:762).
Quiescence ==
  [][InSync => \A n \in Nodes : ~ Suppressing(n) => ~ Suppressing(n)']_vars

-----------------------------------------------------------------------------
(* Progress. *)

\* Suppression ends: the timer that was running when it began, or a sooner
\* one, fires, and no stream of incoming Sync Interests puts it off.
SuppressionEnds ==
  \A n \in Nodes : Suppressing(n) ~> ~ Suppressing(n)

\* Whatever a producer publishes becomes known to every node.
Dissemination ==
  \A n, m \in Nodes : \A seq \in 1 .. MaxSeq :
    (vv[m][m] >= seq) ~> (vv[n][m] >= seq)

\* The members end up with the same state, though some lost theirs.
Agreement == <>[](\A n, m \in Nodes : vv[n] = vv[m])

-----------------------------------------------------------------------------
(* The protocol implements what GroupSync promises the application. *)

Group == INSTANCE GroupSync WITH known <- vv, told <- reported

\* Every step of the protocol is news reported once, a publication, a restart,
\* or invisible to the application.
ImplementsGroupSync == Group!Spec
=============================================================================
