------------------------------ MODULE SyncCore ------------------------------
(***************************************************************************)
(* The State Vector Sync protocol of SVSyncCore (core.cpp): a group of     *)
(* nodes multicasts Sync Interests that carry slices of their state        *)
(* vectors over a network that may lose and reorder them.                  *)
(*                                                                         *)
(* One step is one handler run by a node's event loop: the application     *)
(* publishing, a Sync Interest arriving, the retransmission timer firing.  *)
(* A timer is known by what it was armed for; how long each kind lasts is  *)
(* left open, so timers of different kinds and nodes expire in any order.  *)
(***************************************************************************)
EXTENDS StateVectors

CONSTANTS
  Producers,      \* nodes whose application publishes
  MaxSeq,         \* bound: sequence numbers published per node
  Limit,          \* getStateVectorLimit: entries in one Sync Interest
  MaxInFlight,    \* bound: Sync Interests in flight on one link
  MaxRestarts,    \* bound: restarts of all nodes together
  MinSendGap,     \* NDN_SVS_MIN_SEND_INTERVAL > 0?
  NoVector        \* the null m_recordedVv

ASSUME ProducersAssumption == Producers \subseteq Nodes
ASSUME BoundsAssumption ==
  /\ MaxSeq \in Nat
  /\ Limit \in Nat \ {0}
  /\ MaxInFlight \in Nat
  /\ MaxRestarts \in Nat
  /\ MinSendGap \in BOOLEAN
ASSUME NoVectorAssumption == NoVector \notin Vectors

VARIABLES
  vv,          \* m_vv of each node
  fresh,       \* entries of m_vv younger than m_maxSuppressionTime
  recordedVv,  \* m_recordedVv: not NoVector exactly in suppression state
  timer,       \* what m_retxEvent is armed for, "due" once it has expired
  phase,       \* "created", "starting" (prefix registered), "running" (m_initialized)
  txGap,       \* the last transmission is less than m_minSendInterval ago
  net,         \* Sync Interests in flight, one copy per receiver
  published,   \* history: the largest sequence number a node ever published
  reported,    \* history: sequence numbers m_onUpdate handed to the application
  restarts     \* counts restarts

vars == <<vv, fresh, recordedVv, timer, phase, txGap, net,
          published, reported, restarts>>

Timers == {"off", "local", "soon", "period", "due"}
Phases == {"created", "starting", "running"}
Messages == [from : Nodes, to : Nodes, sv : Vectors]

TypeOK ==
  /\ vv \in [Nodes -> Vectors]
  /\ fresh \in [Nodes -> SUBSET Nodes]
  /\ recordedVv \in [Nodes -> Vectors \union {NoVector}]
  /\ timer \in [Nodes -> Timers]
  /\ phase \in [Nodes -> Phases]
  /\ txGap \in [Nodes -> BOOLEAN]
  /\ net \subseteq Messages
  /\ published \in Vectors
  /\ reported \in [Nodes -> Vectors]
  /\ restarts \in Nat

Init ==
  /\ vv = [n \in Nodes |-> EmptyVector]
  /\ fresh = [n \in Nodes |-> {}]
  /\ recordedVv = [n \in Nodes |-> NoVector]
  /\ timer = [n \in Nodes |-> "off"]
  /\ phase = [n \in Nodes |-> "created"]
  /\ txGap = [n \in Nodes |-> FALSE]
  /\ net = {}
  /\ published = EmptyVector
  /\ reported = [n \in Nodes |-> EmptyVector]
  /\ restarts = 0

-----------------------------------------------------------------------------
(* The network: multicast to the group, bounded per link. *)

InFlight(p, n) == {msg \in net : msg.from = p /\ msg.to = n}

HasRoom(p, n) == Cardinality(InFlight(p, n)) < MaxInFlight

\* expressInterest on the group prefix; a copy that finds its link full is lost.
Multicast(n, sv) ==
  net' = net \union { [from |-> n, to |-> m, sv |-> sv] :
                      m \in {p \in Nodes \ {n} : HasRoom(n, p)} }

Lose(msg) ==
  /\ net' = net \ {msg}
  /\ UNCHANGED <<vv, fresh, recordedVv, timer, phase, txGap,
                 published, reported, restarts>>

-----------------------------------------------------------------------------
(* The transmission half of retxSyncInterest, entered with send = true. *)

Suppressing(n) == recordedVv[n] # NoVector

\* mergeStateVector(*m_recordedVv), evaluated only in suppression state.
MergeRecorded(n) == MergeStateVector(vv[n], fresh[n], recordedVv[n])

\* Too soon after the last transmission: only the timer is moved.
HoldSyncInterest(n) ==
  /\ txGap[n]
  /\ timer' = [timer EXCEPT ![n] = "soon"]
  /\ UNCHANGED <<vv, fresh, recordedVv, net, txGap>>

\* Steady state: the Sync Interest is sent without any comparison.
SendSteady(n, initialized) ==
  /\ ~ txGap[n]
  /\ ~ Suppressing(n)
  /\ timer' = [timer EXCEPT ![n] = "period"]
  /\ IF initialized
       THEN /\ \E sv \in SyncVectors(vv[n], n, Limit) : Multicast(n, sv)
            /\ txGap' = [txGap EXCEPT ![n] = MinSendGap]
       ELSE UNCHANGED <<net, txGap>>
  /\ UNCHANGED <<vv, fresh, recordedVv>>

\* Suppression state ends here: the Sync Interest is sent only if the local
\* vector is newer than everything recorded. Nothing learned is reported.
SendUnlessCovered(n, initialized) ==
  LET result == MergeRecorded(n)
  IN  /\ ~ txGap[n]
      /\ Suppressing(n)
      /\ vv' = [vv EXCEPT ![n] = result.vv]
      /\ fresh' = [fresh EXCEPT ![n] = result.fresh]
      /\ recordedVv' = [recordedVv EXCEPT ![n] = NoVector]
      /\ timer' = [timer EXCEPT ![n] = "period"]
      /\ IF initialized /\ result.myVectorNew
           THEN /\ \E sv \in SyncVectors(result.vv, n, Limit) : Multicast(n, sv)
                /\ txGap' = [txGap EXCEPT ![n] = MinSendGap]
           ELSE UNCHANGED <<net, txGap>>

RetxSyncInterest(n, initialized) ==
  \/ HoldSyncInterest(n)
  \/ SendSteady(n, initialized)
  \/ SendUnlessCovered(n, initialized)

-----------------------------------------------------------------------------
(* The handlers of one node. *)

\* The sync prefix is registered: sendInitialInterest schedules the first send.
OnRegistered(n) ==
  /\ phase[n] = "created"
  /\ phase' = [phase EXCEPT ![n] = "starting"]
  /\ UNCHANGED <<vv, fresh, recordedVv, timer, txGap, net,
                 published, reported, restarts>>

\* 100 ms later m_initialized is set and the first Sync Interest goes out.
InitialEvent(n) ==
  /\ phase[n] = "starting"
  /\ phase' = [phase EXCEPT ![n] = "running"]
  /\ RetxSyncInterest(n, TRUE)
  /\ UNCHANGED <<published, reported, restarts>>

\* publishData: updateSeqNo(getSeqNo() + 1) and a timer about 1 ms ahead.
Publish(n) ==
  LET seq == vv[n][n] + 1
  IN  /\ n \in Producers
      /\ seq <= MaxSeq
      /\ vv' = [vv EXCEPT ![n][n] = seq]
      /\ fresh' = [fresh EXCEPT ![n] = @ \union {n}]
      /\ timer' = [timer EXCEPT ![n] = "local"]
      /\ published' = [published EXCEPT ![n] = Larger(@, seq)]
      /\ UNCHANGED <<recordedVv, phase, txGap, net, reported, restarts>>

\* m_retxEvent expires; the handler has yet to run, and a handler that runs
\* first may still re-arm it.
Expire(n) ==
  /\ timer[n] \notin {"off", "due"}
  /\ timer' = [timer EXCEPT ![n] = "due"]
  /\ UNCHANGED <<vv, fresh, recordedVv, phase, txGap, net,
                 published, reported, restarts>>

Fire(n) ==
  /\ timer[n] = "due"
  /\ RetxSyncInterest(n, phase[n] = "running")
  /\ UNCHANGED <<phase, published, reported, restarts>>

\* Entry m of node n becomes older than m_maxSuppressionTime (500 ms). A local
\* update's timer (1 ms) expires before the update is that old.
Settle(n, m) ==
  /\ m \in fresh[n]
  /\ m = n => timer[n] # "local"
  /\ fresh' = [fresh EXCEPT ![n] = @ \ {m}]
  /\ UNCHANGED <<vv, recordedVv, timer, phase, txGap, net,
                 published, reported, restarts>>

GapElapsed(n) ==
  /\ txGap[n]
  /\ txGap' = [txGap EXCEPT ![n] = FALSE]
  /\ UNCHANGED <<vv, fresh, recordedVv, timer, phase, net,
                 published, reported, restarts>>

-----------------------------------------------------------------------------
(* onSyncInterestValidated. *)

\* Entering suppression with the timer at t: the drawn delay replaces the timer
\* if it is sooner. The curve maps the longest draw to 0, which re-arms
\* the full period instead.
ReplyTimers(t) == IF t = "due" THEN {t} ELSE {t, "soon", "period"}

\* Faulty variant: an Interest recorded in suppression re-arms the timer too.
RecordAndRearm(n, sv, myVectorNew, t) ==
  \/ /\ Suppressing(n)
     /\ recordedVv' = [recordedVv EXCEPT ![n] = Join(@, sv)]
     /\ timer' = [timer EXCEPT ![n] = "soon"]
  \/ /\ ~ Suppressing(n)
     /\ ~ myVectorNew
     /\ timer' = [timer EXCEPT ![n] = "period"]
     /\ UNCHANGED recordedVv
  \/ /\ ~ Suppressing(n)
     /\ myVectorNew
     /\ recordedVv' = [recordedVv EXCEPT ![n] = sv]
     /\ \E u \in ReplyTimers(t) : timer' = [timer EXCEPT ![n] = u]

\* What follows the update callback, which left the timer at t.
RecordOrReply(n, sv, myVectorNew, t) ==
  \/ /\ Suppressing(n)
     /\ recordedVv' = [recordedVv EXCEPT ![n] = Join(@, sv)]
     /\ timer' = [timer EXCEPT ![n] = t]
  \/ /\ ~ Suppressing(n)
     /\ ~ myVectorNew
     /\ timer' = [timer EXCEPT ![n] = "period"]
     /\ UNCHANGED recordedVv
  \/ /\ ~ Suppressing(n)
     /\ myVectorNew
     /\ recordedVv' = [recordedVv EXCEPT ![n] = sv]
     /\ \E u \in ReplyTimers(t) : timer' = [timer EXCEPT ![n] = u]

\* Faulty variant: the range is counted from its far end.
ReportReversed(n, missingInfo) ==
  reported' = [reported EXCEPT ![n] =
                [m \in Nodes |-> IF m \in DOMAIN missingInfo
                                   THEN @[m] + missingInfo[m].low - 1
                                          - missingInfo[m].high
                                   ELSE @[m]]]

\* The sequence numbers node n has been told of after m_onUpdate(missingInfo).
ReportMissing(n, missingInfo) ==
  reported' = [reported EXCEPT ![n] =
                [m \in Nodes |-> IF m \in DOMAIN missingInfo
                                   THEN @[m] + missingInfo[m].high + 1
                                          - missingInfo[m].low
                                   ELSE @[m]]]

\* Faulty variant: a node in suppression records the vector before it would merge
\* it, and returns.
RecordBeforeMerge(n, msg) ==
  LET result == MergeStateVector(vv[n], fresh[n], msg.sv)
  IN  /\ msg.to = n
      /\ phase[n] # "created"
      /\ net' = net \ {msg}
      /\ IF Suppressing(n)
           THEN UNCHANGED <<vv, fresh, reported>>
           ELSE /\ vv' = [vv EXCEPT ![n] = result.vv]
                /\ fresh' = [fresh EXCEPT ![n] = result.fresh]
                /\ ReportMissing(n, result.missingInfo)
      /\ RecordOrReply(n, msg.sv, result.myVectorNew, timer[n])
      /\ UNCHANGED <<phase, txGap, published, restarts>>

\* The application's callback only reads what is missing, or there is none.
OnSyncInterest(n, msg) ==
  LET result == MergeStateVector(vv[n], fresh[n], msg.sv)
  IN  /\ msg.to = n
      /\ phase[n] # "created"
      /\ net' = net \ {msg}
      /\ vv' = [vv EXCEPT ![n] = result.vv]
      /\ fresh' = [fresh EXCEPT ![n] = result.fresh]
      /\ ReportMissing(n, result.missingInfo)
      /\ RecordOrReply(n, msg.sv, result.myVectorNew, timer[n])
      /\ UNCHANGED <<phase, txGap, published, restarts>>

\* Faulty variant: the merged vector is stored after the callback returns, over
\* what the callback published.
CallbackOverwritten(n, msg) ==
  LET result == MergeStateVector(vv[n], fresh[n], msg.sv)
      seq    == result.vv[n] + 1
  IN  /\ msg.to = n
      /\ phase[n] # "created"
      /\ DOMAIN result.missingInfo # {}
      /\ n \in Producers
      /\ seq <= MaxSeq
      /\ net' = net \ {msg}
      /\ vv' = [vv EXCEPT ![n] = result.vv]
      /\ fresh' = [fresh EXCEPT ![n] = result.fresh]
      /\ published' = [published EXCEPT ![n] = Larger(@, seq)]
      /\ ReportMissing(n, result.missingInfo)
      /\ RecordOrReply(n, msg.sv, result.myVectorNew, "local")
      /\ UNCHANGED <<phase, txGap, restarts>>

\* The callback publishes before it returns to the handler, which goes on with
\* the MergeResult it computed before.
OnSyncInterestPublishing(n, msg) ==
  LET result == MergeStateVector(vv[n], fresh[n], msg.sv)
      seq    == result.vv[n] + 1
  IN  /\ msg.to = n
      /\ phase[n] # "created"
      /\ DOMAIN result.missingInfo # {}
      /\ n \in Producers
      /\ seq <= MaxSeq
      /\ net' = net \ {msg}
      /\ vv' = [vv EXCEPT ![n] = [result.vv EXCEPT ![n] = seq]]
      /\ fresh' = [fresh EXCEPT ![n] = result.fresh \union {n}]
      /\ published' = [published EXCEPT ![n] = Larger(@, seq)]
      /\ ReportMissing(n, result.missingInfo)
      /\ RecordOrReply(n, msg.sv, result.myVectorNew, "local")
      /\ UNCHANGED <<phase, txGap, restarts>>

-----------------------------------------------------------------------------
(* A node stops and starts again: every member of SVSyncCore is volatile. *)

Restart(n) ==
  /\ restarts < MaxRestarts
  /\ phase[n] # "created"
  /\ restarts' = restarts + 1
  /\ vv' = [vv EXCEPT ![n] = EmptyVector]
  /\ fresh' = [fresh EXCEPT ![n] = {}]
  /\ recordedVv' = [recordedVv EXCEPT ![n] = NoVector]
  /\ timer' = [timer EXCEPT ![n] = "off"]
  /\ phase' = [phase EXCEPT ![n] = "created"]
  /\ txGap' = [txGap EXCEPT ![n] = FALSE]
  /\ reported' = [reported EXCEPT ![n] = EmptyVector]
  /\ UNCHANGED <<net, published>>

-----------------------------------------------------------------------------
Receive(n, msg) == OnSyncInterest(n, msg) \/ OnSyncInterestPublishing(n, msg)

Next ==
  \/ \E n \in Nodes : \/ OnRegistered(n)
                      \/ InitialEvent(n)
                      \/ Publish(n)
                      \/ Expire(n)
                      \/ Fire(n)
                      \/ GapElapsed(n)
                      \/ Restart(n)
  \/ \E n, m \in Nodes : Settle(n, m)
  \/ \E msg \in net : \/ OnSyncInterest(msg.to, msg)
                      \/ OnSyncInterestPublishing(msg.to, msg)
                      \/ Lose(msg)

Spec == Init /\ [][Next]_vars

\* A link that is used again and again delivers again and again.
Deliver(p, n) == \E msg \in InFlight(p, n) : Receive(n, msg)

\* Timers expire, the event loop gets round to a handler that stays ready,
\* entries age, registration succeeds; nothing obliges anyone to publish.
Fairness ==
  /\ \A n \in Nodes : /\ WF_vars(OnRegistered(n))
                      /\ WF_vars(InitialEvent(n))
                      /\ WF_vars(Expire(n))
                      /\ WF_vars(Fire(n))
                      /\ WF_vars(GapElapsed(n))
  /\ \A n, m \in Nodes : WF_vars(Settle(n, m))
  /\ \A p, n \in Nodes : SF_vars(Deliver(p, n))

FairSpec == Spec /\ Fairness
=============================================================================
