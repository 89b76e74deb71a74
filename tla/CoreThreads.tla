----------------------------- MODULE CoreThreads ----------------------------
(***************************************************************************)
(* The threads of one node (core.cpp, svsync-base.cpp): application        *)
(* threads that publish while the thread of the event loop handles Sync    *)
(* Interests and the retransmission timer. Where SyncCore runs a handler   *)
(* as one step, a step here is what a thread does under a mutex, or        *)
(* between two of them, and the threads interleave anywhere in between.    *)
(*                                                                         *)
(* The names in a state vector are the streams this node publishes and     *)
(* those of the other members. A received vector is anything the others    *)
(* may have sent: of this node's streams they know what it sent, and what  *)
(* an earlier run of it did, since nothing is kept over a restart here and *)
(* everything there.                                                       *)
(***************************************************************************)
EXTENDS StateVectors

CONSTANTS
  AppThreads,   \* application threads that call publishData
  StreamOf,     \* the NodeID under which a thread publishes
  MaxSeq,       \* bound: sequence numbers of a stream
  MaxOther,     \* bound: sequence numbers of another member, at most MaxSeq
  Earlier,      \* what an earlier run of this node announced of its streams
  NoVector,     \* the null m_recordedVv
  Loop,         \* the thread that runs the event loop
  Nobody        \* holds a mutex that is free

Threads == AppThreads \union {Loop}
Streams == {StreamOf[t] : t \in AppThreads}
Mutexes == {"vv", "recordedVv", "scheduler"}

ASSUME ThreadsAssumption ==
  /\ StreamOf \in [AppThreads -> Nodes]
  /\ MaxSeq \in Nat
  /\ Earlier \in [Streams -> 0 .. MaxSeq]
  /\ Loop \notin AppThreads
  /\ Nobody \notin Threads
  /\ NoVector \notin Vectors

VARIABLES
  vv, fresh, recordedVv, timer,   \* as in SyncCore, of this node
  owner,     \* the thread that holds a mutex
  pc,        \* what an application thread does next in publishData
  seqNo,     \* newSeq of an application thread
  at,        \* where the event loop is in its handler
  received,  \* vvOther of the Sync Interest the loop handles
  newer,     \* myVectorNew of the merge the loop made
  stored,    \* how many Data this run has inserted in a stream under a number
  sent       \* the join of all vectors this run sent

loopVars == <<at, received, newer>>
appVars == <<pc, seqNo, stored>>
vars == <<vv, fresh, recordedVv, timer, owner, appVars, loopVars, sent>>

\* What the timer is armed for: a local update's delay, or any other one.
Delays == {"off", "local", "period", "due"}
Numbers == 1 .. MaxSeq
Incoming == [Nodes -> 0 .. MaxSeq]

TypeOK ==
  /\ vv \in Incoming
  /\ fresh \subseteq Nodes
  /\ recordedVv \in Incoming \union {NoVector}
  /\ timer \in Delays
  /\ owner \in [Mutexes -> Threads \union {Nobody}]
  /\ pc \in [AppThreads -> {"idle", "insert", "update", "interval", "arm"}]
  /\ seqNo \in [AppThreads -> 0 .. MaxSeq]
  /\ at \in {"idle", "record", "join", "reply", "arm", "compare", "send", "release"}
  /\ received \in Incoming
  /\ newer \in BOOLEAN
  /\ stored \in [Streams -> [Numbers -> Nat]]
  /\ sent \in Incoming

\* The first Sync Interest has been sent: m_initialized is set.
Init ==
  /\ vv = EmptyVector
  /\ fresh = {}
  /\ recordedVv = NoVector
  /\ timer = "period"
  /\ owner = [x \in Mutexes |-> Nobody]
  /\ pc = [t \in AppThreads |-> "idle"]
  /\ seqNo = [t \in AppThreads |-> 0]
  /\ at = "idle"
  /\ received = EmptyVector
  /\ newer = FALSE
  /\ stored = [s \in Streams |-> [i \in Numbers |-> 0]]
  /\ sent = EmptyVector

Free(x) == owner[x] = Nobody

Lock(th, x) == Free(x) /\ owner' = [owner EXCEPT ![x] = th]

Unlock(held) == owner' = [x \in Mutexes |-> IF x \in held THEN Nobody ELSE owner[x]]

-----------------------------------------------------------------------------
(* publishData in an application thread. *)

Goto(t, place) == pc' = [pc EXCEPT ![t] = place]

\* getSeqNo() + 1.
GetSeqNo(t) ==
  /\ pc[t] = "idle"
  /\ Free("vv")
  /\ vv[StreamOf[t]] < MaxSeq
  /\ seqNo' = [seqNo EXCEPT ![t] = vv[StreamOf[t]] + 1]
  /\ Goto(t, "insert")
  /\ UNCHANGED <<vv, fresh, recordedVv, timer, owner, stored, loopVars, sent>>

\* m_dataStore->insert(*data).
InsertData(t) ==
  /\ pc[t] = "insert"
  /\ stored' = [stored EXCEPT ![StreamOf[t]][seqNo[t]] = @ + 1]
  /\ Goto(t, "update")
  /\ UNCHANGED <<vv, fresh, recordedVv, timer, owner, seqNo, loopVars, sent>>

\* Faulty variant: the lock is held over updateSyncInterval.
UpdateSeqNoHolding(t) ==
  LET s == StreamOf[t]
  IN  /\ pc[t] = "update"
      /\ vv' = [vv EXCEPT ![s] = seqNo[t]]
      /\ fresh' = fresh \union {s}
      /\ IF seqNo[t] > vv[s]
           THEN Goto(t, "interval") /\ Lock(t, "vv")
           ELSE Goto(t, "idle") /\ Free("vv") /\ UNCHANGED owner
      /\ UNCHANGED <<recordedVv, timer, seqNo, stored, loopVars, sent>>

\* Faulty variant: the number is announced without waiting for the store.
UpdateSeqNoEarly(t) ==
  LET s == StreamOf[t]
  IN  /\ pc[t] \in {"insert", "update"}
      /\ Free("vv")
      /\ vv' = [vv EXCEPT ![s] = seqNo[t]]
      /\ fresh' = fresh \union {s}
      /\ Goto(t, IF seqNo[t] > vv[s] THEN "interval" ELSE "idle")
      /\ UNCHANGED <<recordedVv, timer, owner, seqNo, stored, loopVars, sent>>

\* The locked part of updateSeqNo: the entry is set whatever it was, and so set
\* back where a merge of an earlier run's number has raised it since getSeqNo.
UpdateSeqNo(t) ==
  LET s == StreamOf[t]
  IN  /\ pc[t] = "update"
      /\ Free("vv")
      /\ vv' = [vv EXCEPT ![s] = seqNo[t]]
      /\ fresh' = fresh \union {s}
      /\ Goto(t, IF seqNo[t] > vv[s] THEN "interval" ELSE "idle")
      /\ UNCHANGED <<recordedVv, timer, owner, seqNo, stored, loopVars, sent>>

\* updateSyncInterval locks m_vvMutex to count the entries.
UpdateSyncInterval(t) ==
  /\ pc[t] = "interval"
  /\ Free("vv")
  /\ Goto(t, "arm")
  /\ UNCHANGED <<vv, fresh, recordedVv, timer, owner, seqNo, stored, loopVars, sent>>

\* retxSyncInterest(false, localDelay) replaces whatever the timer was armed for.
ArmLocal(t) ==
  /\ pc[t] = "arm"
  /\ Free("scheduler")
  /\ timer' = "local"
  /\ Goto(t, "idle")
  /\ UNCHANGED <<vv, fresh, recordedVv, owner, seqNo, stored, loopVars, sent>>

-----------------------------------------------------------------------------
(* onSyncInterestValidated in the thread of the event loop. *)

\* A vector the other members may hold: of this node's streams nothing that
\* neither this run nor an earlier one sent.
Receivable(sv) ==
  /\ \A s \in Streams : sv[s] <= Larger(sent[s], Earlier[s])
  /\ \A m \in Nodes \ Streams : sv[m] <= MaxOther

\* mergeStateVector, under m_vvMutex.
Merge(sv) ==
  LET result == MergeStateVector(vv, fresh, sv)
  IN  /\ at = "idle"
      /\ Free("vv")
      /\ Receivable(sv)
      /\ vv' = result.vv
      /\ fresh' = result.fresh
      /\ newer' = result.myVectorNew
      /\ received' = sv
      /\ at' = "record"
      /\ UNCHANGED <<recordedVv, timer, owner, appVars, sent>>

\* updateSyncInterval, which takes and leaves m_vvMutex, and the first lock of
\* recordVector.
BeginRecord ==
  /\ at = "record"
  /\ Free("vv")
  /\ IF recordedVv # NoVector
       THEN at' = "join" /\ Lock(Loop, "recordedVv")
       ELSE at' = "reply" /\ Free("recordedVv") /\ UNCHANGED owner
  /\ UNCHANGED <<vv, fresh, recordedVv, timer, appVars, received, newer, sent>>

\* The second lock of recordVector: in suppression state the vector is recorded
\* and the handler returns.
JoinRecorded ==
  /\ at = "join"
  /\ Free("vv")
  /\ recordedVv' = Join(recordedVv, received)
  /\ Unlock({"recordedVv"})
  /\ received' = EmptyVector
  /\ newer' = FALSE
  /\ at' = "idle"
  /\ UNCHANGED <<vv, fresh, timer, appVars, sent>>

\* Out of suppression: a newer or equal vector resets the timer.
ReplyNotNewer ==
  /\ at = "reply"
  /\ ~ newer
  /\ at' = "arm"
  /\ received' = EmptyVector
  /\ UNCHANGED <<vv, fresh, recordedVv, timer, owner, appVars, newer, sent>>

\* An older one starts suppression. m_nextSyncInterest is compared with the delay
\* drawn; the timer is replaced in a later step if it is further off.
ReplyNewer ==
  /\ at = "reply"
  /\ newer
  /\ Free("recordedVv")
  /\ recordedVv' = received
  /\ at' = "idle" \/ (timer # "due" /\ at' = "arm")
  /\ received' = EmptyVector
  /\ newer' = FALSE
  /\ UNCHANGED <<vv, fresh, timer, owner, appVars, sent>>

\* The re-arming half of retxSyncInterest: a local update's timer that was armed
\* since the comparison goes too.
ArmLoop ==
  /\ at = "arm"
  /\ Free("scheduler")
  /\ timer' = "period"
  /\ at' = "idle"
  /\ UNCHANGED <<vv, fresh, recordedVv, owner, appVars, received, newer, sent>>

-----------------------------------------------------------------------------
(* retxSyncInterest(true, 0) in the thread of the event loop. *)

Expire ==
  /\ timer \notin {"off", "due"}
  /\ timer' = "due"
  /\ UNCHANGED <<vv, fresh, recordedVv, owner, appVars, loopVars, sent>>

\* The handler begins with m_recordedVvMutex, which it keeps until it has sent.
Fire ==
  /\ at = "idle"
  /\ timer = "due"
  /\ timer' = "off"
  /\ Lock(Loop, "recordedVv")
  /\ at' = IF recordedVv = NoVector THEN "send" ELSE "compare"
  /\ UNCHANGED <<vv, fresh, recordedVv, appVars, received, newer, sent>>

\* mergeStateVector(*m_recordedVv).
CompareRecorded ==
  LET result == MergeStateVector(vv, fresh, recordedVv)
  IN  /\ at = "compare"
      /\ Free("vv")
      /\ vv' = result.vv
      /\ fresh' = result.fresh
      /\ at' = IF result.myVectorNew THEN "send" ELSE "release"
      /\ UNCHANGED <<recordedVv, timer, owner, appVars, received, newer, sent>>

\* sendSyncInterest: what buildSyncVector copies under m_vvMutex is on its way.
Send ==
  /\ at = "send"
  /\ Free("vv")
  /\ sent' = Join(sent, vv)
  /\ at' = "release"
  /\ UNCHANGED <<vv, fresh, recordedVv, timer, owner, appVars, received, newer>>

\* Faulty variant: the timer is armed again by onSyncInterest only.
ReleaseUnarmed ==
  /\ at = "release"
  /\ recordedVv' = NoVector
  /\ Unlock({"recordedVv"})
  /\ at' = "idle"
  /\ UNCHANGED <<vv, fresh, timer, appVars, received, newer, sent>>

\* m_recordedVv = nullptr, the end of the lock, and a sampled period to wait.
Release ==
  /\ at = "release"
  /\ recordedVv' = NoVector
  /\ Unlock({"recordedVv"})
  /\ at' = "arm"
  /\ UNCHANGED <<vv, fresh, timer, appVars, received, newer, sent>>

-----------------------------------------------------------------------------
\* An entry becomes older than m_maxSuppressionTime, which is longer than the
\* delay of a local update.
Settle(m) ==
  /\ m \in fresh
  /\ timer # "local"
  /\ fresh' = fresh \ {m}
  /\ UNCHANGED <<vv, recordedVv, timer, owner, appVars, loopVars, sent>>

Publish(t) ==
  \/ GetSeqNo(t)
  \/ InsertData(t)
  \/ UpdateSeqNo(t)
  \/ UpdateSyncInterval(t)
  \/ ArmLocal(t)

Handle ==
  \/ BeginRecord
  \/ JoinRecorded
  \/ ReplyNotNewer
  \/ ReplyNewer
  \/ ArmLoop
  \/ CompareRecorded
  \/ Send
  \/ Release

Next ==
  \/ \E t \in AppThreads : Publish(t)
  \/ \E sv \in Incoming : Merge(sv)
  \/ Handle
  \/ Expire
  \/ Fire
  \/ \E m \in Nodes : Settle(m)

Spec == Init /\ [][Next]_vars

\* A thread goes on, and gets a mutex that is released again and again, until
\* publishData returns; the loop finishes its handler and gets round to an expired
\* timer, though Sync Interests keep arriving; time passes.
Fairness ==
  /\ \A t \in AppThreads : SF_vars(pc[t] # "idle" /\ Publish(t))
  /\ WF_vars(Handle)
  /\ WF_vars(Expire)
  /\ SF_vars(Fire)
  /\ \A s \in Streams : SF_vars(Settle(s))

FairSpec == Spec /\ Fairness
=============================================================================
