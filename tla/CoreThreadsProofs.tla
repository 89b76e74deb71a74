------------------------- MODULE CoreThreadsProofs --------------------------
(***************************************************************************)
(* Proofs about the threads of one node, for any number of application     *)
(* threads, streams and sequence numbers.                                  *)
(***************************************************************************)
EXTENDS CoreThreadsProps, TLAPS

-----------------------------------------------------------------------------
(* Vectors. *)

\* Joining two bounded vectors gives a bounded one that is above both, and changes
\* nothing where the second is not ahead.
LEMMA JoinFacts ==
  ASSUME NEW v \in Incoming, NEW w \in Incoming
  PROVE  /\ Join(v, w) \in Incoming
         /\ v \preceq Join(v, w)
         /\ w \preceq Join(v, w)
         /\ \A m \in Nodes : w[m] <= v[m] => Join(v, w)[m] = v[m]
         /\ w \preceq v => Join(v, w) = v
BY ThreadsAssumption DEF Incoming, Join, Larger, \preceq

\* The order on vectors is transitive.
LEMMA PrecTransitive ==
  ASSUME NEW u \in Incoming, NEW v \in Incoming, NEW w \in Incoming,
         u \preceq v, v \preceq w
  PROVE  u \preceq w
BY ThreadsAssumption DEF Incoming, \preceq

\* What mergeStateVector leaves and returns.
LEMMA MergeFacts ==
  ASSUME NEW v, NEW f \in SUBSET Nodes, NEW w
  PROVE  LET result == MergeStateVector(v, f, w)
         IN  /\ result.vv = Join(v, w)
             /\ result.fresh \in SUBSET Nodes
             /\ result.myVectorNew \in BOOLEAN
BY DEF MergeStateVector, Learned

\* A thread publishes under one of the names.
LEMMA StreamFacts ==
  /\ Streams \subseteq Nodes
  /\ \A t \in AppThreads : StreamOf[t] \in Streams
BY ThreadsAssumption DEF Streams

-----------------------------------------------------------------------------
(* Type correctness and the order of the locks. *)

\* Between two steps only the event loop holds a mutex, that of m_recordedVv.
HeldByLoop ==
  /\ owner["vv"] = Nobody
  /\ owner["scheduler"] = Nobody
  /\ owner["recordedVv"] =
       IF at \in {"join", "compare", "send", "release"} THEN Loop ELSE Nobody

\* The number that a thread is about to insert or to announce is one.
NumberTaken ==
  \A t \in AppThreads : pc[t] \in {"insert", "update"} => seqNo[t] \in Numbers

\* In suppression state while the loop is there to record or to compare.
RecordingSafely == at \in {"join", "compare"} => recordedVv # NoVector

TypeInv == TypeOK /\ HeldByLoop /\ NumberTaken /\ RecordingSafely

\* Nothing is held or published at first.
LEMMA InitTypeInv == Init => TypeInv
<1> SUFFICES ASSUME Init PROVE TypeInv
  OBVIOUS
<1>1. EmptyVector \in Incoming
  BY ThreadsAssumption DEF EmptyVector, Incoming
<1>2. stored \in [Streams -> [Numbers -> Nat]] /\ seqNo \in [AppThreads -> 0 .. MaxSeq]
  BY ThreadsAssumption DEF Init
<1>4. TypeOK
  BY <1>1, <1>2 DEF Init, TypeOK, Delays, Threads
<1>3. HeldByLoop /\ NumberTaken /\ RecordingSafely
  BY DEF Init, HeldByLoop, NumberTaken, RecordingSafely, Mutexes
<1> QED
  BY <1>3, <1>4 DEF TypeInv

\* The steps of publishData.
LEMMA PublishTypeInv ==
  ASSUME TypeInv, NEW t \in AppThreads, Publish(t)
  PROVE  TypeInv'
<1> USE DEF TypeInv
<1>0. StreamOf[t] \in Streams /\ StreamOf[t] \in Nodes /\ MaxSeq \in Nat
  BY StreamFacts, ThreadsAssumption
<1>1. CASE GetSeqNo(t)
  <2>1. vv[StreamOf[t]] + 1 \in Numbers
    BY <1>0, <1>1 DEF GetSeqNo, TypeOK, Incoming, Numbers
  <2>2. TypeOK'
    BY <1>0, <1>1, <2>1 DEF GetSeqNo, Goto, TypeOK, Numbers, loopVars
  <2> QED
    BY <1>1, <2>1, <2>2
    DEF GetSeqNo, Goto, TypeOK, HeldByLoop, NumberTaken, RecordingSafely, loopVars
<1>2. CASE InsertData(t)
  <2>1. seqNo[t] \in Numbers
    BY <1>2 DEF InsertData, NumberTaken
  <2>2. stored' \in [Streams -> [Numbers -> Nat]]
    BY <1>0, <1>2, <2>1 DEF InsertData, TypeOK
  <2> QED
    BY <1>2, <2>1, <2>2
    DEF InsertData, Goto, TypeOK, HeldByLoop, NumberTaken, RecordingSafely, loopVars
<1>3. CASE UpdateSeqNo(t)
  <2>1. seqNo[t] \in 0 .. MaxSeq
    BY DEF TypeOK
  <2>2. vv' \in Incoming
    BY <1>0, <1>3, <2>1 DEF UpdateSeqNo, TypeOK, Incoming
  <2> QED
    BY <1>0, <1>3, <2>2
    DEF UpdateSeqNo, Goto, TypeOK, HeldByLoop, NumberTaken, RecordingSafely, loopVars
<1>4. CASE UpdateSyncInterval(t)
  BY <1>4 DEF UpdateSyncInterval, Goto, TypeOK, HeldByLoop, NumberTaken,
              RecordingSafely, loopVars
<1>5. CASE ArmLocal(t)
  BY <1>5 DEF ArmLocal, Goto, TypeOK, HeldByLoop, NumberTaken, RecordingSafely,
              Delays, loopVars
<1> QED
  BY <1>1, <1>2, <1>3, <1>4, <1>5 DEF Publish

\* The steps of the event loop's handlers.
LEMMA HandleTypeInv ==
  ASSUME TypeInv, Handle \/ Fire \/ (\E sv \in Incoming : Merge(sv))
  PROVE  TypeInv'
<1> USE DEF TypeInv
<1>0. EmptyVector \in Incoming /\ Loop \in Threads /\ "recordedVv" \in Mutexes
  BY ThreadsAssumption DEF EmptyVector, Incoming, Threads, Mutexes
<1>1. ASSUME NEW sv \in Incoming, Merge(sv) PROVE TypeInv'
  <2>1. Join(vv, sv) \in Incoming
    BY JoinFacts DEF TypeOK
  <2> DEFINE result == MergeStateVector(vv, fresh, sv)
  <2>0. vv' = result.vv /\ fresh' = result.fresh /\ newer' = result.myVectorNew
    BY <1>1 DEF Merge
  <2>2. vv' \in Incoming /\ fresh' \in SUBSET Nodes /\ newer' \in BOOLEAN
    <3>1. fresh \in SUBSET Nodes
      BY DEF TypeOK
    <3>2. /\ result.vv = Join(vv, sv)
          /\ result.fresh \in SUBSET Nodes
          /\ result.myVectorNew \in BOOLEAN
      BY <3>1, MergeFacts
    <3> QED
      BY <2>0, <2>1, <3>2
  <2>3. HeldByLoop' /\ NumberTaken' /\ RecordingSafely'
    BY <1>1 DEF Merge, HeldByLoop, NumberTaken, RecordingSafely, appVars
  <2>4. TypeOK'
    BY <1>1, <2>2 DEF Merge, TypeOK, appVars
  <2> QED
    BY <2>3, <2>4
<1>2. CASE BeginRecord
  <2>1. /\ owner' \in [Mutexes -> Threads \union {Nobody}]
        /\ HeldByLoop'
    BY <1>0, <1>2 DEF BeginRecord, Lock, Free, TypeOK, HeldByLoop, Mutexes
  <2>2. RecordingSafely' /\ NumberTaken'
    BY <1>2 DEF BeginRecord, RecordingSafely, NumberTaken, appVars
  <2> QED
    BY <1>2, <2>1, <2>2 DEF BeginRecord, TypeOK, appVars
<1>3. CASE JoinRecorded
  <2>1. Join(recordedVv, received) \in Incoming
    BY <1>3, JoinFacts DEF JoinRecorded, TypeOK, RecordingSafely
  <2> QED
    BY <1>0, <1>3, <2>1 DEF JoinRecorded, Unlock, TypeOK, HeldByLoop, NumberTaken,
                       RecordingSafely, appVars, Mutexes
<1>4. CASE ReplyNotNewer
  BY <1>0, <1>4 DEF ReplyNotNewer, TypeOK, HeldByLoop, NumberTaken, RecordingSafely, appVars
<1>5. CASE ReplyNewer
  BY <1>0, <1>5 DEF ReplyNewer, TypeOK, HeldByLoop, NumberTaken, RecordingSafely, appVars
<1>6. CASE ArmLoop
  BY <1>6 DEF ArmLoop, TypeOK, HeldByLoop, NumberTaken, RecordingSafely, appVars, Delays
<1>7. CASE CompareRecorded
  <2>1. Join(vv, recordedVv) \in Incoming
    BY <1>7, JoinFacts DEF CompareRecorded, TypeOK, RecordingSafely
  <2>2. vv' \in Incoming /\ fresh' \in SUBSET Nodes
    BY <1>7, <2>1, MergeFacts DEF CompareRecorded, TypeOK
  <2> QED
    BY <1>7, <2>2 DEF CompareRecorded, TypeOK, HeldByLoop, NumberTaken, RecordingSafely, appVars
<1>8. CASE Send
  <2>1. Join(sent, vv) \in Incoming
    BY JoinFacts DEF TypeOK
  <2> QED
    BY <1>8, <2>1 DEF Send, TypeOK, HeldByLoop, NumberTaken, RecordingSafely, appVars
<1>9. CASE Release
  BY <1>0, <1>9 DEF Release, Unlock, TypeOK, HeldByLoop, NumberTaken, RecordingSafely,
                    appVars, Mutexes
<1>10. CASE Fire
  BY <1>0, <1>10 DEF Fire, Lock, Free, TypeOK, HeldByLoop, NumberTaken, RecordingSafely,
                     appVars, Mutexes, Delays
<1> QED
  BY <1>1, <1>2, <1>3, <1>4, <1>5, <1>6, <1>7, <1>8, <1>9, <1>10 DEF Handle

\* Every step.
LEMMA NextTypeInv == TypeInv /\ [Next]_vars => TypeInv'
<1> SUFFICES ASSUME TypeInv, [Next]_vars PROVE TypeInv'
  OBVIOUS
<1>1. ASSUME NEW t \in AppThreads, Publish(t) PROVE TypeInv'
  BY <1>1, PublishTypeInv
<1>2. CASE Handle \/ Fire \/ \E sv \in Incoming : Merge(sv)
  BY <1>2, HandleTypeInv
<1>3. CASE Expire
  BY <1>3 DEF Expire, TypeInv, TypeOK, HeldByLoop, NumberTaken, RecordingSafely,
              appVars, loopVars, Delays
<1>4. ASSUME NEW m \in Nodes, Settle(m) PROVE TypeInv'
  BY <1>4 DEF Settle, TypeInv, TypeOK, HeldByLoop, NumberTaken, RecordingSafely,
              appVars, loopVars
<1>5. CASE UNCHANGED vars
  BY <1>5 DEF vars, TypeInv, TypeOK, HeldByLoop, NumberTaken, RecordingSafely,
              appVars, loopVars
<1> QED
  BY <1>1, <1>2, <1>3, <1>4, <1>5 DEF Next

LEMMA TypeInvariance == Spec => []TypeInv
BY InitTypeInv, NextTypeInv, PTL DEF Spec

\* Every variable keeps its type.
THEOREM TypeCorrect == Spec => []TypeOK
<1>1. TypeInv => TypeOK
  BY DEF TypeInv
<1> QED
  BY <1>1, TypeInvariance, PTL

\* No thread can be in a cycle of threads that wait for each other's mutexes.
THEOREM AlwaysLockOrder == Spec => []LockOrder
<1>1. TypeInv => LockOrder
  <2> SUFFICES ASSUME TypeInv,
                      NEW th \in Threads, NEW held \in Mutexes, NEW x \in Wanted(th),
                      owner[held] = th
               PROVE  Rank[held] < Rank[x]
    BY DEF LockOrder
  <2>1. /\ held = "recordedVv"
        /\ th = Loop
        /\ at \in {"join", "compare", "send", "release"}
    BY ThreadsAssumption DEF TypeInv, HeldByLoop, Mutexes, Threads
  <2>2. x = "vv"
    BY <2>1, ThreadsAssumption DEF Wanted
  <2> QED
    BY <2>1, <2>2 DEF Rank
<1> QED
  BY <1>1, TypeInvariance, PTL

-----------------------------------------------------------------------------
(* Sequence numbers, when no two threads publish under one name. *)

\* How far a thread has announced its publications: the entry of its name, or, while
\* it takes the next number to the vector, the number before that.
Base(t) == IF pc[t] \in {"insert", "update"} THEN seqNo[t] - 1 ELSE vv[StreamOf[t]]

\* How far it has stored them.
Top(t) == IF pc[t] = "update" THEN Base(t) + 1 ELSE Base(t)

\* A number is stored once at most, none past the thread's last one, and of those that
\* no earlier run announced all up to it.
Counted ==
  \A t \in AppThreads : \A i \in Numbers :
    /\ stored[StreamOf[t]][i] <= 1
    /\ stored[StreamOf[t]][i] # 0 => i <= Top(t)
    /\ Earlier[StreamOf[t]] < i /\ i <= Top(t) => stored[StreamOf[t]][i] # 0

\* A vector with nothing of this node's streams that was not announced in this run or
\* an earlier one, and nothing of the others that is not known.
Plausible(w) ==
  /\ \A t \in AppThreads : w[StreamOf[t]] <= Larger(Base(t), Earlier[StreamOf[t]])
  /\ \A m \in Nodes \ Streams : w[m] <= vv[m]

\* Merges only raise the entry that a thread is about to set.
NotLowered == \A t \in AppThreads : Base(t) <= vv[StreamOf[t]]

\* So is what is held, was sent, is recorded or is being handled.
Kept ==
  /\ Plausible(vv)
  /\ Plausible(sent)
  /\ recordedVv # NoVector => Plausible(recordedVv)
  /\ at \in {"record", "join", "reply"} => Plausible(received)

IInv == TypeInv /\ Counted /\ NotLowered /\ Kept

\* What the types of the variables say of a thread and its name.
LEMMA ThreadFacts ==
  ASSUME TypeInv, NEW t \in AppThreads
  PROVE  /\ StreamOf[t] \in Streams /\ StreamOf[t] \in Nodes
         /\ vv[StreamOf[t]] \in Nat /\ Earlier[StreamOf[t]] \in Nat
         /\ Base(t) \in Nat /\ Top(t) \in Nat
         /\ \A i \in Numbers : stored[StreamOf[t]][i] \in Nat
<1>1. StreamOf[t] \in Streams /\ StreamOf[t] \in Nodes /\ MaxSeq \in Nat
  BY StreamFacts, ThreadsAssumption
<1>2. vv[StreamOf[t]] \in Nat /\ Earlier[StreamOf[t]] \in Nat
  BY <1>1, ThreadsAssumption DEF TypeInv, TypeOK, Incoming
<1>3. Base(t) \in Nat
  BY <1>1, <1>2 DEF Base, TypeInv, NumberTaken, Numbers
<1>4. \A i \in Numbers : stored[StreamOf[t]][i] \in Nat
  BY <1>1 DEF TypeInv, TypeOK
<1> QED
  BY <1>1, <1>2, <1>3, <1>4 DEF Top

LEMMA InitIInv == Init => IInv
<1> SUFFICES ASSUME Init PROVE IInv
  OBVIOUS
<1>0. TypeInv
  BY InitTypeInv
<1>1. ASSUME NEW t \in AppThreads
      PROVE  /\ Base(t) = 0 /\ Top(t) = 0
             /\ vv[StreamOf[t]] = 0 /\ sent[StreamOf[t]] = 0
             /\ 0 <= Larger(0, Earlier[StreamOf[t]])
             /\ \A i \in Numbers : stored[StreamOf[t]][i] = 0
  BY <1>0, ThreadFacts DEF Init, EmptyVector, Base, Top, Larger
<1>2. Counted /\ NotLowered
  BY <1>1 DEF Counted, NotLowered, Numbers
<1>3. \A m \in Nodes : sent[m] = 0 /\ vv[m] = 0
  BY DEF Init, EmptyVector
<1>4. Kept
  BY <1>1, <1>3 DEF Init, Kept, Plausible
<1> QED
  BY <1>0, <1>2, <1>4 DEF IInv

\* A plausible vector stays one while the vector of this node grows and a thread's
\* announcements are not taken back.
LEMMA PlausibleStays ==
  ASSUME TypeInv, TypeInv', NEW w \in Incoming, Plausible(w),
         \A t \in AppThreads : Base(t) <= Base(t)',
         \A m \in Nodes \ Streams : vv[m] <= vv'[m]
  PROVE  /\ \A t \in AppThreads : w[StreamOf[t]] <= Larger(Base(t)', Earlier[StreamOf[t]])
         /\ \A m \in Nodes \ Streams : w[m] <= vv'[m]
<1>1. ASSUME NEW t \in AppThreads
      PROVE  w[StreamOf[t]] <= Larger(Base(t)', Earlier[StreamOf[t]])
  <2>1. /\ Base(t) \in Nat /\ Earlier[StreamOf[t]] \in Nat /\ StreamOf[t] \in Nodes
        /\ w[StreamOf[t]] <= Larger(Base(t), Earlier[StreamOf[t]])
    BY ThreadFacts DEF Plausible
  <2>2. Base(t)' \in Nat
    <3>1. pc[t]' \in {"insert", "update"} => seqNo[t]' \in Numbers
      BY DEF TypeInv, NumberTaken
    <3>2. vv[StreamOf[t]]' \in Nat
      BY <2>1, ThreadsAssumption DEF TypeInv, TypeOK, Incoming
    <3> QED
      BY <3>1, <3>2 DEF Base, Numbers
  <2>3. Base(t) <= Base(t)' /\ w[StreamOf[t]] \in Nat
    BY <2>1, ThreadsAssumption DEF Incoming
  <2> QED
    BY <2>1, <2>2, <2>3 DEF Larger
<1>2. ASSUME NEW m \in Nodes \ Streams PROVE w[m] <= vv'[m]
  BY ThreadsAssumption DEF Plausible, TypeInv, TypeOK, Incoming
<1> QED
  BY <1>1, <1>2

\* What is stored stays counted while the threads' last numbers move over numbers of an
\* earlier run only.
LEMMA CountedStays ==
  ASSUME TypeInv, TypeInv', Counted, stored' = stored,
         \A t \in AppThreads : /\ Top(t) <= Top(t)'
                               /\ Top(t)' <= Larger(Top(t), Earlier[StreamOf[t]])
  PROVE  Counted'
<1> SUFFICES ASSUME NEW t \in AppThreads, NEW i \in Numbers
             PROVE  /\ stored[StreamOf[t]][i] <= 1
                    /\ stored[StreamOf[t]][i] # 0 => i <= Top(t)'
                    /\ Earlier[StreamOf[t]] < i /\ i <= Top(t)' => stored[StreamOf[t]][i] # 0
  BY DEF Counted
<1>1. /\ Top(t) \in Nat /\ Earlier[StreamOf[t]] \in Nat /\ i \in Nat
      /\ stored[StreamOf[t]][i] \in Nat
  BY ThreadFacts DEF Numbers
<1>2. pc[t]' \in {"insert", "update"} => seqNo[t]' \in Numbers
  BY DEF TypeInv, NumberTaken
<1>3. vv[StreamOf[t]]' \in Nat
  BY ThreadFacts, ThreadsAssumption DEF TypeInv, TypeOK, Incoming
<1>4. Top(t)' \in Nat
  BY <1>2, <1>3 DEF Top, Base, Numbers
<1>5. /\ stored[StreamOf[t]][i] <= 1
      /\ stored[StreamOf[t]][i] # 0 => i <= Top(t)
      /\ Earlier[StreamOf[t]] < i /\ i <= Top(t) => stored[StreamOf[t]][i] # 0
  BY DEF Counted
<1>6. Top(t) <= Top(t)' /\ Top(t)' <= Larger(Top(t), Earlier[StreamOf[t]])
  OBVIOUS
<1> QED
  BY <1>1, <1>4, <1>5, <1>6 DEF Larger

\* A step of the event loop that raises the vector by nothing implausible takes back no
\* announcement, and keeps the count.
LEMMA RaisedPlausibly ==
  ASSUME IInv, TypeInv', UNCHANGED appVars,
         \A m \in Nodes : vv[m] <= vv'[m],
         \A t \in AppThreads : vv'[StreamOf[t]] <= Larger(Base(t), Earlier[StreamOf[t]])
  PROVE  /\ Counted' /\ NotLowered'
         /\ \A t \in AppThreads : Base(t) <= Base(t)'
         /\ Plausible(vv)'
<1>1. ASSUME NEW t \in AppThreads
      PROVE  /\ Base(t) <= Base(t)' /\ Base(t)' <= vv'[StreamOf[t]]
             /\ Top(t) <= Top(t)' /\ Top(t)' <= Larger(Top(t), Earlier[StreamOf[t]])
             /\ vv'[StreamOf[t]] <= Larger(Base(t)', Earlier[StreamOf[t]])
  <2>1. /\ vv[StreamOf[t]] \in Nat /\ vv'[StreamOf[t]] \in Nat
        /\ Earlier[StreamOf[t]] \in Nat /\ Base(t) \in Nat
        /\ vv[StreamOf[t]] <= vv'[StreamOf[t]]
        /\ vv'[StreamOf[t]] <= Larger(Base(t), Earlier[StreamOf[t]])
        /\ Base(t) <= vv[StreamOf[t]]
    BY ThreadFacts, ThreadsAssumption DEF TypeInv, TypeOK, Incoming, IInv, NotLowered
  <2>2. pc' = pc /\ seqNo' = seqNo
    BY DEF appVars
  <2>3. CASE pc[t] \in {"insert", "update"}
    <3>1. Base(t)' = Base(t) /\ Top(t)' = Top(t)
      BY <2>2, <2>3 DEF Base, Top
    <3>2. Top(t) \in Nat
      BY ThreadFacts DEF IInv
    <3> QED
      BY <2>1, <3>1, <3>2 DEF Larger
  <2>4. CASE pc[t] \notin {"insert", "update"}
    <3>1. /\ Base(t) = vv[StreamOf[t]] /\ Base(t)' = vv'[StreamOf[t]]
          /\ Top(t) = vv[StreamOf[t]] /\ Top(t)' = vv'[StreamOf[t]]
      BY <2>2, <2>4 DEF Base, Top
    <3> QED
      BY <2>1, <3>1 DEF Larger
  <2> QED
    BY <2>3, <2>4
<1>2. Counted'
  BY <1>1, CountedStays DEF IInv, appVars
<1>3. NotLowered'
  BY <1>1 DEF NotLowered
<1>4. \A m \in Nodes \ Streams : vv'[m] <= vv'[m]
  BY DEF TypeInv, TypeOK, Incoming
<1> QED
  BY <1>1, <1>2, <1>3, <1>4 DEF Plausible

\* What was sent, is recorded and is handled stays plausible when a step leaves it.
LEMMA KeptStays ==
  ASSUME IInv, TypeInv', Plausible(vv)',
         \A t \in AppThreads : Base(t) <= Base(t)',
         \A m \in Nodes \ Streams : vv[m] <= vv'[m],
         UNCHANGED <<sent, recordedVv, received, at>>
  PROVE  Kept'
<1>1. /\ sent \in Incoming /\ received \in Incoming
      /\ recordedVv # NoVector => recordedVv \in Incoming
  BY DEF IInv, TypeInv, TypeOK
<1>2. Plausible(sent)'
  BY <1>1, PlausibleStays DEF IInv, Kept, Plausible
<1>3. recordedVv # NoVector => Plausible(recordedVv)'
  BY <1>1, PlausibleStays DEF IInv, Kept, Plausible
<1>4. at \in {"record", "join", "reply"} => Plausible(received)'
  BY <1>1, PlausibleStays DEF IInv, Kept, Plausible
<1> QED
  BY <1>2, <1>3, <1>4 DEF Kept

\* The steps of publishData: no other thread publishes under the name in between.
LEMMA PublishIInv ==
  ASSUME OneThreadPerStream, IInv, TypeInv', NEW t \in AppThreads, Publish(t)
  PROVE  IInv'
<1> DEFINE s == StreamOf[t]
<1>0. /\ s \in Nodes /\ s \in Streams /\ MaxSeq \in Nat
      /\ vv \in [Nodes -> 0 .. MaxSeq]
      /\ pc \in [AppThreads -> {"idle", "insert", "update", "interval", "arm"}]
      /\ seqNo \in [AppThreads -> 0 .. MaxSeq]
      /\ stored \in [Streams -> [Numbers -> Nat]]
  BY StreamFacts, ThreadsAssumption DEF IInv, TypeInv, TypeOK, Incoming
<1>1. \A u \in AppThreads : /\ StreamOf[u] \in Nodes
                            /\ StreamOf[u] \in Streams
                            /\ StreamOf[u] = s => u = t
  BY StreamFacts DEF OneThreadPerStream
<1>2. UNCHANGED <<sent, recordedVv, received, at>>
  BY DEF Publish, GetSeqNo, InsertData, UpdateSeqNo, UpdateSyncInterval, ArmLocal, loopVars
<1>3. \A m \in Nodes \ Streams : vv[m] <= vv'[m]
  BY <1>0 DEF Publish, GetSeqNo, InsertData, UpdateSeqNo, UpdateSyncInterval, ArmLocal
<1>4. CASE GetSeqNo(t) \/ UpdateSyncInterval(t) \/ ArmLocal(t)
  <2>1. ASSUME NEW u \in AppThreads PROVE Base(u)' = Base(u) /\ Top(u)' = Top(u)
    BY <1>0, <1>4 DEF GetSeqNo, UpdateSyncInterval, ArmLocal, Goto, Base, Top
  <2>2. vv' = vv /\ stored' = stored
    BY <1>4 DEF GetSeqNo, UpdateSyncInterval, ArmLocal
  <2>3. Counted' /\ NotLowered' /\ Plausible(vv)'
    BY <2>1, <2>2 DEF IInv, Counted, NotLowered, Kept, Plausible
  <2>4. \A u \in AppThreads : Base(u) <= Base(u)'
    BY <2>1, ThreadFacts DEF IInv
  <2> QED
    BY <1>2, <1>3, <2>3, <2>4, KeptStays DEF IInv
<1>5. CASE InsertData(t)
  <2>1. pc[t] = "insert" /\ pc' = [pc EXCEPT ![t] = "update"] /\ seqNo' = seqNo /\ vv' = vv
    BY <1>5 DEF InsertData, Goto
  <2>2. \A u \in AppThreads : Base(u)' = Base(u)
    BY <1>0, <2>1 DEF Base
  <2>3. \A u \in AppThreads \ {t} : Top(u)' = Top(u)
    BY <1>0, <2>1, <2>2 DEF Top
  <2>4. /\ seqNo[t] \in Numbers /\ Base(t) = seqNo[t] - 1
        /\ Top(t) = seqNo[t] - 1 /\ Top(t)' = seqNo[t]
    BY <1>0, <2>1, <2>2 DEF Base, Top, IInv, TypeInv, NumberTaken, Numbers
  <2>5. \A i \in Numbers : stored'[s][i] = IF i = seqNo[t] THEN stored[s][i] + 1 ELSE stored[s][i]
    BY <1>0, <1>5, <2>4 DEF InsertData
  <2>6. ASSUME NEW i \in Numbers
        PROVE  /\ stored'[s][i] <= 1
               /\ stored'[s][i] # 0 => i <= Top(t)'
               /\ Earlier[s] < i /\ i <= Top(t)' => stored'[s][i] # 0
    <3>1. /\ stored[s][i] # 0 => i <= seqNo[t] - 1
          /\ stored[s][i] <= 1 /\ stored[s][i] \in Nat
          /\ Earlier[s] < i /\ i <= seqNo[t] - 1 => stored[s][i] # 0
      BY <2>4, ThreadFacts DEF IInv, Counted
    <3> QED
      BY <2>4, <2>5, <3>1 DEF Numbers
  <2>7. \A u \in AppThreads \ {t} : stored'[StreamOf[u]] = stored[StreamOf[u]]
    BY <1>0, <1>1, <1>5 DEF InsertData
  <2>8. Counted'
    BY <2>3, <2>6, <2>7 DEF IInv, Counted
  <2>9. NotLowered' /\ Plausible(vv)'
    BY <2>1, <2>2 DEF IInv, NotLowered, Kept, Plausible
  <2>10. \A u \in AppThreads : Base(u) <= Base(u)'
    BY <2>2, ThreadFacts DEF IInv
  <2> QED
    BY <1>2, <1>3, <2>8, <2>9, <2>10, KeptStays DEF IInv
<1>6. CASE UpdateSeqNo(t)
  <2>1. /\ pc[t] = "update" /\ seqNo' = seqNo /\ stored' = stored
        /\ vv' = [vv EXCEPT ![s] = seqNo[t]]
        /\ pc'[t] \in {"interval", "idle"}
        /\ \A u \in AppThreads \ {t} : pc'[u] = pc[u]
    BY <1>0, <1>6 DEF UpdateSeqNo, Goto
  <2>2. \A u \in AppThreads \ {t} : vv'[StreamOf[u]] = vv[StreamOf[u]]
    BY <1>0, <1>1, <2>1
  <2>3. \A u \in AppThreads \ {t} : Base(u)' = Base(u) /\ Top(u)' = Top(u)
    BY <2>1, <2>2 DEF Base, Top
  <2>4. seqNo[t] \in Numbers /\ vv'[s] = seqNo[t]
    BY <1>0, <2>1 DEF IInv, TypeInv, NumberTaken
  <2>5. /\ Base(t) = seqNo[t] - 1 /\ Base(t)' = seqNo[t]
        /\ Top(t) = seqNo[t] /\ Top(t)' = seqNo[t]
    BY <2>1, <2>4 DEF Base, Top, Numbers
  <2>6. Counted'
    <3>1. \A u \in AppThreads : Top(u)' = Top(u)
      BY <2>3, <2>5
    <3> QED
      BY <2>1, <3>1 DEF IInv, Counted
  <2>7. \A u \in AppThreads : Base(u) <= Base(u)'
    <3>1. Base(t) <= Base(t)'
      BY <2>4, <2>5 DEF Numbers
    <3>2. \A u \in AppThreads : Base(u) \in Nat
      BY ThreadFacts DEF IInv
    <3> QED
      BY <2>3, <3>1, <3>2
  <2>8. NotLowered'
    BY <2>2, <2>3, <2>4, <2>5 DEF IInv, NotLowered, Numbers
  <2>9. Plausible(vv)'
    <3>1. vv'[s] <= Larger(Base(t)', Earlier[s])
      BY <2>4, <2>5, ThreadFacts DEF IInv, Larger, Numbers
    <3>2. \A u \in AppThreads \ {t} : vv'[StreamOf[u]] <= Larger(Base(u)', Earlier[StreamOf[u]])
      BY <2>2, <2>3 DEF IInv, Kept, Plausible
    <3>3. \A m \in Nodes \ Streams : vv'[m] <= vv'[m]
      BY DEF TypeInv, TypeOK, Incoming
    <3> QED
      BY <3>1, <3>2, <3>3 DEF Plausible
  <2> QED
    BY <1>2, <1>3, <2>6, <2>7, <2>9, <2>8, KeptStays DEF IInv
<1> QED
  BY <1>4, <1>5, <1>6 DEF Publish

\* The join of two plausible vectors is plausible.
LEMMA JoinPlausible ==
  ASSUME TypeInv, NEW v \in Incoming, NEW w \in Incoming, Plausible(v), Plausible(w)
  PROVE  Plausible(Join(v, w))
<1>1. ASSUME NEW m \in Nodes PROVE Join(v, w)[m] = v[m] \/ Join(v, w)[m] = w[m]
  BY DEF Join, Larger
<1> QED
  BY <1>1, StreamFacts DEF Plausible

\* The steps of the event loop. Merges bring this node's streams forward by numbers of
\* an earlier run only.
LEMMA LoopIInv ==
  ASSUME IInv, TypeInv', Handle \/ Fire \/ (\E sv \in Incoming : Merge(sv))
  PROVE  IInv'
<1>0. /\ vv \in Incoming /\ sent \in Incoming /\ received \in Incoming
      /\ recordedVv # NoVector => recordedVv \in Incoming
      /\ fresh \in SUBSET Nodes
      /\ TypeInv /\ Plausible(vv) /\ Plausible(sent)
      /\ recordedVv # NoVector => Plausible(recordedVv)
      /\ at \in {"record", "join", "reply"} => Plausible(received)
  BY DEF IInv, Kept, TypeInv, TypeOK
<1>1. ASSUME UNCHANGED <<vv, appVars>>
      PROVE  /\ Counted' /\ NotLowered' /\ Plausible(vv)'
             /\ \A t \in AppThreads : Base(t)' = Base(t)
             /\ Plausible(sent)
  BY <1>0, <1>1 DEF IInv, Counted, NotLowered, Plausible, Base, Top, appVars
<1>2. ASSUME NEW w, NEW x, UNCHANGED <<vv, appVars>>, Plausible(w), x = w
      PROVE  /\ \A t \in AppThreads : x[StreamOf[t]] <= Larger(Base(t)', Earlier[StreamOf[t]])
             /\ \A m \in Nodes \ Streams : x[m] <= vv'[m]
  BY <1>2 DEF Plausible, Base, appVars
<1>3. ASSUME NEW sv \in Incoming, Merge(sv) PROVE IInv'
  <2>1. vv' = Join(vv, sv)
    BY <1>0, <1>3, MergeFacts DEF Merge
  <2>2. \A m \in Nodes : vv[m] <= vv'[m] /\ sv[m] <= vv'[m]
    BY <1>0, <2>1, JoinFacts DEF \preceq
  <2>3. ASSUME NEW t \in AppThreads
        PROVE  vv'[StreamOf[t]] <= Larger(Base(t), Earlier[StreamOf[t]])
    <3>1. sv[StreamOf[t]] <= Larger(sent[StreamOf[t]], Earlier[StreamOf[t]])
      BY <1>3, StreamFacts DEF Merge, Receivable
    <3>2. /\ sent[StreamOf[t]] <= Larger(Base(t), Earlier[StreamOf[t]])
          /\ vv[StreamOf[t]] <= Larger(Base(t), Earlier[StreamOf[t]])
      BY <1>0 DEF Plausible
    <3>3. /\ vv'[StreamOf[t]] = vv[StreamOf[t]] \/ vv'[StreamOf[t]] = sv[StreamOf[t]]
      BY <2>1, StreamFacts DEF Join, Larger
    <3>4. /\ sent[StreamOf[t]] \in Nat /\ sv[StreamOf[t]] \in Nat /\ Base(t) \in Nat
          /\ Earlier[StreamOf[t]] \in Nat
      BY <1>0, ThreadFacts, ThreadsAssumption DEF Incoming
    <3> QED
      BY <3>1, <3>2, <3>3, <3>4 DEF Larger
  <2>4. UNCHANGED <<appVars, sent, recordedVv>> /\ received' = sv
    BY <1>3 DEF Merge
  <2>5. /\ Counted' /\ NotLowered' /\ Plausible(vv)'
        /\ \A t \in AppThreads : Base(t) <= Base(t)'
    BY <2>2, <2>3, <2>4, RaisedPlausibly
  <2>6. \A m \in Nodes \ Streams : vv[m] <= vv'[m]
    BY <2>2
  <2>7. Plausible(sent)'
    BY <1>0, <2>4, <2>5, <2>6, PlausibleStays DEF Plausible
  <2>8. recordedVv # NoVector => Plausible(recordedVv)'
    BY <1>0, <2>4, <2>5, <2>6, PlausibleStays DEF Plausible
  <2>9. Plausible(received)'
    <3>1. \A t \in AppThreads : sv[StreamOf[t]] <= vv'[StreamOf[t]]
      BY <2>2, StreamFacts
    <3>2. ASSUME NEW t \in AppThreads
          PROVE  sv[StreamOf[t]] <= Larger(Base(t)', Earlier[StreamOf[t]])
      <4>1. vv'[StreamOf[t]] <= Larger(Base(t)', Earlier[StreamOf[t]])
        BY <2>5 DEF Plausible
      <4>2. /\ sv[StreamOf[t]] \in Nat /\ vv'[StreamOf[t]] \in Nat
            /\ Earlier[StreamOf[t]] \in Nat
        BY StreamFacts, ThreadsAssumption DEF TypeInv, TypeOK, Incoming
      <4>3. pc[t]' \in {"insert", "update"} => seqNo[t]' \in Numbers
        BY DEF TypeInv, NumberTaken
      <4>4. Base(t)' \in Nat
        BY <4>2, <4>3 DEF Base, Numbers
      <4> QED
        BY <3>1, <4>1, <4>2, <4>4 DEF Larger
    <3> QED
      BY <2>2, <2>4, <3>2 DEF Plausible
  <2> QED
    BY <2>4, <2>5, <2>7, <2>8, <2>9 DEF IInv, Kept
<1>4. CASE CompareRecorded
  <2>1. recordedVv \in Incoming /\ Plausible(recordedVv)
    BY <1>0, <1>4 DEF CompareRecorded, TypeInv, RecordingSafely
  <2>2. vv' = Join(vv, recordedVv)
    <3>1. vv' = MergeStateVector(vv, fresh, recordedVv).vv
      BY <1>4 DEF CompareRecorded
    <3> QED
      BY <1>0, <2>1, <3>1, MergeFacts
  <2>3. \A m \in Nodes : vv[m] <= vv'[m]
    BY <1>0, <2>1, <2>2, JoinFacts DEF \preceq
  <2>4. \A t \in AppThreads : vv'[StreamOf[t]] <= Larger(Base(t), Earlier[StreamOf[t]])
    BY <1>0, <2>1, <2>2, JoinPlausible DEF Plausible
  <2>5. UNCHANGED <<appVars, sent, recordedVv, received>> /\ at' \notin {"record", "join", "reply"}
    BY <1>4 DEF CompareRecorded
  <2>6. /\ Counted' /\ NotLowered' /\ Plausible(vv)'
        /\ \A t \in AppThreads : Base(t) <= Base(t)'
    BY <2>3, <2>4, <2>5, RaisedPlausibly
  <2>7. \A m \in Nodes \ Streams : vv[m] <= vv'[m]
    BY <2>3
  <2>8. Plausible(sent)'
    BY <1>0, <2>5, <2>6, <2>7, PlausibleStays DEF Plausible
  <2>9. recordedVv # NoVector => Plausible(recordedVv)'
    BY <1>0, <2>5, <2>6, <2>7, PlausibleStays DEF Plausible
  <2> QED
    BY <2>5, <2>6, <2>8, <2>9 DEF IInv, Kept
<1>5. CASE JoinRecorded
  <2>1. UNCHANGED <<vv, appVars>> /\ sent' = sent /\ at' \notin {"record", "join", "reply"}
    BY <1>5 DEF JoinRecorded
  <2>2. Plausible(Join(recordedVv, received)) /\ recordedVv' = Join(recordedVv, received)
    BY <1>0, <1>5, JoinPlausible DEF JoinRecorded, TypeInv, RecordingSafely
  <2>3. Plausible(sent)' /\ Plausible(recordedVv)'
    BY <1>0, <1>2, <2>1, <2>2 DEF Plausible
  <2> QED
    BY <1>1, <2>1, <2>3 DEF IInv, Kept
<1>6. CASE Send
  <2>1. UNCHANGED <<vv, appVars>> /\ at' \notin {"record", "join", "reply"}
    BY <1>6 DEF Send
  <2>2. Plausible(Join(sent, vv)) /\ sent' = Join(sent, vv) /\ recordedVv' = recordedVv
    BY <1>0, <1>6, JoinPlausible DEF Send
  <2>3. Plausible(sent)' /\ (recordedVv # NoVector => Plausible(recordedVv)')
    BY <1>0, <1>2, <2>1, <2>2 DEF Plausible
  <2> QED
    BY <1>1, <2>1, <2>2, <2>3 DEF IInv, Kept
<1>7. CASE BeginRecord \/ ReplyNotNewer \/ ReplyNewer \/ ArmLoop \/ Release \/ Fire
  <2>1. UNCHANGED <<vv, appVars, sent>>
    BY <1>7 DEF BeginRecord, ReplyNotNewer, ReplyNewer, ArmLoop, Release, Fire
  <2>2. recordedVv' # NoVector => Plausible(recordedVv')
    BY <1>0, <1>7 DEF BeginRecord, ReplyNotNewer, ReplyNewer, ArmLoop, Release, Fire
  <2>3. at' \in {"record", "join", "reply"} => Plausible(received')
    BY <1>0, <1>7 DEF BeginRecord, ReplyNotNewer, ReplyNewer, ArmLoop, Release, Fire
  <2>4. /\ Plausible(sent)'
        /\ (recordedVv # NoVector => Plausible(recordedVv))'
        /\ (at \in {"record", "join", "reply"} => Plausible(received))'
    BY <1>0, <1>2, <2>1, <2>2, <2>3 DEF Plausible
  <2> QED
    BY <1>1, <2>1, <2>4 DEF IInv, Kept
<1> QED
  BY <1>3, <1>4, <1>5, <1>6, <1>7 DEF Handle

LEMMA NextIInv == OneThreadPerStream /\ IInv /\ [Next]_vars => IInv'
<1> SUFFICES ASSUME OneThreadPerStream, IInv, [Next]_vars PROVE IInv'
  OBVIOUS
<1>0. TypeInv'
  BY NextTypeInv DEF IInv
<1>1. ASSUME NEW t \in AppThreads, Publish(t) PROVE IInv'
  BY <1>0, <1>1, PublishIInv
<1>2. CASE Handle \/ Fire \/ \E sv \in Incoming : Merge(sv)
  BY <1>0, <1>2, LoopIInv
<1>3. CASE Expire \/ (\E m \in Nodes : Settle(m)) \/ UNCHANGED vars
  <2>1. UNCHANGED <<vv, recordedVv, sent, appVars, at, received>>
    BY <1>3 DEF Expire, Settle, loopVars, vars
  <2>2. Counted' /\ NotLowered' /\ Kept'
    BY <2>1 DEF IInv, Counted, NotLowered, Kept, Plausible, Base, Top, appVars
  <2> QED
    BY <1>0, <2>2 DEF IInv
<1> QED
  BY <1>1, <1>2, <1>3 DEF Next

LEMMA Invariance == ASSUME OneThreadPerStream PROVE Spec => []IInv
<1>1. Init => IInv
  BY InitIInv
<1>2. IInv /\ [Next]_vars => IInv'
  BY NextIInv
<1> QED
  BY <1>1, <1>2, PTL DEF Spec

\* As long as no two threads publish under one name, a run stores one publication under
\* a number, whatever is merged while it does.
THEOREM NumbersAreUnique ==
  ASSUME OneThreadPerStream PROVE Spec => []UniqueNumbers
<1>1. IInv => UniqueNumbers
  BY DEF IInv, Counted, UniqueNumbers, Streams
<1> QED
  BY <1>1, Invariance, PTL

\* Under the same condition, and but for the numbers that an earlier run announced,
\* nothing sent or recorded is ever lost from the vector, and what was announced is
\* stored.
THEOREM AlwaysSentIsKept ==
  ASSUME OneThreadPerStream PROVE Spec => []SentIsKept
<1>1. IInv => SentIsKept
  <2> SUFFICES ASSUME IInv PROVE SentIsKept
    OBVIOUS
  <2>1. ASSUME NEW w \in Incoming, Plausible(w) PROVE w \preceq Accounted
    <3> SUFFICES ASSUME NEW m \in Nodes PROVE w[m] <= Accounted[m]
      BY DEF \preceq
    <3>1. ASSUME NEW t \in AppThreads, m = StreamOf[t] PROVE w[m] <= Accounted[m]
      <4>1. /\ w[m] <= Larger(Base(t), Earlier[m]) /\ Base(t) <= vv[m]
            /\ Accounted[m] = Larger(vv[m], Earlier[m])
        BY <2>1, <3>1, StreamFacts DEF Plausible, IInv, NotLowered, Accounted
      <4>2. w[m] \in Nat /\ Base(t) \in Nat /\ vv[m] \in Nat /\ Earlier[m] \in Nat
        BY <3>1, ThreadFacts, ThreadsAssumption DEF IInv, Incoming
      <4> QED
        BY <4>1, <4>2 DEF Larger
    <3>2. CASE m \notin Streams
      BY <2>1, <3>2 DEF Plausible, Accounted
    <3> QED
      BY <3>1, <3>2 DEF Streams
  <2>2. ASSUME NEW t \in AppThreads, NEW i \in Numbers, i <= sent[StreamOf[t]]
        PROVE  stored[StreamOf[t]][i] > 0 \/ i <= Earlier[StreamOf[t]]
    <3>1. /\ Base(t) \in Nat /\ Top(t) \in Nat /\ Earlier[StreamOf[t]] \in Nat /\ i \in Nat
          /\ stored[StreamOf[t]][i] \in Nat /\ Base(t) <= Top(t)
      BY ThreadFacts DEF IInv, Numbers, Top
    <3>2. sent[StreamOf[t]] <= Larger(Base(t), Earlier[StreamOf[t]])
      BY DEF IInv, Kept, Plausible
    <3>3. sent[StreamOf[t]] \in Nat
      BY StreamFacts, ThreadsAssumption DEF IInv, TypeInv, TypeOK, Incoming
    <3>4. Earlier[StreamOf[t]] < i /\ i <= Top(t) => stored[StreamOf[t]][i] # 0
      BY DEF IInv, Counted
    <3> QED
      BY <2>2, <3>1, <3>2, <3>3, <3>4 DEF Larger
  <2> QED
    BY <2>1, <2>2 DEF IInv, Kept, TypeInv, TypeOK, SentIsKept, Streams
<1> QED
  BY <1>1, Invariance, PTL
=============================================================================
