-------------------------- MODULE CoreThreadsProps --------------------------
(***************************************************************************)
(* What the threads of one node may count on.                              *)
(***************************************************************************)
EXTENDS CoreThreads

\* Under a sequence number of a stream this run stores one publication, though
\* getSeqNo and updateSeqNo are two critical sections, and a merge between them may
\* raise the entry, which updateSeqNo then sets back (svsync-base.cpp:66, 76,
\* core.cpp:912, 957).
UniqueNumbers == \A s \in Streams : \A i \in Numbers : stored[s][i] <= 1

\* The precondition under which UniqueNumbers holds: no two threads publish under one
\* NodeID.
OneThreadPerStream == \A t, u \in AppThreads : StreamOf[t] = StreamOf[u] => t = u

\* The vector, with what an earlier run announced of this node's streams.
Accounted == [m \in Nodes |-> IF m \in Streams THEN Larger(vv[m], Earlier[m]) ELSE vv[m]]

\* What the node announces, and what it records of the others, stays in its vector,
\* and what it announces of its streams is stored, whichever thread sets an entry in
\* between (core.cpp:803, 912, 957). Only numbers of an earlier run are excepted: the
\* node may announce one that it has merged, for which it stores nothing, and
\* updateSeqNo may withdraw it.
SentIsKept ==
  /\ sent \preceq Accounted
  /\ recordedVv # NoVector => recordedVv \preceq Accounted
  /\ \A s \in Streams : \A i \in Numbers : i <= sent[s] => stored[s][i] > 0 \/ i <= Earlier[s]

\* The mutexes a thread may wait for where it is.
Wanted(th) ==
  IF th \in AppThreads
    THEN CASE pc[th] \in {"idle", "update", "interval"} -> {"vv"}
           [] pc[th] = "arm"                             -> {"scheduler"}
           [] OTHER                                      -> {}
    ELSE CASE at \in {"idle", "record"}           -> {"vv", "recordedVv"}
           [] at \in {"join", "compare", "send"} -> {"vv"}
           [] at = "reply"                       -> {"recordedVv"}
           [] at = "arm"                         -> {"scheduler"}
           [] OTHER                              -> {}

Rank == [recordedVv |-> 1, vv |-> 2, scheduler |-> 3]

\* The mutexes are taken in one order, so that no threads wait for each other,
\* and none for a mutex it holds itself: std::mutex is not recursive, and
\* updateSeqNo, recordVector and retxSyncInterest call functions that lock
\* (core.cpp:543, 803, 955, 1096).
LockOrder ==
  \A th \in Threads : \A held \in Mutexes : \A x \in Wanted(th) :
    owner[held] = th => Rank[held] < Rank[x]

\* A publication is announced once it is stored, although the loop may replace the
\* timer that was armed for it (core.cpp:776), be in suppression, or find the entry
\* fresh. The numbers of an earlier run are excepted: the others have them, and
\* updateSeqNo arms no timer when a merge has brought the entry there (core.cpp:960).
Announced ==
  \A s \in Streams : \A i \in Numbers :
    i > Earlier[s] => (stored[s][i] > 0 ~> sent[s] >= i)
=============================================================================
