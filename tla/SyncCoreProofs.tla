--------------------------- MODULE SyncCoreProofs ---------------------------
(***************************************************************************)
(* Proofs about the synchronisation protocol, for any number of nodes and  *)
(* any bounds: type correctness, the invariants of SyncCoreProps, and that *)
(* the protocol implements GroupSync.                                      *)
(***************************************************************************)
EXTENDS SyncCoreProps, FiniteSetTheorems, TLAPS

-----------------------------------------------------------------------------
(* Vectors. *)

\* Joining two vectors gives their least upper bound (recordVector, and the first
\* loop of mergeStateVector); a join with something older changes nothing.
LEMMA JoinFacts ==
  ASSUME NEW v \in Vectors, NEW w \in Vectors
  PROVE  /\ Join(v, w) \in Vectors
         /\ v \preceq Join(v, w)
         /\ w \preceq Join(v, w)
         /\ \A x \in Vectors : v \preceq x /\ w \preceq x => Join(v, w) \preceq x
         /\ w \preceq v => Join(v, w) = v
BY DEF Vectors, Join, Larger, \preceq

\* The order on vectors is transitive.
LEMMA PrecTransitive ==
  ASSUME NEW u \in Vectors, NEW v \in Vectors, NEW w \in Vectors,
         u \preceq v, v \preceq w
  PROVE  u \preceq w
BY DEF Vectors, \preceq

\* What buildSyncVector puts into a Sync Interest is a vector, and holds nothing
\* that the local vector does not.
LEMMA SyncVectorsFacts ==
  ASSUME NEW v \in Vectors, NEW n \in Nodes, NEW k, NEW sv \in SyncVectors(v, n, k)
  PROVE  sv \in Vectors /\ sv \preceq v
BY DEF Vectors, SyncVectors, Slice, \preceq

\* What mergeStateVector does and returns.
LEMMA MergeFacts ==
  ASSUME NEW v \in Vectors, NEW f \in SUBSET Nodes, NEW w \in Vectors
  PROVE  LET result == MergeStateVector(v, f, w)
         IN  /\ result.vv = Join(v, w)
             /\ result.fresh \in SUBSET Nodes
             /\ result.myVectorNew \in BOOLEAN
             /\ DOMAIN result.missingInfo = Learned(v, w)
             /\ \A m \in Learned(v, w) :
                  /\ result.missingInfo[m].low = v[m] + 1
                  /\ result.missingInfo[m].high = w[m]
BY DEF MergeStateVector, Learned

-----------------------------------------------------------------------------
(* The inductive invariant. *)

\* Sequence numbers stop at the bound of the model.
Bounded == \A m \in Nodes : published[m] <= MaxSeq

IInv ==
  /\ TypeOK
  /\ RecordedIsKnown
  /\ NoPhantom
  /\ Bounded
  /\ ReportedOnce

\* The empty state of a group that was just created satisfies the invariant.
LEMMA InitIInv == Init => IInv
<1> SUFFICES ASSUME Init PROVE IInv
  OBVIOUS
<1>1. EmptyVector \in Vectors
  BY DEF EmptyVector, Vectors
<1>2. TypeOK
  BY <1>1 DEF Init, TypeOK, Timers, Phases, Messages
<1>3. \A n \in Nodes : ~ Suppressing(n)
  BY DEF Init, Suppressing
<1>4. RecordedIsKnown /\ NoPhantom
  BY <1>3 DEF Init, RecordedIsKnown, NoPhantom, EmptyVector, \preceq
<1>5. Bounded /\ ReportedOnce
  BY BoundsAssumption DEF Init, Bounded, ReportedOnce, EmptyVector
<1> QED
  BY <1>2, <1>4, <1>5 DEF IInv

\* Transmitting, whether it sends or not, leaves the local vector alone: the merge
\* with the recorded vectors learns nothing. It sends at most a part of it.
LEMMA RetxEffect ==
  ASSUME IInv, NEW n \in Nodes, NEW i \in BOOLEAN, RetxSyncInterest(n, i)
  PROVE  /\ vv' = vv
         /\ fresh' \in [Nodes -> SUBSET Nodes]
         /\ recordedVv' \in {recordedVv, [recordedVv EXCEPT ![n] = NoVector]}
         /\ timer' \in [Nodes -> Timers]
         /\ txGap' \in [Nodes -> BOOLEAN]
         /\ \E sv \in Vectors :
              /\ sv \preceq vv[n]
              /\ net' \subseteq net \union [from : Nodes, to : Nodes, sv : {sv}]
<1> USE DEF Timers
<1>0. TypeOK /\ RecordedIsKnown /\ vv[n] \in Vectors /\ MinSendGap \in BOOLEAN
  BY BoundsAssumption DEF IInv, TypeOK
<1>1. vv[n] \preceq vv[n]
  BY <1>0 DEF Vectors, \preceq
<1>2. ASSUME NEW sv \in SyncVectors(vv[n], n, Limit), Multicast(n, sv)
      PROVE  \E s \in Vectors :
               /\ s \preceq vv[n]
               /\ net' \subseteq net \union [from : Nodes, to : Nodes, sv : {s}]
  <2>1. sv \in Vectors /\ sv \preceq vv[n]
    BY <1>0, SyncVectorsFacts
  <2>2. net' \subseteq net \union [from : Nodes, to : Nodes, sv : {sv}]
    BY <1>2 DEF Multicast
  <2> QED
    BY <2>1, <2>2
<1>3. CASE HoldSyncInterest(n)
  BY <1>0, <1>1, <1>3 DEF HoldSyncInterest, TypeOK
<1>4. CASE SendSteady(n, i)
  BY <1>0, <1>1, <1>2, <1>4 DEF SendSteady, TypeOK
<1>5. CASE SendUnlessCovered(n, i)
  <2>1. recordedVv[n] \in Vectors /\ recordedVv[n] \preceq vv[n] /\ fresh[n] \in SUBSET Nodes
    BY <1>0, <1>5 DEF SendUnlessCovered, Suppressing, RecordedIsKnown, TypeOK
  <2>2. MergeRecorded(n).vv = vv[n] /\ MergeRecorded(n).fresh \in SUBSET Nodes
    <3>1. Join(vv[n], recordedVv[n]) = vv[n]
      BY <1>0, <2>1, JoinFacts
    <3>2. MergeRecorded(n).vv = Join(vv[n], recordedVv[n])
      BY <1>0, <2>1, MergeFacts DEF MergeRecorded
    <3>3. MergeRecorded(n).fresh \in SUBSET Nodes
      BY <1>0, <2>1, MergeFacts DEF MergeRecorded
    <3> QED
      BY <3>1, <3>2, <3>3
  <2>3. vv' = vv
    BY <1>0, <1>5, <2>2 DEF SendUnlessCovered, TypeOK
  <2>4. fresh' \in [Nodes -> SUBSET Nodes] /\ timer' \in [Nodes -> Timers]
    BY <1>0, <1>5, <2>2 DEF SendUnlessCovered, TypeOK
  <2>5. txGap' \in [Nodes -> BOOLEAN] /\ recordedVv' = [recordedVv EXCEPT ![n] = NoVector]
    BY <1>0, <1>5 DEF SendUnlessCovered, TypeOK
  <2>6. \E sv \in Vectors :
          /\ sv \preceq vv[n]
          /\ net' \subseteq net \union [from : Nodes, to : Nodes, sv : {sv}]
    BY <1>0, <1>1, <1>2, <1>5, <2>2 DEF SendUnlessCovered
  <2> QED
    BY <2>3, <2>4, <2>5, <2>6
<1> QED
  BY <1>3, <1>4, <1>5, RetxSyncInterest(n, i) DEF RetxSyncInterest

\* So a transmission keeps the invariant, in whatever handler it happens.
LEMMA RetxKeepsIInv ==
  ASSUME IInv, NEW n \in Nodes, NEW i \in BOOLEAN, RetxSyncInterest(n, i),
         phase' \in [Nodes -> Phases], UNCHANGED <<published, reported, restarts>>
  PROVE  IInv'
<1>0. TypeOK /\ RecordedIsKnown /\ NoPhantom /\ Bounded /\ ReportedOnce
  BY DEF IInv
<1>1. PICK sv \in Vectors :
        /\ sv \preceq vv[n]
        /\ net' \subseteq net \union [from : Nodes, to : Nodes, sv : {sv}]
  BY RetxEffect
<1>2. /\ vv' = vv
      /\ fresh' \in [Nodes -> SUBSET Nodes]
      /\ recordedVv' \in {recordedVv, [recordedVv EXCEPT ![n] = NoVector]}
      /\ timer' \in [Nodes -> Timers]
      /\ txGap' \in [Nodes -> BOOLEAN]
  BY RetxEffect
<1>3. TypeOK'
  <2>1. net' \subseteq Messages
    BY <1>0, <1>1 DEF TypeOK, Messages
  <2>2. recordedVv' \in [Nodes -> Vectors \union {NoVector}]
    BY <1>0, <1>2 DEF TypeOK
  <2> QED
    BY <1>0, <1>2, <2>1, <2>2 DEF TypeOK
<1>4. \A p \in Nodes : Suppressing(p)' => Suppressing(p) /\ recordedVv'[p] = recordedVv[p]
  BY <1>0, <1>2 DEF Suppressing, TypeOK
<1>5. RecordedIsKnown'
  BY <1>0, <1>2, <1>4 DEF RecordedIsKnown
<1>6. NoPhantom'
  <2>1. sv \preceq published
    BY <1>0, <1>1, PrecTransitive DEF NoPhantom, TypeOK
  <2>2. \A msg \in net' : msg.sv \preceq published
    BY <1>0, <1>1, <2>1 DEF NoPhantom
  <2> QED
    BY <1>0, <1>2, <1>4, <2>2 DEF NoPhantom
<1>7. Bounded' /\ ReportedOnce'
  BY <1>0, <1>2 DEF Bounded, ReportedOnce
<1> QED
  BY <1>3, <1>5, <1>6, <1>7 DEF IInv

-----------------------------------------------------------------------------
(* Handling a Sync Interest. *)

\* What ReportMissing leaves in reported: as much as the local vector moved.
LEMMA ReportFacts ==
  ASSUME TypeOK, NEW n \in Nodes, NEW w \in Vectors,
         ReportMissing(n, MergeStateVector(vv[n], fresh[n], w).missingInfo)
  PROVE  /\ reported' = [reported EXCEPT ![n] =
                           [m \in Nodes |->
                              reported[n][m] + (Join(vv[n], w)[m] - vv[n][m])]]
         /\ reported' \in [Nodes -> Vectors]
<1> DEFINE result == MergeStateVector(vv[n], fresh[n], w)
<1>1. vv[n] \in Vectors /\ fresh[n] \in SUBSET Nodes /\ reported[n] \in Vectors
  BY DEF TypeOK
<1>2. /\ DOMAIN result.missingInfo = Learned(vv[n], w)
      /\ \A m \in Learned(vv[n], w) :
           /\ result.missingInfo[m].low = vv[n][m] + 1
           /\ result.missingInfo[m].high = w[m]
  BY <1>1 DEF MergeStateVector, Learned
<1> HIDE DEF result
<1>3. \A m \in Nodes :
        (IF m \in DOMAIN result.missingInfo
           THEN reported[n][m] + result.missingInfo[m].high + 1
                  - result.missingInfo[m].low
           ELSE reported[n][m])
        = reported[n][m] + (Join(vv[n], w)[m] - vv[n][m])
  BY <1>1, <1>2 DEF Learned, Join, Larger, Vectors
<1>4. reported' = [reported EXCEPT ![n] =
                     [m \in Nodes |->
                        IF m \in DOMAIN result.missingInfo
                          THEN reported[n][m] + result.missingInfo[m].high + 1
                                 - result.missingInfo[m].low
                          ELSE reported[n][m]]]
  BY DEF ReportMissing, TypeOK, result
<1>5. [m \in Nodes |-> reported[n][m] + (Join(vv[n], w)[m] - vv[n][m])] \in Vectors
  BY <1>1 DEF Join, Larger, Vectors
<1>6. reported' = [reported EXCEPT ![n] =
                     [m \in Nodes |-> reported[n][m] + (Join(vv[n], w)[m] - vv[n][m])]]
  BY <1>3, <1>4
<1>7. reported \in [Nodes -> Vectors]
  BY DEF TypeOK
<1> QED
  BY <1>5, <1>6, <1>7

\* Recording keeps what is recorded within the vectors that were merged.
LEMMA RecordEffect ==
  ASSUME TypeOK, NEW n \in Nodes, NEW sv \in Vectors, NEW b \in BOOLEAN,
         NEW t \in Timers, RecordOrReply(n, sv, b, t),
         NEW x \in Vectors, sv \preceq x, Suppressing(n) => recordedVv[n] \preceq x
  PROVE  /\ recordedVv' \in [Nodes -> Vectors \union {NoVector}]
         /\ timer' \in [Nodes -> Timers]
         /\ \A p \in Nodes \ {n} : recordedVv'[p] = recordedVv[p]
         /\ recordedVv'[n] # NoVector => recordedVv'[n] \preceq x
<1> USE DEF Timers, ReplyTimers
<1>1. CASE Suppressing(n)
  <2>1. recordedVv[n] \in Vectors
    BY <1>1 DEF TypeOK, Suppressing
  <2>2. Join(recordedVv[n], sv) \in Vectors /\ Join(recordedVv[n], sv) \preceq x
    BY <1>1, <2>1, JoinFacts
  <2> QED
    BY <1>1, <2>2 DEF RecordOrReply, TypeOK
<1>2. CASE ~ Suppressing(n)
  BY <1>2 DEF RecordOrReply, TypeOK, Suppressing
<1> QED
  BY <1>1, <1>2

\* Handling a Sync Interest keeps the invariant, whether or not the application
\* publishes in the callback. The vector of node n moves to the join, and then
\* at most to its own next number.
LEMMA ReceiveKeepsIInv ==
  ASSUME IInv, NEW msg \in net, Receive(msg.to, msg)
  PROVE  IInv'
<1> DEFINE n == msg.to
           result == MergeStateVector(vv[n], fresh[n], msg.sv)
           x == Join(vv[n], msg.sv)
<1>0. TypeOK /\ RecordedIsKnown /\ NoPhantom /\ Bounded /\ ReportedOnce
  BY DEF IInv
<1>1. /\ n \in Nodes /\ msg.sv \in Vectors
      /\ vv[n] \in Vectors /\ fresh[n] \in SUBSET Nodes /\ published \in Vectors
      /\ timer[n] \in Timers /\ "local" \in Timers
  BY <1>0 DEF TypeOK, Messages, Timers
<1>2. /\ result.vv = x
      /\ result.fresh \in SUBSET Nodes
      /\ result.myVectorNew \in BOOLEAN
  <2>1. result.vv = x
    BY DEF MergeStateVector
  <2>2. result.fresh \in SUBSET Nodes
    BY <1>1 DEF MergeStateVector, Learned
  <2>3. result.myVectorNew \in BOOLEAN
    BY DEF MergeStateVector
  <2> QED
    BY <2>1, <2>2, <2>3
<1>3. x \in Vectors /\ vv[n] \preceq x /\ msg.sv \preceq x
  BY <1>1, JoinFacts
<1>4. vv[n] \preceq published /\ msg.sv \preceq published /\ x \preceq published
  BY <1>0, <1>1, JoinFacts DEF NoPhantom
<1>5. Suppressing(n) => recordedVv[n] \preceq x
  BY <1>0, <1>1, <1>3, PrecTransitive DEF RecordedIsKnown, Suppressing, TypeOK
<1>6. /\ net' = net \ {msg}
      /\ ReportMissing(n, result.missingInfo)
      /\ UNCHANGED <<phase, txGap, restarts>>
  BY DEF Receive, OnSyncInterest, OnSyncInterestPublishing
<1>7. /\ reported' = [reported EXCEPT ![n] =
                        [m \in Nodes |-> reported[n][m] + (x[m] - vv[n][m])]]
      /\ reported' \in [Nodes -> Vectors]
  BY <1>0, <1>1, <1>6, ReportFacts
<1>8. \E t \in Timers : RecordOrReply(n, msg.sv, result.myVectorNew, t)
  BY <1>1 DEF Receive, OnSyncInterest, OnSyncInterestPublishing
<1> HIDE DEF result, x, n
<1>9. /\ recordedVv' \in [Nodes -> Vectors \union {NoVector}]
      /\ timer' \in [Nodes -> Timers]
      /\ \A p \in Nodes \ {n} : recordedVv'[p] = recordedVv[p]
      /\ recordedVv'[n] # NoVector => recordedVv'[n] \preceq x
  BY <1>0, <1>1, <1>2, <1>3, <1>5, <1>8, RecordEffect
\* The vector the step leaves, and what has been published by then.
<1>10. \E y \in Vectors :
         /\ vv' = [vv EXCEPT ![n] = y]
         /\ fresh' \in [Nodes -> SUBSET Nodes]
         /\ x \preceq y
         /\ \A m \in Nodes \ {n} : y[m] = x[m]
         /\ published' \in Vectors
         /\ published \preceq published'
         /\ y \preceq published'
         /\ Bounded'
  <2>1. CASE OnSyncInterest(n, msg)
    <3>1. vv' = [vv EXCEPT ![n] = x] /\ fresh' \in [Nodes -> SUBSET Nodes]
      BY <1>0, <1>2, <2>1 DEF OnSyncInterest, TypeOK, result
    <3>2. published' = published /\ Bounded'
      BY <1>0, <2>1 DEF OnSyncInterest, Bounded
    <3>3. x \preceq x /\ published \preceq published
      BY <1>1, <1>3 DEF Vectors, \preceq
    <3> QED
      BY <1>1, <1>3, <1>4, <3>1, <3>2, <3>3
  <2>2. CASE OnSyncInterestPublishing(n, msg)
    <3> DEFINE y == [x EXCEPT ![n] = x[n] + 1]
    <3>1. vv' = [vv EXCEPT ![n] = y] /\ fresh' \in [Nodes -> SUBSET Nodes]
      BY <1>0, <1>1, <1>2, <2>2 DEF OnSyncInterestPublishing, TypeOK, result
    <3>2. published' = [published EXCEPT ![n] = Larger(published[n], x[n] + 1)]
      BY <1>1, <1>2, <2>2 DEF OnSyncInterestPublishing, result, Vectors
    <3>3. x[n] + 1 <= MaxSeq
      BY <1>2, <2>2 DEF OnSyncInterestPublishing, result
    <3>4. published' \in Vectors /\ published \preceq published' /\ Bounded'
      BY <1>0, <1>1, <1>3, <3>2, <3>3 DEF Larger, Vectors, Bounded, \preceq
    <3>5. y \in Vectors /\ x \preceq y /\ \A m \in Nodes \ {n} : y[m] = x[m]
      BY <1>1, <1>3 DEF Vectors, \preceq
    <3>6. y \preceq published'
      BY <1>1, <1>3, <1>4, <3>2 DEF Larger, Vectors, \preceq
    <3> QED
      BY <3>1, <3>4, <3>5, <3>6
  <2> QED
    BY <2>1, <2>2 DEF Receive, n
<1>11. PICK y \in Vectors :
         /\ vv' = [vv EXCEPT ![n] = y]
         /\ fresh' \in [Nodes -> SUBSET Nodes]
         /\ x \preceq y
         /\ \A m \in Nodes \ {n} : y[m] = x[m]
         /\ published' \in Vectors
         /\ published \preceq published'
         /\ y \preceq published'
         /\ Bounded'
  BY <1>10
<1>12. TypeOK'
  BY <1>0, <1>1, <1>6, <1>7, <1>9, <1>11 DEF TypeOK
<1>13. RecordedIsKnown'
  <2>1. ASSUME NEW p \in Nodes, Suppressing(p)' PROVE recordedVv'[p] \preceq vv'[p]
    <3>1. CASE p = n
      <4>1. recordedVv'[n] \in Vectors /\ recordedVv'[n] \preceq x
        BY <1>1, <1>9, <2>1, <3>1 DEF Suppressing
      <4> QED
        BY <1>0, <1>1, <1>3, <1>11, <3>1, <4>1, PrecTransitive DEF TypeOK
    <3>2. CASE p # n
      BY <1>0, <1>9, <1>11, <2>1, <3>2 DEF RecordedIsKnown, Suppressing, TypeOK
    <3> QED
      BY <3>1, <3>2
  <2> QED
    BY <2>1 DEF RecordedIsKnown
<1>14. NoPhantom'
  <2>1. \A p \in Nodes : vv'[p] \preceq published'
    <3>1. ASSUME NEW p \in Nodes PROVE vv'[p] \preceq published'
      <4>1. vv[p] \preceq published /\ vv[p] \in Vectors
        BY <1>0 DEF NoPhantom, TypeOK
      <4>2. vv[p] \preceq published'
        BY <1>1, <1>11, <4>1, PrecTransitive
      <4> QED
        BY <1>0, <1>11, <4>2 DEF TypeOK
    <3> QED
      BY <3>1
  <2>2. \A p \in Nodes : Suppressing(p)' => recordedVv'[p] \preceq published'
    <3>1. ASSUME NEW p \in Nodes, Suppressing(p)' PROVE recordedVv'[p] \preceq published'
      <4>1. recordedVv'[p] \preceq vv'[p] /\ recordedVv'[p] \in Vectors /\ vv'[p] \in Vectors
        BY <1>12, <1>13, <3>1 DEF RecordedIsKnown, TypeOK, Suppressing
      <4> QED
        BY <1>11, <2>1, <4>1, PrecTransitive
    <3> QED
      BY <3>1
  <2>3. \A m \in net' : m.sv \preceq published'
    <3>1. ASSUME NEW m \in net' PROVE m.sv \preceq published'
      <4>1. m \in net /\ m.sv \in Vectors /\ m.sv \preceq published
        BY <1>0, <1>6, <3>1 DEF NoPhantom, TypeOK, Messages
      <4> QED
        BY <1>1, <1>11, <4>1, PrecTransitive
    <3> QED
      BY <3>1
  <2> QED
    BY <2>1, <2>2, <2>3 DEF NoPhantom
<1>15. ReportedOnce'
  <2>1. ASSUME NEW p \in Nodes, NEW m \in Nodes \ {p} PROVE reported'[p][m] = vv'[p][m]
    <3>1. CASE p = n
      <4>1. reported[n][m] = vv[n][m]
        BY <1>0, <1>1, <2>1, <3>1 DEF ReportedOnce
      <4>2. reported'[n][m] = reported[n][m] + (x[m] - vv[n][m])
        BY <1>0, <1>1, <1>7, <2>1 DEF TypeOK
      <4>3. vv'[n][m] = x[m]
        BY <1>0, <1>1, <1>11, <2>1, <3>1 DEF TypeOK
      <4>4. x[m] \in Nat /\ vv[n][m] \in Nat
        BY <1>1, <1>3 DEF Vectors
      <4> QED
        BY <3>1, <4>1, <4>2, <4>3, <4>4
    <3>2. CASE p # n
      BY <1>0, <1>7, <1>11, <2>1, <3>2 DEF ReportedOnce, TypeOK
    <3> QED
      BY <3>1, <3>2
  <2> QED
    BY <2>1 DEF ReportedOnce
<1> QED
  BY <1>11, <1>12, <1>13, <1>14, <1>15 DEF IInv

-----------------------------------------------------------------------------
(* The remaining handlers, and the theorems. *)

\* Publishing keeps the invariant: the node's own entry and what it has
\* published move together.
LEMMA PublishKeepsIInv ==
  ASSUME IInv, NEW n \in Nodes, Publish(n)
  PROVE  IInv'
<1>0. TypeOK /\ RecordedIsKnown /\ NoPhantom /\ Bounded /\ ReportedOnce
  BY DEF IInv
<1>1. vv[n] \in Vectors /\ published \in Vectors /\ vv[n][n] + 1 <= MaxSeq
  BY <1>0 DEF TypeOK, Publish
<1>2. /\ vv' = [vv EXCEPT ![n] = [vv[n] EXCEPT ![n] = vv[n][n] + 1]]
      /\ published' = [published EXCEPT ![n] = Larger(published[n], vv[n][n] + 1)]
      /\ UNCHANGED <<recordedVv, net, reported>>
  BY <1>0 DEF Publish, TypeOK
<1>3. TypeOK'
  BY <1>0, <1>1, <1>2 DEF Publish, TypeOK, Timers, Larger, Vectors
<1>4. published \preceq published' /\ published' \in Vectors /\ Bounded'
  BY <1>0, <1>1, <1>2 DEF Larger, Vectors, Bounded, \preceq
<1>5. \A p \in Nodes : vv[p] \preceq vv'[p]
  BY <1>0, <1>1, <1>2 DEF TypeOK, Vectors, \preceq
<1>6. RecordedIsKnown'
  BY <1>0, <1>2, <1>3, <1>5, PrecTransitive DEF RecordedIsKnown, Suppressing, TypeOK
<1>7. NoPhantom'
  <2>1. \A p \in Nodes : vv'[p] \preceq published'
    BY <1>0, <1>1, <1>2 DEF NoPhantom, TypeOK, Larger, Vectors, \preceq
  <2>2. \A p \in Nodes : Suppressing(p)' => recordedVv'[p] \preceq published'
    BY <1>0, <1>1, <1>2, <1>4, PrecTransitive DEF NoPhantom, Suppressing, TypeOK
  <2>3. \A m \in net' : m.sv \preceq published'
    BY <1>0, <1>1, <1>2, <1>4, PrecTransitive DEF NoPhantom, TypeOK, Messages
  <2> QED
    BY <2>1, <2>2, <2>3 DEF NoPhantom
<1>8. ReportedOnce'
  BY <1>0, <1>2 DEF ReportedOnce, TypeOK
<1> QED
  BY <1>3, <1>4, <1>6, <1>7, <1>8 DEF IInv

\* A restart keeps the invariant: the node starts from an empty vector.
LEMMA RestartKeepsIInv ==
  ASSUME IInv, NEW n \in Nodes, Restart(n)
  PROVE  IInv'
<1>0. TypeOK /\ RecordedIsKnown /\ NoPhantom /\ Bounded /\ ReportedOnce
  BY DEF IInv
<1>1. EmptyVector \in Vectors
  BY DEF EmptyVector, Vectors
<1>2. TypeOK'
  BY <1>0, <1>1 DEF Restart, TypeOK, Timers, Phases
<1>3. RecordedIsKnown'
  BY <1>0, <1>1 DEF Restart, RecordedIsKnown, Suppressing, TypeOK
<1>4. EmptyVector \preceq published
  BY <1>0 DEF TypeOK, Vectors, EmptyVector, \preceq
<1>5. NoPhantom'
  BY <1>0, <1>1, <1>4 DEF Restart, NoPhantom, Suppressing, TypeOK
<1>6. Bounded' /\ ReportedOnce'
  BY <1>0 DEF Restart, Bounded, ReportedOnce, TypeOK
<1> QED
  BY <1>2, <1>3, <1>5, <1>6 DEF IInv

\* The steps that touch neither vectors nor reports keep the invariant.
LEMMA QuietKeepsIInv ==
  ASSUME IInv, TypeOK', UNCHANGED <<vv, recordedVv, published, reported>>,
         net' \subseteq net
  PROVE  IInv'
BY DEF IInv, RecordedIsKnown, NoPhantom, Bounded, ReportedOnce, Suppressing

\* Every step keeps the invariant.
LEMMA NextIInv == IInv /\ [Next]_vars => IInv'
<1> SUFFICES ASSUME IInv, [Next]_vars PROVE IInv'
  OBVIOUS
<1>0. TypeOK
  BY DEF IInv
<1>1. ASSUME NEW n \in Nodes, OnRegistered(n) PROVE IInv'
  BY <1>0, <1>1, QuietKeepsIInv DEF OnRegistered, TypeOK, Phases
<1>2. ASSUME NEW n \in Nodes, InitialEvent(n) PROVE IInv'
  <2>1. phase' \in [Nodes -> Phases]
    BY <1>0, <1>2 DEF InitialEvent, TypeOK, Phases
  <2> QED
    BY <1>2, <2>1, RetxKeepsIInv DEF InitialEvent
<1>3. ASSUME NEW n \in Nodes, Publish(n) PROVE IInv'
  BY <1>3, PublishKeepsIInv
<1>4. ASSUME NEW n \in Nodes, Expire(n) PROVE IInv'
  BY <1>0, <1>4, QuietKeepsIInv DEF Expire, TypeOK, Timers
<1>5. ASSUME NEW n \in Nodes, Fire(n) PROVE IInv'
  <2>1. phase' \in [Nodes -> Phases]
    BY <1>0, <1>5 DEF Fire, TypeOK
  <2> QED
    BY <1>5, <2>1, RetxKeepsIInv DEF Fire
<1>6. ASSUME NEW n \in Nodes, GapElapsed(n) PROVE IInv'
  BY <1>0, <1>6, QuietKeepsIInv DEF GapElapsed, TypeOK
<1>7. ASSUME NEW n \in Nodes, Restart(n) PROVE IInv'
  BY <1>7, RestartKeepsIInv
<1>8. ASSUME NEW n \in Nodes, NEW m \in Nodes, Settle(n, m) PROVE IInv'
  BY <1>0, <1>8, QuietKeepsIInv DEF Settle, TypeOK
<1>9. ASSUME NEW msg \in net, Receive(msg.to, msg) PROVE IInv'
  BY <1>9, ReceiveKeepsIInv
<1>10. ASSUME NEW msg \in net, Lose(msg) PROVE IInv'
  BY <1>0, <1>10, QuietKeepsIInv DEF Lose, TypeOK
<1>11. CASE UNCHANGED vars
  BY <1>0, <1>11, QuietKeepsIInv DEF vars, TypeOK
<1> QED
  BY <1>1, <1>2, <1>3, <1>4, <1>5, <1>6, <1>7, <1>8, <1>9, <1>10, <1>11
  DEF Next, Receive

LEMMA Invariance == Spec => []IInv
<1> QED
  BY InitIInv, NextIInv, PTL DEF Spec

\* The variables of the protocol always have their types.
THEOREM TypeCorrect == Spec => []TypeOK
<1>1. IInv => TypeOK
  BY DEF IInv
<1> QED
  BY <1>1, Invariance, PTL

\* What a node records in suppression state it has merged before, so the merge
\* made when the timer fires loses no missingInfo.
THEOREM RecordedIsAlwaysKnown == Spec => []RecordedIsKnown
<1>1. IInv => RecordedIsKnown
  BY DEF IInv
<1> QED
  BY <1>1, Invariance, PTL

\* No vector is ever ahead of what was published.
THEOREM NeverPhantom == Spec => []NoPhantom
<1>1. IInv => NoPhantom
  BY DEF IInv
<1> QED
  BY <1>1, Invariance, PTL

\* The application is told of every sequence number of another node that the
\* local vector covers, and of each once.
THEOREM AlwaysReportedOnce == Spec => []ReportedOnce
<1>1. IInv => ReportedOnce
  BY DEF IInv
<1> QED
  BY <1>1, Invariance, PTL

-----------------------------------------------------------------------------
(* Monotonicity and refinement. *)

\* What handling a Sync Interest does to the variables GroupSync sees.
LEMMA ReceiveIsNews ==
  ASSUME IInv, NEW msg \in net, Receive(msg.to, msg)
  PROVE  LET n == msg.to
             x == Join(vv[n], msg.sv)
         IN  /\ n \in Nodes
             /\ x \in [Nodes -> 0 .. MaxSeq]
             /\ \A m \in Nodes : vv[n][m] <= x[m] /\ x[m] <= published[m]
             /\ reported' = [reported EXCEPT ![n] =
                               [m \in Nodes |-> reported[n][m] + (x[m] - vv[n][m])]]
             /\ \/ /\ vv' = [vv EXCEPT ![n] = x]
                   /\ UNCHANGED published
                \/ /\ n \in Producers
                   /\ x[n] < MaxSeq
                   /\ vv' = [vv EXCEPT ![n] = [x EXCEPT ![n] = x[n] + 1]]
                   /\ published' = [published EXCEPT ![n] = Larger(published[n], x[n] + 1)]
<1> DEFINE n == msg.to
           result == MergeStateVector(vv[n], fresh[n], msg.sv)
           x == Join(vv[n], msg.sv)
<1>0. TypeOK /\ NoPhantom /\ Bounded /\ MaxSeq \in Nat
  BY BoundsAssumption DEF IInv
<1>1. /\ n \in Nodes /\ msg.sv \in Vectors
      /\ vv[n] \in Vectors /\ fresh[n] \in SUBSET Nodes /\ published \in Vectors
  BY <1>0 DEF TypeOK, Messages
<1>2. result.vv = x
  BY DEF MergeStateVector
<1>3. x \in Vectors /\ vv[n] \preceq x /\ x \preceq published
  BY <1>0, <1>1, JoinFacts DEF NoPhantom
<1>4. ReportMissing(n, result.missingInfo)
  BY DEF Receive, OnSyncInterest, OnSyncInterestPublishing
<1>5. reported' = [reported EXCEPT ![n] =
                     [m \in Nodes |-> reported[n][m] + (x[m] - vv[n][m])]]
  BY <1>0, <1>1, <1>4, ReportFacts
<1> HIDE DEF result, x, n
<1>6. x \in [Nodes -> 0 .. MaxSeq]
  BY <1>0, <1>1, <1>3 DEF Bounded, Vectors, \preceq
<1>7. \A m \in Nodes : vv[n][m] <= x[m] /\ x[m] <= published[m]
  BY <1>3 DEF \preceq
<1>8. CASE OnSyncInterest(n, msg)
  <2>1. vv' = [vv EXCEPT ![n] = x] /\ UNCHANGED published
    BY <1>2, <1>8 DEF OnSyncInterest, result
  <2> QED
    BY <1>1, <1>5, <1>6, <1>7, <2>1 DEF n, x
<1>9. CASE OnSyncInterestPublishing(n, msg)
  <2>1. /\ n \in Producers
        /\ x[n] + 1 <= MaxSeq
        /\ vv' = [vv EXCEPT ![n] = [x EXCEPT ![n] = x[n] + 1]]
        /\ published' = [published EXCEPT ![n] = Larger(published[n], x[n] + 1)]
    BY <1>1, <1>2, <1>9 DEF OnSyncInterestPublishing, result, Vectors
  <2>2. x[n] < MaxSeq
    BY <1>0, <1>1, <1>6, <2>1
  <2> QED
    BY <1>1, <1>5, <1>6, <1>7, <2>1, <2>2 DEF n, x
<1> QED
  BY <1>8, <1>9 DEF Receive, n

\* Every step of the protocol is one of GroupSync, or changes nothing it sees.
LEMMA NextIsGroupNext == IInv /\ [Next]_vars => [Group!Next]_(Group!vars)
<1> SUFFICES ASSUME IInv, [Next]_vars PROVE [Group!Next]_(Group!vars)
  OBVIOUS
<1>0. TypeOK /\ NoPhantom /\ Bounded /\ MaxSeq \in Nat
  BY BoundsAssumption DEF IInv
<1>1. CASE UNCHANGED <<vv, reported, published>>
  BY <1>1 DEF Group!vars
<1>2. ASSUME NEW n \in Nodes, Publish(n) PROVE Group!Next
  <2>1. vv[n] \in Vectors /\ reported[n] \in Vectors /\ published \in Vectors
    BY <1>0 DEF TypeOK
  <2>2. vv[n] \in Group!News(n)
    <3>1. vv[n] \in [Nodes -> 0 .. MaxSeq]
      BY <1>0, <2>1 DEF NoPhantom, Bounded, Vectors, \preceq
    <3>2. \A m \in Nodes : vv[n][m] <= vv[n][m] /\ vv[n][m] <= published[m]
      BY <1>0, <2>1 DEF NoPhantom, Vectors, \preceq
    <3> QED
      BY <3>1, <3>2 DEF Group!News
  <2>3. Group!Tell(n, vv[n])
    <3>1. [m \in Nodes |-> reported[n][m] + (vv[n][m] - vv[n][m])] = reported[n]
      BY <2>1 DEF Vectors
    <3> QED
      BY <1>0, <1>2, <3>1 DEF Group!Tell, Publish, TypeOK
  <2>4. n \in Producers /\ vv[n][n] < MaxSeq
    BY <1>0, <1>2, <2>1 DEF Publish, Vectors
  <2>5. vv' = [vv EXCEPT ![n] = [vv[n] EXCEPT ![n] = vv[n][n] + 1]]
    BY <1>0, <1>2 DEF Publish, TypeOK
  <2>6. published' = [published EXCEPT ![n] = IF published[n] < vv[n][n] + 1
                                                THEN vv[n][n] + 1 ELSE published[n]]
    BY <1>0, <1>2 DEF Publish, Larger, TypeOK
  <2>7. Group!Advance(n)
    BY <2>2, <2>3, <2>4, <2>5, <2>6 DEF Group!Advance
  <2> QED
    BY <2>7 DEF Group!Next
<1>3. ASSUME NEW msg \in net, Receive(msg.to, msg) PROVE Group!Next
  <2> DEFINE n == msg.to
             x == Join(vv[n], msg.sv)
  <2>1. /\ n \in Nodes
        /\ x \in [Nodes -> 0 .. MaxSeq]
        /\ \A m \in Nodes : vv[n][m] <= x[m] /\ x[m] <= published[m]
        /\ reported' = [reported EXCEPT ![n] =
                          [m \in Nodes |-> reported[n][m] + (x[m] - vv[n][m])]]
        /\ \/ /\ vv' = [vv EXCEPT ![n] = x]
              /\ UNCHANGED published
           \/ /\ n \in Producers
              /\ x[n] < MaxSeq
              /\ vv' = [vv EXCEPT ![n] = [x EXCEPT ![n] = x[n] + 1]]
              /\ published' = [published EXCEPT ![n] = Larger(published[n], x[n] + 1)]
    BY <1>3, ReceiveIsNews
  <2> HIDE DEF n, x
  <2>2. x \in Group!News(n) /\ Group!Tell(n, x)
    BY <2>1 DEF Group!News, Group!Tell
  <2>3. Group!Learn(n) \/ Group!Advance(n)
    BY <2>1, <2>2 DEF Group!Learn, Group!Advance, Larger
  <2> QED
    BY <2>1, <2>3 DEF Group!Next
<1>4. ASSUME NEW n \in Nodes, Restart(n) PROVE Group!Next
  <2>1. Group!Forget(n)
    BY <1>4 DEF Restart, Group!Forget, Group!Nothing, EmptyVector
  <2> QED
    BY <2>1 DEF Group!Next
<1>5. ASSUME NEW n \in Nodes, InitialEvent(n) \/ Fire(n)
      PROVE  UNCHANGED <<vv, reported, published>>
  <2>1. PICK i \in BOOLEAN : RetxSyncInterest(n, i)
    BY <1>5 DEF InitialEvent, Fire
  <2> QED
    BY <1>5, <2>1, RetxEffect DEF InitialEvent, Fire
<1>6. ASSUME NEW n \in Nodes, OnRegistered(n) \/ Expire(n) \/ GapElapsed(n)
      PROVE  UNCHANGED <<vv, reported, published>>
  BY <1>6 DEF OnRegistered, Expire, GapElapsed
<1>7. ASSUME NEW n \in Nodes, NEW m \in Nodes, Settle(n, m)
      PROVE  UNCHANGED <<vv, reported, published>>
  BY <1>7 DEF Settle
<1>8. ASSUME NEW msg \in net, Lose(msg)
      PROVE  UNCHANGED <<vv, reported, published>>
  BY <1>8 DEF Lose
<1>9. CASE UNCHANGED vars
  BY <1>1, <1>9 DEF vars
<1> QED
  BY <1>1, <1>2, <1>3, <1>4, <1>5, <1>6, <1>7, <1>8, <1>9 DEF Next, Receive

\* The protocol implements GroupSync: partial vectors, suppression, losses and
\* restarts never show the application anything but news, each told once.
THEOREM Refinement == Spec => ImplementsGroupSync
<1>1. Init => Group!Init
  BY DEF Init, Group!Init, Group!Nothing, EmptyVector
<1> QED
  BY <1>1, NextIsGroupNext, Invariance, PTL DEF Spec, ImplementsGroupSync, Group!Spec

\* Only a restart takes anything away from a local vector.
LEMMA NextMonotonic ==
  IInv /\ [Next]_vars => \A n \in Nodes : restarts' = restarts => vv[n] \preceq vv'[n]
<1> SUFFICES ASSUME IInv, [Next]_vars, NEW n \in Nodes, restarts' = restarts
             PROVE  vv[n] \preceq vv'[n]
  OBVIOUS
<1>0. TypeOK /\ vv[n] \in Vectors /\ restarts \in Nat
  BY DEF IInv, TypeOK
<1>1. CASE vv' = vv
  BY <1>0, <1>1 DEF Vectors, \preceq
<1>2. ASSUME NEW p \in Nodes, Publish(p) PROVE vv[n] \preceq vv'[n]
  <2>1. vv' = [vv EXCEPT ![p] = [vv[p] EXCEPT ![p] = vv[p][p] + 1]]
    BY <1>0, <1>2 DEF Publish, TypeOK
  <2> QED
    BY <1>0, <2>1 DEF TypeOK, Vectors, \preceq
<1>3. ASSUME NEW msg \in net, Receive(msg.to, msg) PROVE vv[n] \preceq vv'[n]
  <2> DEFINE p == msg.to
             x == Join(vv[p], msg.sv)
  <2>1. /\ p \in Nodes
        /\ x \in [Nodes -> 0 .. MaxSeq]
        /\ \A m \in Nodes : vv[p][m] <= x[m]
        /\ \/ vv' = [vv EXCEPT ![p] = x]
           \/ vv' = [vv EXCEPT ![p] = [x EXCEPT ![p] = x[p] + 1]]
    BY <1>3, ReceiveIsNews
  <2> HIDE DEF p, x
  <2>2. \A m \in Nodes : x[m] \in Nat /\ vv[n][m] \in Nat
    BY <1>0, <2>1, BoundsAssumption DEF Vectors
  <2>3. CASE p = n
    <3>1. vv'[n] = x \/ vv'[n] = [x EXCEPT ![n] = x[n] + 1]
      BY <1>0, <2>1, <2>3 DEF TypeOK
    <3>2. \A m \in Nodes : vv[n][m] <= x[m]
      BY <2>1, <2>3
    <3>3. \A m \in Nodes : vv'[n][m] \in Nat /\ x[m] <= vv'[n][m]
      <4>1. x \in [Nodes -> Nat]
        BY <2>1, <2>2
      <4>2. ASSUME NEW y, y = x \/ y = [x EXCEPT ![n] = x[n] + 1], NEW m \in Nodes
            PROVE  y[m] \in Nat /\ x[m] <= y[m]
        BY <4>1, <4>2
      <4> QED
        BY <3>1, <4>2
    <3>4. \A m \in Nodes : vv[n][m] <= vv'[n][m]
      BY <2>2, <3>2, <3>3
    <3> QED
      BY <3>4 DEF \preceq
  <2>4. CASE p # n
    <3>1. vv'[n] = vv[n]
      BY <1>0, <2>1, <2>4 DEF TypeOK
    <3> QED
      BY <2>2, <3>1 DEF \preceq
  <2> QED
    BY <2>3, <2>4
<1>4. ASSUME NEW p \in Nodes, Restart(p) PROVE FALSE
  BY <1>0, <1>4 DEF Restart
<1>5. ASSUME NEW p \in Nodes, InitialEvent(p) \/ Fire(p) PROVE vv' = vv
  <2>1. PICK i \in BOOLEAN : RetxSyncInterest(p, i)
    BY <1>5 DEF InitialEvent, Fire
  <2> QED
    BY <2>1, RetxEffect
<1>6. ASSUME NEW p \in Nodes, OnRegistered(p) \/ Expire(p) \/ GapElapsed(p)
      PROVE  vv' = vv
  BY <1>6 DEF OnRegistered, Expire, GapElapsed
<1>7. ASSUME NEW p \in Nodes, NEW m \in Nodes, Settle(p, m) PROVE vv' = vv
  BY <1>7 DEF Settle
<1>8. ASSUME NEW msg \in net, Lose(msg) PROVE vv' = vv
  BY <1>8 DEF Lose
<1>9. CASE UNCHANGED vars
  BY <1>1, <1>9 DEF vars
<1> QED
  BY <1>1, <1>2, <1>3, <1>4, <1>5, <1>6, <1>7, <1>8, <1>9 DEF Next, Receive

\* Without a restart, no step takes an entry away or moves one backward.
THEOREM AlwaysMonotonic == Spec => Monotonic
<1>1. IInv /\ [Next]_vars
        => [\A n \in Nodes : restarts' = restarts => vv[n] \preceq vv'[n]]_vars
  BY NextMonotonic
<1> QED
  BY <1>1, Invariance, PTL DEF Spec, Monotonic

-----------------------------------------------------------------------------
(* A group in sync stays quiet when every Sync Interest carries the whole vector. *)

VectorsFit == IsFiniteSet(Nodes) /\ Cardinality(Nodes) <= Limit

\* What buildSyncVector makes of a vector that fits is the vector.
LEMMA FullIsWhole ==
  ASSUME VectorsFit, NEW v \in Vectors, NEW n \in Nodes, NEW sv \in SyncVectors(v, n, Limit)
  PROVE  sv = v
<1>1. PICK T \in SUBSET Known(v) :
        /\ sv = Slice(v, T)
        /\ Cardinality(T) = Smaller(Limit, Cardinality(Known(v)))
  BY DEF SyncVectors
<1>2. /\ IsFiniteSet(Known(v))
      /\ Cardinality(Known(v)) <= Cardinality(Nodes)
  <2>1. Known(v) \in SUBSET Nodes
    BY DEF Known
  <2> QED
    BY <2>1, FS_Subset DEF VectorsFit
<1>3. Cardinality(Known(v)) <= Limit
  <2>1. Cardinality(Known(v)) \in Nat /\ Cardinality(Nodes) \in Nat /\ Limit \in Nat
    BY <1>2, FS_CardinalityType, BoundsAssumption DEF VectorsFit
  <2> QED
    BY <1>2, <2>1 DEF VectorsFit
<1>4. Cardinality(Known(v)) = Cardinality(T)
  <2>1. Cardinality(Known(v)) \in Nat /\ Limit \in Nat
    BY <1>2, FS_CardinalityType, BoundsAssumption
  <2> QED
    BY <1>1, <1>3, <2>1 DEF Smaller
<1>5. T = Known(v)
  BY <1>2, <1>4, FS_Subset
<1>6. \A m \in Nodes : v[m] = IF m \in T THEN v[m] ELSE 0
  BY <1>5 DEF Known, Vectors
<1> QED
  BY <1>1, <1>6 DEF Slice, Vectors

\* A vector equal to the local one teaches nothing and is not older.
LEMMA MergeOfEqual ==
  ASSUME NEW v \in Vectors, NEW f \in SUBSET Nodes
  PROVE  LET result == MergeStateVector(v, f, v)
         IN  /\ DOMAIN result.missingInfo = {}
             /\ result.myVectorNew = FALSE
<1>1. Learned(v, v) = {}
  BY DEF Learned, Vectors
<1>2. \A m \in Nodes : Join(v, v)[m] = v[m] /\ ~ (v[m] < v[m])
  BY DEF Join, Larger, Vectors
<1> QED
  BY <1>1, <1>2 DEF MergeStateVector

\* In a group in sync no step makes a node enter suppression.
LEMMA NextQuiet ==
  ASSUME VectorsFit, IInv, [Next]_vars, InSync, NEW n \in Nodes, ~ Suppressing(n)
  PROVE  ~ Suppressing(n)'
<1>0. /\ TypeOK
      /\ recordedVv \in [Nodes -> Vectors \union {NoVector}]
      /\ recordedVv[n] = NoVector
  BY DEF IInv, TypeOK, Suppressing
<1>1. CASE recordedVv' = recordedVv
  BY <1>0, <1>1 DEF Suppressing
<1>2. ASSUME NEW p \in Nodes, recordedVv' = [recordedVv EXCEPT ![p] = NoVector]
      PROVE  ~ Suppressing(n)'
  BY <1>0, <1>2 DEF Suppressing
<1>3. ASSUME NEW msg \in net, Receive(msg.to, msg)
      PROVE  ~ Suppressing(n)'
  <2> DEFINE p == msg.to
             result == MergeStateVector(vv[p], fresh[p], msg.sv)
  <2>1. /\ p \in Nodes /\ msg.from \in Nodes
        /\ vv[p] \in Vectors /\ fresh[p] \in SUBSET Nodes
    BY <1>0 DEF TypeOK, Messages
  <2>2. msg.sv = vv[p]
    <3>1. msg.sv \in SyncVectors(vv[msg.from], msg.from, Limit) /\ vv[msg.from] = vv[p]
      BY <2>1 DEF InSync
    <3> QED
      BY <2>1, <3>1, FullIsWhole
  <2>3. DOMAIN result.missingInfo = {} /\ result.myVectorNew = FALSE
    BY <2>1, <2>2, MergeOfEqual
  <2>4. RecordOrReply(p, msg.sv, result.myVectorNew, timer[p])
    BY <1>3, <2>3 DEF Receive, OnSyncInterest, OnSyncInterestPublishing
  <2>5. CASE p = n
    BY <1>0, <2>3, <2>4, <2>5 DEF RecordOrReply, Suppressing
  <2>6. CASE p # n
    <3>1. recordedVv'[n] = recordedVv[n]
      BY <1>0, <2>1, <2>4, <2>6 DEF RecordOrReply
    <3> QED
      BY <1>0, <3>1 DEF Suppressing
  <2> QED
    BY <2>5, <2>6
<1>4. ASSUME NEW p \in Nodes, InitialEvent(p) \/ Fire(p)
      PROVE  ~ Suppressing(n)'
  <2>1. PICK i \in BOOLEAN : RetxSyncInterest(p, i)
    BY <1>4 DEF InitialEvent, Fire
  <2>2. recordedVv' \in {recordedVv, [recordedVv EXCEPT ![p] = NoVector]}
    BY <2>1, RetxEffect
  <2> QED
    BY <1>1, <1>2, <2>2
<1>5. ASSUME NEW p \in Nodes, Restart(p)
      PROVE  ~ Suppressing(n)'
  BY <1>2, <1>5 DEF Restart
<1>6. ASSUME NEW p \in Nodes, OnRegistered(p) \/ Publish(p) \/ Expire(p) \/ GapElapsed(p)
      PROVE  recordedVv' = recordedVv
  BY <1>6 DEF OnRegistered, Publish, Expire, GapElapsed
<1>7. ASSUME NEW p \in Nodes, NEW m \in Nodes, Settle(p, m)
      PROVE  recordedVv' = recordedVv
  BY <1>7 DEF Settle
<1>8. ASSUME NEW msg \in net, Lose(msg)
      PROVE  recordedVv' = recordedVv
  BY <1>8 DEF Lose
<1>9. CASE UNCHANGED vars
  BY <1>1, <1>9 DEF vars
<1> QED
  BY <1>1, <1>3, <1>4, <1>5, <1>6, <1>7, <1>8, <1>9 DEF Next, Receive

\* A group of any size whose members agree, and whose vectors fit into a Sync Interest,
\* starts no suppression (core.cpp:762); SyncPartialQuiet shows that this needs the
\* condition.
THEOREM QuietWhenFull ==
  ASSUME VectorsFit
  PROVE  Spec => Quiescence
<1> DEFINE Quiet == InSync => \A n \in Nodes : ~ Suppressing(n) => ~ Suppressing(n)'
<1>1. Spec => [][Quiet]_vars
  <2>1. IInv /\ [Next]_vars => Quiet
    BY NextQuiet
  <2> HIDE DEF Quiet
  <2>2. IInv /\ [Next]_vars => [Quiet]_vars
    BY <2>1
  <2> QED
    BY <2>2, Invariance, PTL DEF Spec
<1> QED
  BY <1>1 DEF Quiescence, Quiet
=============================================================================
