---------------------------- MODULE StateVectors ----------------------------
(***************************************************************************)
(* State vectors, and the two pure computations every Sync Interest goes   *)
(* through: cutting a vector down to the slice that is sent, and merging a *)
(* received vector into the local one.                                     *)
(*                                                                         *)
(* VersionVector (version-vector.hpp) is a map from node names to sequence *)
(* numbers whose get() returns 0 for an absent name, and a sequence number *)
(* in it is never 0: here it is a total function in which 0 means absent.  *)
(***************************************************************************)
EXTENDS Naturals, FiniteSets

CONSTANT Nodes     \* the names (NodeID) that members of the sync group use

Vectors == [Nodes -> Nat]

EmptyVector == [m \in Nodes |-> 0]

\* The names the map has an entry for.
Known(v) == {m \in Nodes : v[m] > 0}

v \preceq w == \A m \in Nodes : v[m] <= w[m]

Larger(i, j) == IF i < j THEN j ELSE i

Smaller(i, j) == IF i < j THEN i ELSE j

\* The pointwise maximum: what recordVector leaves in m_recordedVv.
Join(v, w) == [m \in Nodes |-> Larger(v[m], w[m])]

\* The vector restricted to the names in S; omitted names read as 0.
Slice(v, S) == [m \in Nodes |-> IF m \in S THEN v[m] ELSE 0]

\* buildSyncVector with a budget of `limit' entries: everything when it fits,
\* otherwise a slice that fills the budget and holds the sender's own entry
\* when it has one. Which other entries are chosen is the strategy's business.
SyncVectors(v, self, limit) ==
  { Slice(v, S) : S \in
      { T \in SUBSET Known(v) :
          /\ Cardinality(T) = Smaller(limit, Cardinality(Known(v)))
          /\ self \in Known(v) /\ limit > 0 => self \in T } }

\* The names whose entry of w is ahead of v.
Learned(v, w) == {m \in Nodes : v[m] < w[m]}

\* Faulty variants of MergeStateVector, for mutation runs.
\* The stored number is one past the one received.
MergeOffByOne(v, fresh, w) ==
  LET learned == Learned(v, w)
      merged  == [m \in Nodes |-> IF m \in learned THEN w[m] + 1 ELSE v[m]]
  IN  [ vv          |-> merged,
        fresh       |-> fresh \union learned,
        missingInfo |-> [m \in learned |-> [low |-> v[m] + 1, high |-> w[m]]],
        myVectorNew |-> \E m \in Nodes \ (fresh \union learned) : w[m] < merged[m] ]

\* Received entries are stored without comparing them.
MergeUnguarded(v, fresh, w) ==
  LET learned == Learned(v, w)
      merged  == [m \in Nodes |-> IF w[m] > 0 THEN w[m] ELSE v[m]]
  IN  [ vv          |-> merged,
        fresh       |-> fresh \union learned,
        missingInfo |-> [m \in learned |-> [low |-> v[m] + 1, high |-> w[m]]],
        myVectorNew |-> \E m \in Nodes \ (fresh \union learned) : w[m] < merged[m] ]

\* An equal entry counts as newer.
MergeEqualIsNewer(v, fresh, w) ==
  LET learned == Learned(v, w)
      merged  == Join(v, w)
  IN  [ vv          |-> merged,
        fresh       |-> fresh \union learned,
        missingInfo |-> [m \in learned |-> [low |-> v[m] + 1, high |-> w[m]]],
        myVectorNew |-> \E m \in Known(merged) \ (fresh \union learned) :
                          w[m] <= merged[m] ]

\* Only the fresh entries are compared, instead of only the others.
MergeComparesFresh(v, fresh, w) ==
  LET learned == Learned(v, w)
      merged  == Join(v, w)
  IN  [ vv          |-> merged,
        fresh       |-> fresh \union learned,
        missingInfo |-> [m \in learned |-> [low |-> v[m] + 1, high |-> w[m]]],
        myVectorNew |-> \E m \in fresh \union learned : w[m] < merged[m] ]

\* SVSyncCore::mergeStateVector: `vv' and `fresh' are the state it leaves (fresh:
\* the names whose entry changed less than m_maxSuppressionTime ago),
\* the other fields are the MergeResult it returns. A fresh entry is left
\* out of the comparison that decides myVectorNew.
MergeStateVector(v, fresh, w) ==
  LET learned   == Learned(v, w)
      merged    == Join(v, w)
      recent    == fresh \union learned
  IN  [ vv          |-> merged,
        fresh       |-> recent,
        missingInfo |-> [m \in learned |-> [low |-> v[m] + 1, high |-> w[m]]],
        myVectorNew |-> \E m \in Nodes \ recent : w[m] < merged[m] ]

=============================================================================
