----------------------- MODULE SyncVectorBuilderProps ----------------------
(***************************************************************************)
(* What the slices that SyncVectorBuilder cuts are required to hold.       *)
(***************************************************************************)
EXTENDS SyncVectorBuilder

StateVector == INSTANCE StateVectors WITH Nodes <- AllNames

\* The vector and its slice as StateVectors writes them, absent names as 0.
LocalVector == [n \in AllNames |-> IF n \in KnownNames THEN seqNo[n] ELSE 0]

LimitNow == StateVectorLimit(Len(recency))

\* A step that builds a vector, and one that builds a partial one.
Builds == UNCHANGED seqNo

BuildsPartial == Builds /\ LimitNow < Len(recency)

\* What SyncCore relies on, for every strategy: buildSyncVector returns the whole
\* vector or one that uses the whole budget, and the node's own entry is in it.
SliceContract ==
  [][Builds => StateVector!Slice(LocalVector, slice')
                 \in StateVector!SyncVectors(LocalVector, Self, LimitNow)]_vars

\* Sticky selection holds on to stickyMinHold names of its last selection, as far
\* as the budget and the selection go (core.hpp:304).
KeepsSticky ==
  [][strategy = "StickyRecent" /\ BuildsPartial
       => Cardinality(slice' \intersect ToSet(sticky))
            >= Smaller(Smaller(Env.stickyMinHold, LimitNow - 1), Len(sticky))]_vars

\* The novelty quota brings in quotaMin names that were not selected last, as
\* far as the budget goes and there are any (core.hpp:308).
BringsNovelty ==
  [][strategy = "RecentNoveltyQuota" /\ BuildsPartial
       => Cardinality(slice' \ ToSet(sticky))
            >= Smaller(Smaller(Env.quotaMin, LimitNow - 1),
                       Cardinality(KnownNames \ ToSet(sticky)))]_vars

\* The latest updates are never crowded out by the rotation, by the entries held
\* for fairness or by the node's own entry (core.hpp:285).
CarriesRecent ==
  [][BuildsPartial /\ strategy \in {"Recent", "Hybrid"}
       => \A i \in 1 .. Smaller(Env.recentEntries, LimitNow - 1) :
            recency[i] \in slice']_vars

\* A rotation that has the whole slice for itself.
PureRotation == strategy = "RoundRobin" /\ Self = 0

\* The smallest slice the vector has been cut to.
LeastLimit == Larger(1, StateVectorLimit(Len(Names0)))

\* It leaves a name out only as often as it takes to go round, and as names that
\* appear meanwhile can delay it: one of them in front of a name the cursor has
\* passed keeps the rotation two entries further from it (core.cpp:493).
RotationBound ==
  PureRotation =>
    \A n \in DOMAIN missed :
      missed[n] * LeastLimit
        <= (Len(recency) - 1) + (Len(recency) - Len(Names0))

\* Where no own entry takes a place, the rotations send every known name again and
\* again (core.hpp:332, "to guarantee coverage").
Coverage ==
  \A n \in AllNames :
    (n \in KnownNames /\ Self = 0 /\ strategy \in {"RoundRobin", "Hybrid"})
      ~> n \in slice
=============================================================================
