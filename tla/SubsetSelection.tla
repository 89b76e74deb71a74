--------------------------- MODULE SubsetSelection --------------------------
(***************************************************************************)
(* VersionVector::selectSubset (version-vector.cpp): which entries of a    *)
(* state vector go into one Sync Interest, for every selection strategy.   *)
(*                                                                         *)
(* A name is a positive number, and names are ordered as numbers, as       *)
(* std::map orders NodeIDs. The vector is given by `recency', its names    *)
(* from the latest to the earliest update (equal timestamps are one of     *)
(* these orders), and `seqNo', their sequence numbers. The arguments of    *)
(* the call are the fields of one record, a:                               *)
(*   strategy, max (maxEntries), rotation (the names from startIndex on),  *)
(*   preferred (0: none), recency, seqNo, recentEntries, hotPercent (100 * *)
(*   hotRatio), minFair,                                                   *)
(*   weights (scoreSeqWeight, scoreRecentWeight, scoreFairWeight),         *)
(*   sticky, stickyBudget, base (noveltyBaseEntries), noveltyBudget,       *)
(*   missed (scoreCompensationRounds), clusterOf (extractClusterKey) and   *)
(*   lucky, the names std::shuffle puts before the others: which of them   *)
(*   come first is all that counts of a shuffled order.                    *)
(* Scores are compared as exact rationals over a common denominator. The   *)
(* boost of the preferred node is left out: a preferred node that is in    *)
(* the vector is selected before any score is computed.                    *)
(***************************************************************************)
EXTENDS Integers, Sequences, FiniteSets, SequencesExt, FiniteSetsExt

Smaller(x, y) == IF x <= y THEN x ELSE y

Larger(x, y) == IF x >= y THEN x ELSE y

Names(a) == ToSet(a.recency)

Total(a) == Len(a.recency)

Room(a, sel) == a.max - Cardinality(sel)

\* The first `count' entries of `order' that are in S.
FirstOf(order, S, count) ==
  LET listed == {i \in DOMAIN order : order[i] \in S}
  IN  {order[i] : i \in {j \in listed : Cardinality({k \in listed : k < j}) < count}}

\* The loop all strategies share: names of S that are not selected yet, in the
\* order given, until `budget' were added or the subset is full. (The bound s makes
\* TLC evaluate sel once.)
AddFrom(a, sel, order, S, budget) ==
  UNION {s \union FirstOf(order, S \ s, Smaller(budget, Room(a, s))) : s \in {sel}}

Add(a, sel, order, budget) == AddFrom(a, sel, order, Names(a), budget)

\* The names of S before the others.
AddPreferring(a, sel, S, budget) ==
  LET first == AddFrom(a, sel, a.recency, S, budget)
      spent == Cardinality(first) - Cardinality(sel)
  IN  Add(a, first, a.recency, budget - spent)

-----------------------------------------------------------------------------
(* The orders in which names are offered. *)

\* The elements of S, ordered by `below': below[x] are the ones that come before x.
Sorted(S, below) ==
  [i \in 1 .. Cardinality(S) |-> CHOOSE x \in S : Cardinality(below[x]) = i - 1]

Ascending(S) == Sorted(S, [x \in S |-> {y \in S : y < x}])

\* The entries of s that are in S.
Only(s, S) ==
  LET places == {i \in DOMAIN s : s[i] \in S}
      place  == Ascending(places)
  IN  [k \in 1 .. Cardinality(places) |-> s[place[k]]]

\* std::map order, starting at the cursor and wrapping around.
Rotation(S, start) ==
  LET ordered == Ascending(S)
      size    == Cardinality(S)
      offset  == start % size
  IN  [i \in 1 .. size |-> ordered[((offset + i - 1) % size) + 1]]

AddRecent(a, sel, budget) == Add(a, sel, a.recency, budget)

AddRoundRobin(a, sel, budget) == Add(a, sel, a.rotation, budget)

AddSticky(a, sel, budget) == Add(a, sel, a.sticky, budget)

AddRandom(a, sel, budget) == AddPreferring(a, sel, a.lucky, budget)

\* Faulty variant: the names selected last are not left out.
AddAnyRecent(a, sel, budget) == Add(a, sel, a.recency, budget)

\* Names that are not in `base', the latest first.
AddNovelty(a, sel, budget) ==
  AddFrom(a, sel, a.recency, Names(a) \ a.base, budget)

-----------------------------------------------------------------------------
(* Scores. *)

MaxSeqNo(a) == Max({a.seqNo[n] : n \in Names(a)})

\* Position in an order, from 0.
RankIn(order, n) == CHOOSE i \in 0 .. Len(order) - 1 : order[i + 1] = n

\* Numerators of the rank and sequence number scores, over (Total - 1) and MaxSeqNo.
RecentScore(a, n) == Total(a) - 1 - RankIn(a.recency, n)
AgeScore(a, n)    == RankIn(a.recency, n)
TurnScore(a, n)   == Total(a) - 1 - RankIn(a.rotation, n)

\* Highest score first; equal scores by the order `tie'.
ByScore(a, score, tie) ==
  Sorted(Names(a), [x \in Names(a) |->
    {y \in Names(a) : \/ score[y] > score[x]
                      \/ score[y] = score[x] /\ RankIn(tie, y) < RankIn(tie, x)}])

AddScore(a, sel, budget) ==
  LET s == MaxSeqNo(a)
      t == Total(a) - 1
      c == Larger(1, Max({a.missed[n] : n \in Names(a)}))
      score == [n \in Names(a) |-> a.weights[1] * a.seqNo[n] * t * c
                                   + a.weights[2] * RecentScore(a, n) * s * c
                                   + a.weights[3] * a.missed[n] * s * t]
  IN  Add(a, sel, ByScore(a, score, a.recency), budget)

AddAgeScore(a, sel, budget) ==
  LET s == MaxSeqNo(a)
      score == [n \in Names(a) |-> 25 * a.seqNo[n] * (Total(a) - 1)
                                   + 60 * AgeScore(a, n) * s
                                   + 15 * TurnScore(a, n) * s]
  IN  Add(a, sel, ByScore(a, score, Reverse(a.recency)), budget)

AddDeficitScore(a, sel, budget) ==
  LET s == MaxSeqNo(a)
      score == [n \in Names(a) |-> 55 * (s - a.seqNo[n]) * (Total(a) - 1)
                                   + 25 * RecentScore(a, n) * s
                                   + 20 * TurnScore(a, n) * s]
  IN  Add(a, sel, ByScore(a, score, a.recency), budget)

-----------------------------------------------------------------------------
(* Clusters. *)

Clusters(a, sel) == {a.clusterOf[n] : n \in sel}

\* The latest name of every cluster that is not represented yet goes first.
AddClusterRecent(a, sel, budget) ==
  LET leads == {n \in Names(a) :
                 /\ a.clusterOf[n] \notin Clusters(a, sel)
                 /\ \A m \in Names(a) : a.clusterOf[m] = a.clusterOf[n]
                      => RankIn(a.recency, n) <= RankIn(a.recency, m)}
  IN  AddPreferring(a, sel, leads, budget)

\* The best name given what is selected: the more of its cluster is, the less it scores.
AddBestOfClusters(a, sel) ==
  LET s == MaxSeqNo(a)
      t == Total(a) - 1
      taken(n) == Cardinality({m \in sel : a.clusterOf[m] = a.clusterOf[n]})
      bonus(n) == IF taken(n) = 0 THEN 30 ELSE Larger(0, 18 - 8 * taken(n))
      score == [n \in Names(a) |-> 28 * a.seqNo[n] * t
                                   + 42 * RecentScore(a, n) * s
                                   + 18 * TurnScore(a, n) * s
                                   + bonus(n) * s * t]
  IN  Add(a, sel, ByScore(a, score, a.recency), 1)

AddClusterScore(a, sel, budget) ==
  LET chosen[i \in 0 .. budget] ==
        IF i = 0 THEN sel ELSE AddBestOfClusters(a, chosen[i - 1])
  IN  chosen[budget]

-----------------------------------------------------------------------------
(* The strategies. *)

\* Entries kept for the rotation by the strategies that mix it with another order.
FairnessReserve(a) ==
  IF a.max >= 4 THEN Smaller(a.max - 1, Larger(1, a.minFair)) ELSE 0

\* What such a strategy spends on its own order first.
MainBudget(a, sel) ==
  IF Room(a, sel) > FairnessReserve(a) THEN Room(a, sel) - FairnessReserve(a)
                                       ELSE Room(a, sel)

\* Faulty variant: no guarantee for the recent entries.
HotByRatio(a, sel) ==
  LET ratio  == Smaller(95, Larger(50, a.hotPercent))
      target == Smaller((a.max * ratio + 99) \div 100, a.max - FairnessReserve(a))
  IN  Larger(target, Cardinality(sel))

\* How large hybrid selection lets the subset grow with recent entries.
HotTarget(a, sel) ==
  LET ratio  == Smaller(95, Larger(50, a.hotPercent))
      target == Smaller((a.max * ratio + 99) \div 100, a.max - FairnessReserve(a))
      recent == Smaller(a.max, Cardinality(sel) + Larger(1, a.recentEntries))
  IN  Larger(recent, Larger(target, Cardinality(sel)))

ClusterBudget(a, sel) ==
  Larger(MainBudget(a, sel), Smaller(a.max, Larger(1, a.recentEntries)))

\* What each strategy with a reserve fills its part with, and how much of it.
AddMain(a, sel, budget) ==
  CASE a.strategy = "AgeScore"      -> AddAgeScore(a, sel, budget)
    [] a.strategy = "DeficitScore"  -> AddDeficitScore(a, sel, budget)
    [] a.strategy = "ClusterScore"  -> AddClusterScore(a, sel, budget)
    [] a.strategy = "Hybrid"        -> AddRecent(a, sel, budget)
    [] a.strategy = "ClusterHybrid" -> AddClusterRecent(a, sel, budget)

MainTarget(a, sel) ==
  CASE a.strategy = "Hybrid"        -> HotTarget(a, sel) - Cardinality(sel)
    [] a.strategy = "ClusterHybrid" -> ClusterBudget(a, sel)
    [] OTHER                        -> MainBudget(a, sel)

\* Own order, rotation, own order again, rotation again. A budget of a.max stands
\* for all the room that is left.
WithReserve(a, sel) ==
  LET main == AddMain(a, sel, MainTarget(a, sel))
      fair == AddRoundRobin(a, main, FairnessReserve(a))
      rest == AddMain(a, fair, a.max)
  IN  AddRoundRobin(a, rest, a.max)

\* Recent entries, the quota of novel or random ones, then recent entries again.
WithQuota(a, sel) ==
  LET quota  == Smaller(a.noveltyBudget, Room(a, sel))
      recent == AddRecent(a, sel, Room(a, sel) - quota)
      other  == IF a.strategy = "RecentNoveltyQuota" THEN AddNovelty(a, recent, quota)
                                                     ELSE AddRandom(a, recent, quota)
      rest   == AddRecent(a, other, a.max)
  IN  AddRoundRobin(a, rest, a.max)

\* Faulty variant: recent entries take the room first.
StickyLast(a, sel) ==
  LET rest == AddRecent(a, sel, a.max)
  IN  AddSticky(a, rest, a.stickyBudget)

\* Entries of the last selection, then recent entries.
StickyRecent(a, sel) ==
  LET held == AddSticky(a, sel, a.stickyBudget)
      rest == AddRecent(a, held, a.max)
  IN  AddRoundRobin(a, rest, a.max)

\* Faulty variant: the preferred node competes like any other.
NobodyPreferred(a) == {}

\* The entry of the preferred node comes before everything else.
Preferred(a) == {a.preferred} \intersect Names(a)

PartialSubset(a) ==
  LET sel == Preferred(a)
  IN  CASE a.strategy = "Recent"              ->
             AddRecent(a, AddSticky(a, sel, a.stickyBudget), a.max)
        [] a.strategy = "StickyRecent"        -> StickyRecent(a, sel)
        [] a.strategy = "Random"              -> AddRandom(a, sel, a.max)
        [] a.strategy = "RoundRobin"          -> AddRoundRobin(a, sel, a.max)
        [] a.strategy = "Score"               -> AddScore(a, sel, a.max)
        [] a.strategy \in {"RecentNoveltyQuota", "RecentRandomQuota"} -> WithQuota(a, sel)
        [] OTHER                              -> WithReserve(a, sel)

SelectSubset(a) ==
  IF a.max = 0 \/ Names(a) = {} THEN {}
  ELSE IF a.strategy = "Full" \/ Total(a) <= a.max THEN Names(a)
  ELSE PartialSubset(a)
=============================================================================
