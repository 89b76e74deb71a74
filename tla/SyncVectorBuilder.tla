------------------------- MODULE SyncVectorBuilder -------------------------
(***************************************************************************)
(* SVSyncCore::buildSyncVector (core.cpp): one node that keeps updating    *)
(* its state vector and cuts a slice of it for each Sync Interest, within  *)
(* a budget and by a strategy, and the state it keeps between slices.      *)
(*                                                                         *)
(* Names are positive numbers (see SubsetSelection). A configuration is    *)
(* fixed when the node starts: its own name, 0 for none, a strategy, and   *)
(* the record env of the NDN_SVS_* variables, ratios in percent and        *)
(* pressures per mille; hotPercent and weights are the values in effect    *)
(* after the clamps of coordinated mode, whose drift with the activity     *)
(* score is left out. m_hotspotScore is never assigned, so it is the 0 it  *)
(* starts as.                                                              *)
(***************************************************************************)
EXTENDS SubsetSelection

CONSTANTS
  Names0,      \* names known at the start, from the latest to the earliest update
  NewNames,    \* names that may appear later
  ClusterOf,   \* extractClusterKey of each name
  Configs,     \* the configurations a node may start with, see ConfigsAssumption
  MaxUpdates,  \* bound: updates of entries, all names together, the start's included
  MaxRounds    \* bound: missed rounds are counted up to here

AllNames == ToSet(Names0) \union NewNames

\* VersionVector::SubsetStrategy.
Strategies ==
  {"Full", "Recent", "Random", "RoundRobin", "Hybrid", "Score", "ClusterHybrid",
   "ClusterScore", "AgeScore", "DeficitScore", "StickyRecent",
   "RecentNoveltyQuota", "RecentRandomQuota", "AdaptiveRecentScore"}

ASSUME NamesAssumption ==
  /\ Names0 \in Seq(Nat \ {0})
  /\ NewNames \subseteq Nat \ {0}
  /\ Len(Names0) = Cardinality(ToSet(Names0))
  /\ MaxUpdates \in Nat
  /\ MaxRounds \in Nat

EnvOK(env) ==
  /\ {"maxEntries", "recentEntries", "minFair", "stickyMinHold", "quotaMin",
      "adaptiveRounds", "ratio", "hotPercent", "stickyPercent", "quotaPercent",
      "threshold", "stress", "pressure"} \subseteq DOMAIN env
  /\ \A f \in DOMAIN env \ {"weights", "coordinated"} : env[f] \in Nat
  /\ env.maxEntries > 0
  /\ env.coordinated \in BOOLEAN
  /\ env.weights \in [1 .. 3 -> Nat] /\ env.weights # <<0, 0, 0>>

ASSUME ConfigsAssumption ==
  \A c \in Configs : /\ c.self \in AllNames \union {0}
                     /\ c.strategy \in Strategies
                     /\ EnvOK(c.env)

VARIABLES
  config,      \* m_id, m_stateVectorStrategy and the other configuration members
  seqNo,       \* m_vv: the sequence number of each known name
  recency,     \* m_vv: the known names, from the latest to the earliest update
  cursor,      \* m_stateVectorCursor
  sticky,      \* m_lastSelectedNodes
  missed,      \* m_scoreUnselectedRounds
  burst,       \* m_adaptiveScoreBurstRemaining
  slice        \* names of the last vector built

vars == <<config, seqNo, recency, cursor, sticky, missed, burst, slice>>

KnownNames == DOMAIN seqNo
Self == config.self
strategy == config.strategy
Env == config.env

TypeOK ==
  /\ config \in Configs
  /\ KnownNames \subseteq AllNames
  /\ \A n \in KnownNames : seqNo[n] \in Nat \ {0}
  /\ Len(recency) = Cardinality(KnownNames) /\ ToSet(recency) = KnownNames
  /\ cursor \in Nat /\ (cursor = 0 \/ cursor < Cardinality(KnownNames))
  /\ ToSet(sticky) \subseteq KnownNames
  /\ DOMAIN missed \subseteq KnownNames
  /\ \A n \in DOMAIN missed : missed[n] \in 0 .. MaxRounds
  /\ burst \in 0 .. Env.adaptiveRounds
  /\ slice \subseteq KnownNames

Init ==
  /\ config \in Configs
  /\ seqNo = [n \in ToSet(Names0) |-> 1]
  /\ recency = Names0
  /\ cursor = 0
  /\ sticky = <<>>
  /\ missed = <<>>
  /\ burst = 0
  /\ slice = {}

-----------------------------------------------------------------------------
Updates == MapThenSumSet(LAMBDA m : seqNo[m], KnownNames)

\* m_vv.set, by a publication or by a merge: the name becomes the most recent.
Set(n) ==
  /\ Updates < MaxUpdates
  /\ seqNo' = [m \in KnownNames \union {n} |->
                IF m # n THEN seqNo[m]
                ELSE IF n \in KnownNames THEN seqNo[n] + 1 ELSE 1]
  /\ recency' = <<n>> \o Only(recency, KnownNames \ {n})
  /\ UNCHANGED <<config, cursor, sticky, missed, burst, slice>>

-----------------------------------------------------------------------------
(* getStateVectorLimit. *)

Ceiling(num, den) == (num + den - 1) \div den

\* ceil(2 * sqrt(total))
TwiceRoot(total) == CHOOSE r \in 0 .. 2 * total :
                      r * r >= 4 * total /\ (r - 1) * (r - 1) < 4 * total

Scaled(total) ==
  Larger(1, IF Env.ratio > 0 THEN Ceiling(total * Env.ratio, 100)
                             ELSE Larger(Env.recentEntries, TwiceRoot(total)))

\* The floor and the boost (0.22 * pressure, per mille) of coordinated mode.
Boosted(total) ==
  LET floor == Smaller(total, Larger(Env.recentEntries + Env.minFair,
                                     Smaller(Env.maxEntries, 8)))
  IN  Ceiling(Larger(Scaled(total), floor) * (1000 + Env.pressure), 1000)

StateVectorLimit(total) ==
  IF total = 0 \/ strategy = "Full" THEN total
  ELSE Smaller(Smaller(total, Env.maxEntries),
               IF Env.coordinated THEN Boosted(total) ELSE Scaled(total))

-----------------------------------------------------------------------------
(* What buildSyncVector derives from the configuration for one vector. *)

\* repairPressure >= m_adaptiveScoreThreshold; Env.stress is its part that does not
\* depend on the vector.
RepairNeeded(limit, total) ==
  Smaller(1000 * total, 550 * (total - limit) + Env.stress * total)
    >= Smaller(1000, Env.threshold) * total

EffectiveStrategy(limit, total) ==
  IF strategy # "AdaptiveRecentScore" THEN strategy
  ELSE IF burst > 0 \/ RepairNeeded(limit, total) THEN "Score" ELSE "Recent"

BurstAfter(limit, total) ==
  IF strategy # "AdaptiveRecentScore" THEN burst
  ELSE IF burst > 0 THEN burst - 1
  ELSE IF RepairNeeded(limit, total) THEN Larger(0, Env.adaptiveRounds - 1)
  ELSE 0

FairStrategies ==
  {"Hybrid", "ClusterHybrid", "Score", "ClusterScore", "AgeScore", "DeficitScore"}

\* hotness < 0.35 holds while NDN_SVS_HOT_NODE_RATIO is below 0.66: there is no
\* hot spot score, and the activity score adds 0.25 at most.
EffectiveFair(limit, total) ==
  IF Env.coordinated /\ EffectiveStrategy(limit, total) \in FairStrategies
    THEN Smaller(Env.minFair + 1, Larger(1, limit \div 3))
    ELSE Env.minFair

\* The budget of a quota: its ratio of the limit, at least `least', and one
\* entry less than the limit at most.
Quota(limit, least, percent) ==
  Smaller(limit - 1, Larger(least, Ceiling(limit * Smaller(100, percent), 100)))

StickyBudget(limit) ==
  IF strategy = "StickyRecent" /\ sticky # <<>> /\ limit > 1
    THEN Quota(limit, Env.stickyMinHold, Env.stickyPercent) ELSE 0

NoveltyBudget(limit) ==
  IF strategy \in {"RecentNoveltyQuota", "RecentRandomQuota"} /\ limit > 1
    THEN Quota(limit, Env.quotaMin, Env.quotaPercent) ELSE 0

\* The sets of names std::shuffle may put first, where a strategy asks for it.
Shuffles ==
  IF strategy \in {"Random", "RecentRandomQuota"} THEN SUBSET KnownNames ELSE {{}}

\* The calls of selectSubset that may be made now.
SelectCalls(limit) ==
  LET total == Len(recency)
  IN  { [ strategy      |-> EffectiveStrategy(limit, total),
          max           |-> limit,
          rotation      |-> Rotation(KnownNames, cursor),
          preferred     |-> Self,
          recency       |-> recency,
          seqNo         |-> seqNo,
          recentEntries |-> Env.recentEntries,
          hotPercent    |-> Env.hotPercent,
          minFair       |-> EffectiveFair(limit, total),
          weights       |-> Env.weights,
          sticky        |-> sticky,
          stickyBudget  |-> StickyBudget(limit),
          base          |-> ToSet(sticky),
          noveltyBudget |-> NoveltyBudget(limit),
          missed        |-> [n \in KnownNames |->
                              IF n \in DOMAIN missed THEN missed[n] ELSE 0],
          clusterOf     |-> ClusterOf,
          lucky         |-> lucky ] : lucky \in Shuffles }

-----------------------------------------------------------------------------
\* The whole vector fits: the cursor and the last selection stay.
BuildFull ==
  LET total == Len(recency)
  IN  /\ StateVectorLimit(total) >= total
      /\ missed' = [n \in KnownNames |-> 0]
      /\ slice' = KnownNames
      /\ UNCHANGED <<config, seqNo, recency, cursor, sticky, burst>>

\* Faulty variants: the cursor does not wrap, or skips one entry.
CursorUnwrapped(limit, total) == cursor + limit

CursorSkips(limit, total) == (cursor + limit + 1) % total

CursorAfter(limit, total) ==
  IF EffectiveStrategy(limit, total) = "Random"
    THEN cursor ELSE (cursor + limit) % total

BuildPartial ==
  LET total == Len(recency)
      limit == StateVectorLimit(total)
  IN  /\ limit < total
      /\ \E selected \in {SelectSubset(a) : a \in SelectCalls(limit)} :
           /\ slice' = selected
           /\ sticky' = Only(recency, selected)
           /\ missed' = [n \in KnownNames |->
                          IF n \in selected THEN 0
                          ELSE IF n \in DOMAIN missed
                                 THEN Smaller(MaxRounds, missed[n] + 1)
                                 ELSE Smaller(MaxRounds, 1)]
      /\ cursor' = CursorAfter(limit, total)
      /\ burst' = BurstAfter(limit, total)
      /\ UNCHANGED <<config, seqNo, recency>>

Build == BuildFull \/ BuildPartial

Next == Build \/ \E n \in AllNames : Set(n)

Spec == Init /\ [][Next]_vars

\* Sync Interests go out again and again: the period is at most 30 s, and the
\* timer is re-armed each time it fires.
FairSpec == Spec /\ WF_vars(Build)
=============================================================================
