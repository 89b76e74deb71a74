------------------------- MODULE MCSyncVectorBuilder -----------------------
(* Instances of SyncVectorBuilder for TLC. *)
EXTENDS SyncVectorBuilderProps

\* The defaults of the constructor (core.cpp:198-243), the weights and the pressure
\* as coordinated mode makes them.
Defaults ==
  [ maxEntries    |-> 32, recentEntries  |-> 8,  minFair        |-> 2,
    stickyMinHold |-> 4,  quotaMin       |-> 4,  adaptiveRounds |-> 2,
    ratio         |-> 0,  hotPercent     |-> 75, stickyPercent  |-> 50,
    quotaPercent  |-> 20, threshold      |-> 500, stress        |-> 200,
    pressure      |-> 26, coordinated    |-> TRUE,
    weights       |-> <<350, 474, 300>> ]

\* Four of five entries fit: enough for every strategy to mix its orders.
FourFit ==
  [ Defaults EXCEPT !.maxEntries = 4, !.recentEntries = 3, !.minFair = 1,
                    !.stickyMinHold = 2, !.quotaMin = 1, !.threshold = 300 ]

\* Three of five entries fit: a quota of two leaves room for one more.
ThreeFit ==
  [ Defaults EXCEPT !.maxEntries = 3, !.recentEntries = 2, !.minFair = 1,
                    !.stickyMinHold = 2, !.quotaMin = 2 ]

\* Two entries fit, taken from the rotation only.
TwoFit == [ Defaults EXCEPT !.maxEntries = 2, !.recentEntries = 1 ]

FewStarted == <<3, 5, 2>>
ManyStarted == [i \in 1 .. 22 |-> 23 - i]

TwoClusters == [n \in 1 .. 22 |-> n % 2]

\* Every strategy, the two with a guaranteed share where it is tight, and a
\* rotation that has no own entry to carry.
FewConfigs ==
  [self : {2}, strategy : Strategies, env : {FourFit}]
    \union [self : {2}, strategy : {"StickyRecent", "RecentNoveltyQuota"}, env : {ThreeFit}]
    \union [self : {0}, strategy : {"RoundRobin"}, env : {TwoFit}]

HybridDefault == [self : {0}, strategy : {"Hybrid"}, env : {Defaults}]
=============================================================================
