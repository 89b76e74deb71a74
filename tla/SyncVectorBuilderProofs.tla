----------------------- MODULE SyncVectorBuilderProofs ----------------------
(***************************************************************************)
(* Proofs about SyncVectorBuilder, for any names, any configurations and   *)
(* any number of updates: type correctness, what every slice holds, what   *)
(* the strategies promise and how long the rotation leaves a name out.     *)
(***************************************************************************)
EXTENDS SyncVectorBuilderProps, SubsetSelectionProofs

-----------------------------------------------------------------------------
(* Configurations and limits. *)

\* What the constructor leaves in the members that are fixed from then on.
LEMMA ConfigFacts ==
  ASSUME config \in Configs
  PROVE  /\ Self \in AllNames \union {0} /\ strategy \in Strategies
         /\ Env.maxEntries \in Nat /\ Env.maxEntries > 0
         /\ Env.recentEntries \in Nat /\ Env.minFair \in Nat /\ Env.stickyMinHold \in Nat
         /\ Env.quotaMin \in Nat /\ Env.adaptiveRounds \in Nat /\ Env.ratio \in Nat
         /\ Env.hotPercent \in Nat /\ Env.stickyPercent \in Nat
         /\ Env.quotaPercent \in Nat /\ Env.threshold \in Nat /\ Env.stress \in Nat
         /\ Env.pressure \in Nat /\ Env.coordinated \in BOOLEAN
         /\ Env.weights \in [1 .. 3 -> Nat]
<1>1. Self \in AllNames \union {0} /\ strategy \in Strategies /\ EnvOK(Env)
  BY ConfigsAssumption DEF Self, strategy, Env
<1>2. \A f \in {"maxEntries", "recentEntries", "minFair", "stickyMinHold", "quotaMin",
                "adaptiveRounds", "ratio", "hotPercent", "stickyPercent", "quotaPercent",
                "threshold", "stress", "pressure"} : Env[f] \in Nat
  BY <1>1 DEF EnvOK
<1> QED
  BY <1>1, <1>2 DEF EnvOK

\* Names are positive, so that 0 stands for no name.
LEMMA NameFacts == AllNames \subseteq Nat \ {0}
<1>1. ToSet(Names0) \subseteq Nat \ {0}
  BY NamesAssumption, SeqFacts
<1> QED
  BY <1>1, NamesAssumption DEF AllNames

LEMMA CeilingFacts ==
  ASSUME NEW num \in Nat, NEW den \in {100, 1000}
  PROVE  Ceiling(num, den) \in Nat
<1>1. Ceiling(num, 100) \in Nat
  BY DEF Ceiling
<1>2. Ceiling(num, 1000) \in Nat
  BY DEF Ceiling
<1> QED
  BY <1>1, <1>2

\* Rounding up keeps the order.
LEMMA CeilingMonotone ==
  ASSUME NEW low \in Nat, NEW high \in Nat, low <= high, NEW den \in {100, 1000}
  PROVE  Ceiling(low, den) <= Ceiling(high, den)
<1>1. Ceiling(low, 100) <= Ceiling(high, 100)
  BY DEF Ceiling
<1>2. Ceiling(low, 1000) <= Ceiling(high, 1000)
  BY DEF Ceiling
<1> QED
  BY <1>1, <1>2

LEMMA ProductMonotone ==
  ASSUME NEW i \in Nat, NEW j \in Nat, NEW k \in Nat, i <= j
  PROVE  i * k \in Nat /\ j * k \in Nat /\ i * k <= j * k
OBVIOUS

\* There is a smallest root above, so the CHOOSE of TwiceRoot names one.
LEMMA TwiceRootFacts ==
  ASSUME NEW total \in Nat, total > 0
  PROVE  /\ TwiceRoot(total) \in Nat
         /\ TwiceRoot(total) * TwiceRoot(total) >= 4 * total
         /\ (TwiceRoot(total) - 1) * (TwiceRoot(total) - 1) < 4 * total
<1> DEFINE Roots == {r \in Nat : r * r >= 4 * total}
<1>1. 2 * total \in Roots
  <2>1. total * total >= total
    BY ProductMonotone
  <2>2. (2 * total) * (2 * total) = 4 * (total * total)
    OBVIOUS
  <2> QED
    BY <2>1, <2>2
<1>2. PICK r \in Roots : \A k \in Roots : r <= k
  BY <1>1, Smallest
<1>3. r \in 0 .. 2 * total /\ r * r >= 4 * total
  BY <1>1, <1>2
<1>4. r # 0
  BY <1>3
<1>5. (r - 1) * (r - 1) < 4 * total
  <2>1. r - 1 \in Nat /\ ~ (r <= r - 1)
    BY <1>3, <1>4
  <2>2. r - 1 \notin Roots
    BY <1>2, <2>1
  <2>3. (r - 1) * (r - 1) \in Nat /\ 4 * total \in Nat
    BY <2>1
  <2> QED
    BY <2>1, <2>2, <2>3
<1>6. \E q \in 0 .. 2 * total : q * q >= 4 * total /\ (q - 1) * (q - 1) < 4 * total
  BY <1>3, <1>5
<1>7. /\ TwiceRoot(total) \in 0 .. 2 * total
      /\ TwiceRoot(total) * TwiceRoot(total) >= 4 * total
      /\ (TwiceRoot(total) - 1) * (TwiceRoot(total) - 1) < 4 * total
  BY <1>6, Zenon DEF TwiceRoot
<1> QED
  BY <1>7

\* A longer vector has no smaller root.
LEMMA TwiceRootMonotone ==
  ASSUME NEW low \in Nat, NEW high \in Nat, low > 0, low <= high
  PROVE  TwiceRoot(low) <= TwiceRoot(high)
<1> DEFINE p == TwiceRoot(low)
           q == TwiceRoot(high)
<1>1. p \in Nat /\ (p - 1) * (p - 1) < 4 * low
  BY TwiceRootFacts
<1>2. q \in Nat /\ q * q >= 4 * high
  BY TwiceRootFacts
<1> HIDE DEF p, q
<1> SUFFICES ASSUME q < p
             PROVE  FALSE
  BY <1>1, <1>2 DEF p, q
<1>3. p - 1 \in Nat /\ q <= p - 1
  BY <1>1, <1>2
<1>4. q * q <= q * (p - 1) /\ q * (p - 1) <= (p - 1) * (p - 1)
  BY <1>2, <1>3, ProductMonotone
<1>5. q * q \in Nat /\ (p - 1) * (p - 1) \in Nat /\ q * (p - 1) \in Nat
  BY <1>2, <1>3
<1> QED
  BY <1>1, <1>2, <1>4, <1>5

LEMMA ScaledFacts ==
  ASSUME config \in Configs, NEW total \in Nat, total > 0
  PROVE  Scaled(total) \in Nat /\ Scaled(total) >= 1
<1>1. Env.ratio \in Nat /\ Env.recentEntries \in Nat /\ TwiceRoot(total) \in Nat
  BY ConfigFacts, TwiceRootFacts
<1>2. total * Env.ratio \in Nat
  BY <1>1
<1>3. Ceiling(total * Env.ratio, 100) \in Nat
  BY <1>2, CeilingFacts
<1> QED
  BY <1>1, <1>3 DEF Scaled, Larger

\* The limit before the boost grows with the vector.
LEMMA ScaledMonotone ==
  ASSUME config \in Configs, NEW low \in Nat, NEW high \in Nat, low > 0, low <= high
  PROVE  Scaled(low) <= Scaled(high)
<1>1. /\ Env.ratio \in Nat /\ Env.recentEntries \in Nat
      /\ TwiceRoot(low) \in Nat /\ TwiceRoot(high) \in Nat
      /\ TwiceRoot(low) <= TwiceRoot(high)
  <2>1. TwiceRoot(low) \in Nat /\ TwiceRoot(high) \in Nat
    BY TwiceRootFacts
  <2>2. TwiceRoot(low) <= TwiceRoot(high)
    BY TwiceRootMonotone
  <2> QED
    BY ConfigFacts, <2>1, <2>2
<1>2. /\ low * Env.ratio \in Nat /\ high * Env.ratio \in Nat
      /\ low * Env.ratio <= high * Env.ratio
  BY <1>1, ProductMonotone
<1>3. /\ Ceiling(low * Env.ratio, 100) \in Nat /\ Ceiling(high * Env.ratio, 100) \in Nat
      /\ Ceiling(low * Env.ratio, 100) <= Ceiling(high * Env.ratio, 100)
  BY <1>2, CeilingFacts, CeilingMonotone
<1> DEFINE lower == Ceiling(low * Env.ratio, 100)
           upper == Ceiling(high * Env.ratio, 100)
<1>4. /\ Scaled(low) = Larger(1, IF Env.ratio > 0 THEN lower
                                 ELSE Larger(Env.recentEntries, TwiceRoot(low)))
      /\ Scaled(high) = Larger(1, IF Env.ratio > 0 THEN upper
                                  ELSE Larger(Env.recentEntries, TwiceRoot(high)))
  BY DEF Scaled
<1>5. lower \in Nat /\ upper \in Nat /\ lower <= upper
  BY <1>3
<1> HIDE DEF lower, upper
<1> QED
  BY <1>1, <1>4, <1>5 DEF Larger

\* The boost never takes the limit below one entry.
LEMMA BoostedFacts ==
  ASSUME config \in Configs, NEW total \in Nat, total > 0
  PROVE  Boosted(total) \in Nat /\ Boosted(total) >= 1
<1> DEFINE floor == Smaller(total, Larger(Env.recentEntries + Env.minFair,
                                          Smaller(Env.maxEntries, 8)))
           base == Larger(Scaled(total), floor)
           scale == 1000 + Env.pressure
<1>1. /\ Env.recentEntries \in Nat /\ Env.minFair \in Nat /\ Env.maxEntries \in Nat
      /\ Env.pressure \in Nat /\ Scaled(total) \in Nat /\ Scaled(total) >= 1
  BY ConfigFacts, ScaledFacts
<1>2. floor \in Nat
  BY <1>1 DEF Smaller, Larger
<1> HIDE DEF floor
<1>3. base \in Nat /\ base >= 1 /\ scale \in Nat /\ scale >= 1000
  BY <1>1, <1>2 DEF Larger
<1> HIDE DEF base, scale
<1>4. base * scale \in Nat /\ base * scale >= 1000
  <2>1. 1 * scale <= base * scale
    BY <1>3, ProductMonotone
  <2> QED
    BY <1>3, <2>1
<1>5. Ceiling(base * scale, 1000) \in Nat /\ Ceiling(base * scale, 1000) >= 1
  <2> DEFINE k == base * scale
  <2>1. k \in Nat /\ k >= 1000
    BY <1>4
  <2> HIDE DEF k
  <2>2. Ceiling(k, 1000) \in Nat /\ Ceiling(k, 1000) >= 1
    BY <2>1 DEF Ceiling
  <2> QED
    BY <2>2 DEF k
<1>6. Boosted(total) = Ceiling(base * scale, 1000)
  BY DEF Boosted, base, scale, floor
<1> QED
  BY <1>5, <1>6

\* So does the limit with the floor and the boost of coordinated mode.
LEMMA BoostedMonotone ==
  ASSUME config \in Configs, NEW low \in Nat, NEW high \in Nat, low > 0, low <= high
  PROVE  Boosted(low) <= Boosted(high)
<1> DEFINE least == Larger(Env.recentEntries + Env.minFair, Smaller(Env.maxEntries, 8))
           base(total) == Larger(Scaled(total), Smaller(total, least))
           scale == 1000 + Env.pressure
<1>1. /\ Env.recentEntries \in Nat /\ Env.minFair \in Nat /\ Env.maxEntries \in Nat
      /\ Env.pressure \in Nat /\ Scaled(low) \in Nat /\ Scaled(high) \in Nat
      /\ Scaled(low) <= Scaled(high)
  BY ConfigFacts, ScaledFacts, ScaledMonotone
<1>2. least \in Nat /\ scale \in Nat
  BY <1>1 DEF Smaller, Larger
<1>3. Boosted(low) = Ceiling(base(low) * scale, 1000)
      /\ Boosted(high) = Ceiling(base(high) * scale, 1000)
  BY DEF Boosted
<1> HIDE DEF least, scale
<1>4. base(low) \in Nat /\ base(high) \in Nat /\ base(low) <= base(high)
  BY <1>1, <1>2 DEF Smaller, Larger
<1> HIDE DEF base
<1>5. /\ base(low) * scale \in Nat /\ base(high) * scale \in Nat
      /\ base(low) * scale <= base(high) * scale
  BY <1>2, <1>4, ProductMonotone
<1> QED
  BY <1>3, <1>5, CeilingMonotone

\* The limit lies between one entry and all of them.
LEMMA LimitFacts ==
  ASSUME config \in Configs, NEW total \in Nat, total > 0
  PROVE  StateVectorLimit(total) \in 1 .. total
<1>1. /\ Env.maxEntries \in Nat /\ Env.maxEntries > 0
      /\ Scaled(total) \in Nat /\ Scaled(total) >= 1
      /\ Boosted(total) \in Nat /\ Boosted(total) >= 1
  BY ConfigFacts, ScaledFacts, BoostedFacts
<1> QED
  BY <1>1 DEF StateVectorLimit, Smaller

\* A longer vector is never cut to fewer entries, in any configuration: what
\* getStateVectorLimit returns grows with the vector.
THEOREM LimitMonotone ==
  ASSUME config \in Configs, NEW low \in Nat, NEW high \in Nat, low > 0, low <= high
  PROVE  StateVectorLimit(low) <= StateVectorLimit(high)
<1>1. /\ Env.maxEntries \in Nat /\ Scaled(low) \in Nat /\ Scaled(high) \in Nat
      /\ Boosted(low) \in Nat /\ Boosted(high) \in Nat
      /\ Scaled(low) <= Scaled(high) /\ Boosted(low) <= Boosted(high)
  BY ConfigFacts, ScaledFacts, BoostedFacts, ScaledMonotone, BoostedMonotone
<1> QED
  BY <1>1 DEF StateVectorLimit, Smaller

-----------------------------------------------------------------------------
(* The inductive invariant: the vector and its order hold the same names, each once, *)
(* and what is kept between slices speaks of known names only.                       *)

VectorInv ==
  /\ config \in Configs
  /\ KnownNames \subseteq AllNames /\ IsFiniteSet(KnownNames)
  /\ ToSet(Names0) \subseteq KnownNames
  /\ seqNo \in [KnownNames -> Nat \ {0}]
  /\ recency \in Seq(KnownNames) /\ IsInjective(recency) /\ ToSet(recency) = KnownNames

KeptInv ==
  /\ cursor \in Nat /\ (cursor = 0 \/ cursor < Len(recency))
  /\ sticky \in Seq(KnownNames) /\ IsInjective(sticky)
  /\ DOMAIN missed \subseteq KnownNames
  /\ \A n \in DOMAIN missed : missed[n] \in 0 .. MaxRounds
  /\ burst \in 0 .. Env.adaptiveRounds
  /\ slice \subseteq KnownNames

Inv == VectorInv /\ KeptInv

LEMMA SeqOfElements ==
  ASSUME NEW s, NEW T, s \in Seq(T)
  PROVE  s \in Seq(ToSet(s))
<1>1. Len(s) \in Nat /\ DOMAIN s = 1 .. Len(s) /\ s \in [1 .. Len(s) -> T]
  BY SeqFacts, LenProperties
<1>2. \A i \in 1 .. Len(s) : s[i] \in ToSet(s)
  BY <1>1 DEF ToSet
<1>3. s \in [1 .. Len(s) -> ToSet(s)]
  BY <1>1, <1>2
<1> QED
  BY <1>1, <1>3, IsASeq

LEMMA SeqWiden ==
  ASSUME NEW S, NEW T, S \subseteq T, NEW s \in Seq(S)
  PROVE  s \in Seq(T)
<1>1. Len(s) \in Nat /\ s \in [1 .. Len(s) -> S]
  BY LenProperties
<1>2. s \in [1 .. Len(s) -> T]
  BY <1>1
<1> QED
  BY <1>1, <1>2, IsASeq

\* The vector has as many entries as its order.
LEMMA OrderLength ==
  ASSUME VectorInv
  PROVE  /\ Len(recency) \in Nat /\ Len(recency) = Cardinality(KnownNames)
         /\ DOMAIN recency = 1 .. Len(recency)
<1>1. recency \in Seq(KnownNames) /\ IsInjective(recency) /\ ToSet(recency) = KnownNames
  BY DEF VectorInv
<1>2. Len(recency) \in Nat /\ DOMAIN recency = 1 .. Len(recency)
  BY <1>1, SeqFacts
<1>3. Len(recency) = Cardinality(ToSet(recency))
  BY <1>1, DistinctFacts
<1> QED
  BY <1>1, <1>2, <1>3

LEMMA InvImpliesTypeOK == Inv => TypeOK
<1> SUFFICES ASSUME Inv PROVE TypeOK
  OBVIOUS
<1>1. Len(recency) = Cardinality(KnownNames)
  BY OrderLength DEF Inv
<1>2. \A n \in KnownNames : seqNo[n] \in Nat \ {0}
  BY DEF Inv, VectorInv
<1>3. ToSet(sticky) \subseteq KnownNames
  <2>1. sticky \in Seq(KnownNames)
    BY DEF Inv, KeptInv
  <2> QED
    BY <2>1, SeqFacts
<1> QED
  BY <1>1, <1>2, <1>3 DEF Inv, VectorInv, KeptInv, TypeOK

\* A node starts with each name listed once.
LEMMA InitInv == Init => Inv
<1> SUFFICES ASSUME Init PROVE Inv
  OBVIOUS
<1>1. /\ Names0 \in Seq(ToSet(Names0)) /\ IsInjective(Names0)
      /\ IsFiniteSet(ToSet(Names0))
  BY NamesAssumption, SeqOfElements, DistinctFacts, SeqFacts
<1>2. /\ config \in Configs /\ seqNo = [n \in ToSet(Names0) |-> 1] /\ recency = Names0
      /\ cursor = 0 /\ sticky = <<>> /\ missed = <<>> /\ burst = 0 /\ slice = {}
  BY DEF Init
<1>3. KnownNames = ToSet(Names0)
  BY <1>2 DEF KnownNames
<1>4. VectorInv
  <2>1. seqNo \in [KnownNames -> Nat \ {0}]
    BY <1>2, <1>3
  <2> QED
    BY <1>1, <1>2, <1>3, <2>1 DEF VectorInv, AllNames
<1>5. KeptInv
  <2>1. sticky \in Seq(KnownNames) /\ IsInjective(sticky)
    BY <1>2 DEF IsInjective
  <2>2. DOMAIN missed = {}
    BY <1>2
  <2>3. Env.adaptiveRounds \in Nat
    BY <1>2, ConfigFacts
  <2>4. 0 \in 0 .. Env.adaptiveRounds
    BY <2>3
  <2> QED
    BY <1>2, <2>1, <2>2, <2>4 DEF KeptInv
<1> QED
  BY <1>4, <1>5 DEF Inv

\* s lists the elements of S, each once.
OrderOf(s, S) == s \in Seq(S) /\ IsInjective(s) /\ ToSet(s) = S

\* m_vv.set keeps the order of the other names and puts the name set first.
LEMMA LatestFirst ==
  ASSUME NEW s, NEW S, OrderOf(s, S), NEW n
  PROVE  OrderOf(<<n>> \o Only(s, S \ {n}), S \union {n})
<1> DEFINE rest == Only(s, S \ {n})
           r == <<n>> \o rest
<1>1. /\ rest \in Seq(S \intersect (S \ {n})) /\ IsInjective(rest)
      /\ ToSet(rest) = S \intersect (S \ {n})
  BY OnlyFacts DEF OrderOf
<1>2. S \intersect (S \ {n}) = S \ {n}
  OBVIOUS
<1>3. rest \in Seq(S \ {n}) /\ IsInjective(rest) /\ ToSet(rest) = S \ {n}
  BY <1>1, <1>2
<1> HIDE DEF rest
<1>4. rest \in Seq(S \union {n}) /\ <<n>> \in Seq(S \union {n})
  BY <1>3, SeqWiden
<1>5. /\ r \in Seq(S \union {n}) /\ Len(rest) \in Nat /\ Len(r) = 1 + Len(rest)
      /\ r[1] = n /\ \A i \in 1 .. Len(rest) : r[i + 1] = rest[i]
  BY <1>4
<1> HIDE DEF r
<1>6. DOMAIN r = 1 .. Len(rest) + 1 /\ DOMAIN rest = 1 .. Len(rest)
  BY <1>3, <1>5, SeqFacts
<1>7. \A i \in DOMAIN r : i = 1 \/ (i - 1 \in DOMAIN rest /\ r[i] = rest[i - 1])
  BY <1>5, <1>6
<1>8. \A i \in DOMAIN rest : rest[i] \in S /\ rest[i] # n
  BY <1>3, SeqFacts
<1>9. IsInjective(r)
  <2> SUFFICES ASSUME NEW i \in DOMAIN r, NEW j \in DOMAIN r, r[i] = r[j]
               PROVE  i = j
    BY DEF IsInjective
  <2>1. CASE i = 1 \/ j = 1
    BY <1>5, <1>7, <1>8, <2>1
  <2>2. CASE i # 1 /\ j # 1
    <3>1. /\ i - 1 \in DOMAIN rest /\ j - 1 \in DOMAIN rest
          /\ rest[i - 1] = rest[j - 1]
      BY <1>7, <2>2
    <3>2. i - 1 = j - 1
      BY <1>3, <3>1 DEF IsInjective
    <3> QED
      BY <1>6, <3>2
  <2> QED
    BY <2>1, <2>2
<1>10. ToSet(r) = S \union {n}
  <2>1. ToSet(r) \subseteq S \union {n}
    BY <1>5, SeqFacts
  <2>2. ASSUME NEW x \in S \union {n} PROVE x \in ToSet(r)
    <3>1. CASE x = n
      BY <1>5, <1>6, <3>1 DEF ToSet
    <3>2. CASE x # n
      <4>1. PICK i \in DOMAIN rest : rest[i] = x
        BY <1>3, <2>2, <3>2 DEF ToSet
      <4>2. i + 1 \in DOMAIN r /\ r[i + 1] = x
        BY <1>5, <1>6, <4>1
      <4> QED
        BY <4>2 DEF ToSet
    <3> QED
      BY <3>1, <3>2
  <2> QED
    BY <2>1, <2>2
<1> QED
  BY <1>5, <1>9, <1>10 DEF r, rest, OrderOf

-----------------------------------------------------------------------------
(* The calls buildSyncVector makes are calls selectSubset is proved about. *)

\* A quota holds its minimum as far as the limit goes, and leaves room for one more.
LEMMA QuotaFacts ==
  ASSUME NEW limit \in Nat, limit > 1, NEW least \in Nat, NEW percent \in Nat
  PROVE  /\ Quota(limit, least, percent) \in Nat
         /\ Quota(limit, least, percent) >= Smaller(limit - 1, least)
         /\ Quota(limit, least, percent) <= limit - 1
<1> DEFINE share == Ceiling(limit * Smaller(100, percent), 100)
<1>1. Smaller(100, percent) \in Nat
  BY DEF Smaller
<1>2. share \in Nat
  <2>1. limit * Smaller(100, percent) \in Nat
    BY <1>1
  <2> QED
    BY <2>1, CeilingFacts
<1>3. Quota(limit, least, percent) = Smaller(limit - 1, Larger(least, share))
  BY DEF Quota
<1> HIDE DEF share
<1> QED
  BY <1>2, <1>3 DEF Smaller, Larger

LEMMA BudgetFacts ==
  ASSUME config \in Configs, NEW limit \in Nat, NEW total \in Nat
  PROVE  /\ StickyBudget(limit) \in Nat /\ NoveltyBudget(limit) \in Nat
         /\ EffectiveFair(limit, total) \in Nat
<1>1. /\ Env.stickyMinHold \in Nat /\ Env.stickyPercent \in Nat /\ Env.quotaMin \in Nat
      /\ Env.quotaPercent \in Nat /\ Env.minFair \in Nat
  BY ConfigFacts
<1>2. StickyBudget(limit) \in Nat
  BY <1>1, QuotaFacts DEF StickyBudget
<1>3. NoveltyBudget(limit) \in Nat
  BY <1>1, QuotaFacts DEF NoveltyBudget
<1>4. limit \div 3 \in Nat
  OBVIOUS
<1>5. EffectiveFair(limit, total) \in Nat
  BY <1>1, <1>4 DEF EffectiveFair, Smaller, Larger
<1> QED
  BY <1>2, <1>3, <1>5

\* The strategies a call may name: the adaptive one stands for one of two others.
LEMMA EffectiveFacts ==
  ASSUME config \in Configs, NEW limit, NEW total
  PROVE  EffectiveStrategy(limit, total) \in Strategies \ {"AdaptiveRecentScore"}
<1>1. strategy \in Strategies
  BY ConfigFacts
<1> QED
  BY <1>1 DEF EffectiveStrategy, Strategies

LEMMA NotFull ==
  ASSUME NEW total, StateVectorLimit(total) < total, total \in Nat
  PROVE  total > 0 /\ strategy # "Full"
BY DEF StateVectorLimit

\* What is used of a call of selectSubset.
PartialCallNow(a, limit, total) ==
  /\ PartialCall(a) /\ a.lucky \in SUBSET Names(a) /\ Names(a) = KnownNames
  /\ a.max = limit /\ a.strategy = EffectiveStrategy(limit, total)
  /\ Preferred(a) = {Self} \intersect KnownNames
  /\ a.recency = recency /\ a.recentEntries = Env.recentEntries
  /\ a.rotation = Rotation(KnownNames, cursor)
  /\ a.sticky = sticky /\ a.stickyBudget = StickyBudget(limit)
  /\ a.base = ToSet(sticky) /\ a.noveltyBudget = NoveltyBudget(limit)
  /\ SelectSubset(a) = PartialSubset(a)

\* The arguments that buildSyncVector derives are as selectSubset needs them.
LEMMA CallFacts ==
  ASSUME Inv, NEW total, NEW limit, total = Len(recency),
         limit = StateVectorLimit(total), limit < total, NEW a \in SelectCalls(limit)
  PROVE  PartialCallNow(a, limit, total)
<1>1. /\ config \in Configs /\ seqNo \in [KnownNames -> Nat \ {0}]
      /\ recency \in Seq(KnownNames) /\ IsInjective(recency) /\ ToSet(recency) = KnownNames
      /\ KnownNames \subseteq AllNames /\ IsFiniteSet(KnownNames)
  BY DEF Inv, VectorInv
<1>2. /\ cursor \in Nat /\ sticky \in Seq(KnownNames) /\ IsInjective(sticky)
      /\ DOMAIN missed \subseteq KnownNames
      /\ \A n \in DOMAIN missed : missed[n] \in Nat
  BY DEF Inv, KeptInv
<1>3. total \in Nat /\ total = Cardinality(KnownNames)
  BY <1>1, OrderLength DEF Inv
<1>4. total > 0 /\ limit \in 1 .. total /\ limit < total /\ strategy # "Full"
  BY <1>1, <1>3, NotFull, LimitFacts
<1>5. KnownNames \subseteq Nat /\ KnownNames \subseteq Int /\ KnownNames # {}
  <2>1. KnownNames # {}
    BY <1>3, <1>4, FS_EmptySet
  <2> QED
    BY <1>1, <2>1, NameFacts
<1>6. PICK lucky \in Shuffles :
        a = [ strategy      |-> EffectiveStrategy(limit, total),
              max           |-> limit,
              rotation      |-> Rotation(KnownNames, cursor),
              preferred     |-> Self,
              recency       |-> recency,
              seqNo         |-> seqNo,
              recentEntries |-> Env.recentEntries,
              hotPercent    |-> Env.hotPercent,
              minFair       |-> EffectiveFair(limit, total),
              weights       |-> Env.weights,
              sticky        |-> sticky,
              stickyBudget  |-> StickyBudget(limit),
              base          |-> ToSet(sticky),
              noveltyBudget |-> NoveltyBudget(limit),
              missed        |-> [n \in KnownNames |->
                                  IF n \in DOMAIN missed THEN missed[n] ELSE 0],
              clusterOf     |-> ClusterOf,
              lucky         |-> lucky ]
  BY Zenon DEF SelectCalls
<1>7. lucky \in SUBSET KnownNames
  BY DEF Shuffles
<1>8. /\ a.strategy = EffectiveStrategy(limit, total) /\ a.max = limit
      /\ a.rotation = Rotation(KnownNames, cursor) /\ a.preferred = Self
      /\ a.recency = recency /\ a.seqNo = seqNo /\ a.recentEntries = Env.recentEntries
      /\ a.hotPercent = Env.hotPercent /\ a.minFair = EffectiveFair(limit, total)
      /\ a.weights = Env.weights /\ a.sticky = sticky
      /\ a.stickyBudget = StickyBudget(limit) /\ a.base = ToSet(sticky)
      /\ a.noveltyBudget = NoveltyBudget(limit) /\ a.lucky = lucky
      /\ a.missed = [n \in KnownNames |-> IF n \in DOMAIN missed THEN missed[n] ELSE 0]
  BY <1>6
<1>9. Names(a) = KnownNames /\ Total(a) = total
  BY <1>1, <1>8 DEF Names, Total
<1>10. /\ Rotation(KnownNames, cursor) \in Seq(KnownNames)
       /\ IsInjective(Rotation(KnownNames, cursor))
       /\ ToSet(Rotation(KnownNames, cursor)) = KnownNames
  BY <1>1, <1>2, <1>5, RotationFacts
<1>11. /\ a.strategy \in Strategies \ {"AdaptiveRecentScore"} /\ a.strategy # "Full"
  <2>1. strategy \in Strategies
    BY <1>1, ConfigFacts
  <2> QED
    BY <1>1, <1>4, <1>8, <2>1, EffectiveFacts DEF EffectiveStrategy
<1>12. PartialCall(a)
  <2>1. a.recency \in Seq(Nat) /\ IsInjective(a.recency)
    BY <1>1, <1>5, <1>8, SeqWiden
  <2>2. a.max \in Nat \ {0} /\ a.max < Total(a)
    BY <1>4, <1>8, <1>9
  <2>3. a.strategy \in ReserveStrategies \union QuotaStrategies
                         \union {"Recent", "StickyRecent", "Random", "RoundRobin", "Score"}
    BY <1>11 DEF Strategies, ReserveStrategies, QuotaStrategies
  <2>4. a.rotation \in Seq(Names(a)) /\ IsInjective(a.rotation)
        /\ ToSet(a.rotation) = Names(a)
    BY <1>8, <1>9, <1>10
  <2>5. a.sticky \in Seq(Names(a)) /\ IsInjective(a.sticky)
    BY <1>2, <1>8, <1>9
  <2>6. a.seqNo \in [Names(a) -> Nat]
    BY <1>1, <1>8, <1>9
  <2>7. a.missed \in [Names(a) -> Nat]
    BY <1>2, <1>8, <1>9
  <2>8. /\ a.recentEntries \in Nat /\ a.hotPercent \in Nat /\ a.minFair \in Nat
        /\ a.weights \in [1 .. 3 -> Nat]
        /\ a.stickyBudget \in Nat /\ a.noveltyBudget \in Nat
    <3>1. /\ Env.recentEntries \in Nat /\ Env.hotPercent \in Nat
          /\ Env.weights \in [1 .. 3 -> Nat]
      BY <1>1, ConfigFacts
    <3>2. limit \in Nat
      BY <1>4
    <3>3. /\ StickyBudget(limit) \in Nat /\ NoveltyBudget(limit) \in Nat
          /\ EffectiveFair(limit, total) \in Nat
      BY <1>1, <1>3, <3>2, BudgetFacts
    <3> QED
      BY <1>8, <3>1, <3>3
  <2> QED
    BY <2>1, <2>2, <2>3, <2>4, <2>5, <2>6, <2>7, <2>8 DEF PartialCall
<1>13. Preferred(a) = {Self} \intersect KnownNames
  BY <1>8, <1>9 DEF Preferred
<1>14. SelectSubset(a) = PartialSubset(a)
  <2>1. ~ (a.max = 0 \/ Names(a) = {})
    BY <1>4, <1>5, <1>8, <1>9
  <2>2. ~ (a.strategy = "Full" \/ Total(a) <= a.max)
    <3>1. a.strategy # "Full" /\ Total(a) = total /\ a.max = limit
      BY <1>8, <1>9, <1>11
    <3>2. ~ (total <= limit)
      BY <1>3, <1>4
    <3> QED
      BY <3>1, <3>2
  <2> QED
    BY <2>1, <2>2 DEF SelectSubset
<1> QED
  BY <1>7, <1>8, <1>9, <1>12, <1>13, <1>14 DEF PartialCallNow

\* Every slice is a whole vector or a subset that selectSubset chose.
LEMMA PartialStep ==
  ASSUME Inv, BuildPartial
  PROVE  LET total == Len(recency)
             limit == StateVectorLimit(total)
         IN  /\ limit < total /\ total \in Nat /\ limit \in 1 .. total
             /\ \E a \in SelectCalls(limit) :
                  /\ PartialCallNow(a, limit, total)
                  /\ slice' = PartialSubset(a)
                  /\ slice' \subseteq KnownNames /\ Cardinality(slice') = limit
                  /\ {Self} \intersect KnownNames \subseteq slice'
                  /\ sticky' = Only(recency, slice')
                  /\ missed' = [n \in KnownNames |->
                                 IF n \in slice' THEN 0
                                 ELSE IF n \in DOMAIN missed
                                        THEN Smaller(MaxRounds, missed[n] + 1)
                                        ELSE Smaller(MaxRounds, 1)]
<1> DEFINE total == Len(recency)
           limit == StateVectorLimit(total)
<1>1. limit < total /\ total \in Nat /\ limit \in 1 .. total
  <2>1. limit < total
    BY DEF BuildPartial
  <2>2. total \in Nat /\ config \in Configs
    BY OrderLength DEF Inv, VectorInv
  <2>3. total > 0
    BY <2>1, <2>2, NotFull
  <2> QED
    BY <2>1, <2>2, <2>3, LimitFacts
<1>2. PICK a \in SelectCalls(limit) :
        /\ slice' = SelectSubset(a)
        /\ sticky' = Only(recency, SelectSubset(a))
        /\ missed' = [n \in KnownNames |->
                       IF n \in SelectSubset(a) THEN 0
                       ELSE IF n \in DOMAIN missed
                              THEN Smaller(MaxRounds, missed[n] + 1)
                              ELSE Smaller(MaxRounds, 1)]
  BY Zenon DEF BuildPartial
<1>3. PartialCallNow(a, limit, total)
  BY <1>1, CallFacts
<1>4. slice' = PartialSubset(a)
  BY <1>2, <1>3 DEF PartialCallNow
<1>5. /\ Preferred(a) \subseteq slice' /\ slice' \subseteq Names(a)
      /\ Cardinality(slice') = a.max
  BY <1>3, <1>4, PartialSubsetFills DEF PartialCallNow, Selection
<1>6. /\ slice' \subseteq KnownNames /\ Cardinality(slice') = limit
      /\ {Self} \intersect KnownNames \subseteq slice'
  BY <1>3, <1>5 DEF PartialCallNow
<1> HIDE DEF total, limit
<1>7. \E b \in SelectCalls(limit) :
         /\ PartialCallNow(b, limit, total)
         /\ slice' = PartialSubset(b)
         /\ slice' \subseteq KnownNames /\ Cardinality(slice') = limit
         /\ {Self} \intersect KnownNames \subseteq slice'
         /\ sticky' = Only(recency, slice')
         /\ missed' = [n \in KnownNames |->
                        IF n \in slice' THEN 0
                        ELSE IF n \in DOMAIN missed
                               THEN Smaller(MaxRounds, missed[n] + 1)
                               ELSE Smaller(MaxRounds, 1)]
  <2> WITNESS a \in SelectCalls(limit)
  <2> QED
    BY <1>2, <1>3, <1>4, <1>6
<1> QED
  BY <1>1, <1>7 DEF total, limit

\* The cursor of the next slice is a place in the order.
LEMMA CursorFacts ==
  ASSUME Inv, NEW total \in Nat, total > 0, total = Len(recency), NEW limit \in Nat
  PROVE  CursorAfter(limit, total) \in 0 .. total - 1
<1>1. cursor \in Nat /\ (cursor = 0 \/ cursor < total)
  BY DEF Inv, KeptInv
<1>2. (cursor + limit) % total \in 0 .. total - 1
  <2> DEFINE k == cursor + limit
  <2>1. k \in Nat
    BY <1>1
  <2> HIDE DEF k
  <2>2. k % total \in 0 .. total - 1
    BY <2>1
  <2> QED
    BY <2>2 DEF k
<1> QED
  BY <1>1, <1>2 DEF CursorAfter

\* A burst of score selection is never longer than configured.
LEMMA BurstFacts ==
  ASSUME Inv, NEW limit, NEW total
  PROVE  BurstAfter(limit, total) \in 0 .. Env.adaptiveRounds
<1>1. burst \in 0 .. Env.adaptiveRounds /\ Env.adaptiveRounds \in Nat
  BY ConfigFacts DEF Inv, VectorInv, KeptInv
<1> QED
  BY <1>1 DEF BurstAfter, Larger

LEMMA RoundsFacts ==
  ASSUME NEW k \in 0 .. MaxRounds
  PROVE  Smaller(MaxRounds, k + 1) \in 0 .. MaxRounds /\ Smaller(MaxRounds, 1) \in 0 .. MaxRounds
BY NamesAssumption DEF Smaller

\* An update keeps the order complete and without repetition.
LEMMA SetInv ==
  ASSUME Inv, NEW n \in AllNames, Set(n)
  PROVE  Inv'
<1>1. /\ config' = config /\ cursor' = cursor /\ sticky' = sticky /\ missed' = missed
      /\ burst' = burst /\ slice' = slice
      /\ seqNo' = [m \in KnownNames \union {n} |->
                    IF m # n THEN seqNo[m]
                    ELSE IF n \in KnownNames THEN seqNo[n] + 1 ELSE 1]
      /\ recency' = <<n>> \o Only(recency, KnownNames \ {n})
  BY DEF Set
<1>2. KnownNames' = KnownNames \union {n}
  BY <1>1 DEF KnownNames
<1>3. VectorInv'
  <2>1. /\ recency' \in Seq(KnownNames') /\ IsInjective(recency')
        /\ ToSet(recency') = KnownNames'
    <3> DEFINE r == <<n>> \o Only(recency, KnownNames \ {n})
    <3>1. OrderOf(recency, KnownNames)
      BY DEF Inv, VectorInv, OrderOf
    <3>2. OrderOf(r, KnownNames \union {n})
      BY <3>1, LatestFirst, Zenon
    <3>3. recency' = r
      BY <1>1
    <3> HIDE DEF r
    <3> QED
      BY <1>2, <3>2, <3>3 DEF OrderOf
  <2>2. IsFiniteSet(KnownNames')
    BY <1>2, FS_AddElement DEF Inv, VectorInv
  <2>3. seqNo' \in [KnownNames' -> Nat \ {0}]
    <3> DEFINE f == [m \in KnownNames \union {n} |->
                       IF m # n THEN seqNo[m]
                       ELSE IF n \in KnownNames THEN seqNo[n] + 1 ELSE 1]
    <3>1. \A m \in KnownNames : seqNo[m] \in Nat \ {0}
      BY DEF Inv, VectorInv
    <3>2. f \in [KnownNames \union {n} -> Nat \ {0}]
      BY <3>1
    <3> QED
      BY <1>1, <1>2, <3>2
  <2> QED
    <3>1. config' \in Configs /\ KnownNames' \subseteq AllNames
          /\ ToSet(Names0) \subseteq KnownNames'
      BY <1>1, <1>2 DEF Inv, VectorInv
    <3> QED
      BY <2>1, <2>2, <2>3, <3>1 DEF VectorInv
<1>4. KeptInv'
  <2>1. Len(recency) <= Len(recency') /\ Len(recency) \in Nat /\ Len(recency') \in Nat
    <3>1. Len(recency) = Cardinality(KnownNames) /\ Len(recency) \in Nat
      BY OrderLength DEF Inv
    <3>2. Len(recency') \in Nat /\ Len(recency') = Cardinality(KnownNames')
      <4>1. recency' \in Seq(KnownNames') /\ IsInjective(recency')
            /\ ToSet(recency') = KnownNames'
        BY <1>3 DEF VectorInv
      <4>2. Len(recency') \in Nat
        BY <4>1, SeqFacts
      <4>3. Len(recency') = Cardinality(ToSet(recency'))
        BY <4>1, DistinctFacts
      <4> QED
        BY <4>1, <4>2, <4>3
    <3>3. Cardinality(KnownNames) <= Cardinality(KnownNames')
      BY <1>2, <1>3, FS_Subset DEF VectorInv
    <3> QED
      BY <3>1, <3>2, <3>3
  <2>2. cursor \in Nat /\ (cursor = 0 \/ cursor < Len(recency'))
    BY <2>1 DEF Inv, KeptInv
  <2>3. sticky \in Seq(KnownNames')
    BY <1>2, SeqWiden DEF Inv, KeptInv
  <2>4. Env' = Env
    BY <1>1 DEF Env
  <2> QED
    BY <1>1, <1>2, <2>2, <2>3, <2>4 DEF Inv, KeptInv
<1> QED
  BY <1>3, <1>4 DEF Inv

\* Building a vector leaves behind what the next one relies on.
LEMMA BuildInv ==
  ASSUME Inv, Build
  PROVE  Inv'
<1>1. config' = config /\ seqNo' = seqNo /\ recency' = recency
  BY DEF Build, BuildFull, BuildPartial
<1>2. KnownNames' = KnownNames /\ Env' = Env
  BY <1>1 DEF KnownNames, Env
<1>3. VectorInv'
  BY <1>1, <1>2 DEF Inv, VectorInv
<1>4. KeptInv'
  <2>1. CASE BuildFull
    <3>1. /\ missed' = [n \in KnownNames |-> 0] /\ slice' = KnownNames
          /\ cursor' = cursor /\ sticky' = sticky /\ burst' = burst
      BY <2>1 DEF BuildFull
    <3>2. \A n \in DOMAIN missed' : missed'[n] \in 0 .. MaxRounds
      BY <3>1, NamesAssumption
    <3> QED
      BY <1>1, <1>2, <3>1, <3>2 DEF Inv, KeptInv
  <2>2. CASE BuildPartial
    <3> DEFINE total == Len(recency)
               limit == StateVectorLimit(total)
    <3>1. /\ limit < total /\ total \in Nat /\ limit \in 1 .. total
          /\ slice' \subseteq KnownNames /\ sticky' = Only(recency, slice')
          /\ missed' = [n \in KnownNames |->
                         IF n \in slice' THEN 0
                         ELSE IF n \in DOMAIN missed THEN Smaller(MaxRounds, missed[n] + 1)
                                                     ELSE Smaller(MaxRounds, 1)]
      BY <2>2, PartialStep
    <3>2. cursor' = CursorAfter(limit, total) /\ burst' = BurstAfter(limit, total)
      BY <2>2 DEF BuildPartial
    <3> HIDE DEF limit
    <3>3. cursor' \in 0 .. Len(recency) - 1
      BY <3>1, <3>2, CursorFacts
    <3>4. burst' \in 0 .. Env.adaptiveRounds
      BY <3>2, BurstFacts
    <3>5. sticky' \in Seq(KnownNames) /\ IsInjective(sticky')
      <4>1. recency \in Seq(KnownNames) /\ IsInjective(recency)
        BY DEF Inv, VectorInv
      <4>2. /\ Only(recency, slice') \in Seq(KnownNames \intersect slice')
            /\ IsInjective(Only(recency, slice'))
        BY <4>1, OnlyFacts
      <4> QED
        BY <3>1, <4>2, SeqWiden
    <3>6. DOMAIN missed' = KnownNames
          /\ \A n \in DOMAIN missed' : missed'[n] \in 0 .. MaxRounds
      <4>1. \A n \in DOMAIN missed : Smaller(MaxRounds, missed[n] + 1) \in 0 .. MaxRounds
        BY RoundsFacts DEF Inv, KeptInv
      <4>2. 0 \in 0 .. MaxRounds /\ Smaller(MaxRounds, 1) \in 0 .. MaxRounds
        BY NamesAssumption, RoundsFacts
      <4> QED
        BY <3>1, <4>1, <4>2
    <3> QED
      BY <1>1, <1>2, <3>1, <3>3, <3>4, <3>5, <3>6 DEF KeptInv
  <2> QED
    BY <2>1, <2>2 DEF Build
<1> QED
  BY <1>3, <1>4 DEF Inv

LEMMA InvNext == Inv /\ [Next]_vars => Inv'
<1> SUFFICES ASSUME Inv, [Next]_vars PROVE Inv'
  OBVIOUS
<1>1. CASE Build
  BY <1>1, BuildInv
<1>2. CASE \E n \in AllNames : Set(n)
  BY <1>2, SetInv
<1>3. CASE UNCHANGED vars
  BY <1>3 DEF vars, Inv, VectorInv, KeptInv, KnownNames, Env
<1> QED
  BY <1>1, <1>2, <1>3 DEF Next

\* The invariant holds in every state the node can get into, however its vector grows
\* and whatever slices it has built.
THEOREM InvAlways == Spec => []Inv
BY InitInv, InvNext, PTL DEF Spec

\* The vector, the order of its names and everything kept between slices always fit
\* together: the order lists each known name once, the cursor never runs past it, and
\* neither the last selection nor the missed rounds speak of an unknown name.
THEOREM TypeCorrect == Spec => []TypeOK
BY InvAlways, InvImpliesTypeOK, PTL

-----------------------------------------------------------------------------
(* What every slice holds. *)

\* A step that leaves the sequence numbers alone builds a vector.
LEMMA BuildsStep ==
  ASSUME Inv, [Next]_vars, Builds
  PROVE  Build \/ UNCHANGED vars
<1>1. ASSUME NEW n \in AllNames, Set(n)
      PROVE  FALSE
  <2> DEFINE f == [m \in KnownNames \union {n} |->
                     IF m # n THEN seqNo[m]
                     ELSE IF n \in KnownNames THEN seqNo[n] + 1 ELSE 1]
  <2>1. seqNo' = f /\ seqNo' = seqNo
    BY <1>1 DEF Set, Builds
  <2>2. n \in KnownNames
    BY <2>1 DEF KnownNames
  <2>3. seqNo[n] = seqNo[n] + 1
    BY <2>1, <2>2
  <2>4. seqNo[n] \in Nat
    BY <2>2 DEF Inv, VectorInv
  <2> QED
    BY <2>3, <2>4
<1> QED
  BY <1>1 DEF Next

\* A step that builds a partial vector took the second way through the code.
LEMMA PartialBuildStep ==
  ASSUME Inv, [Next]_vars, BuildsPartial
  PROVE  BuildPartial \/ UNCHANGED vars
<1>1. Build \/ UNCHANGED vars
  BY BuildsStep DEF BuildsPartial
<1>2. ASSUME BuildFull
      PROVE  FALSE
  <2> DEFINE total == Len(recency)
             limit == StateVectorLimit(total)
  <2>1. limit >= total /\ limit < total
    BY <1>2 DEF BuildFull, BuildsPartial, LimitNow
  <2>2. total \in Nat /\ config \in Configs
    BY OrderLength DEF Inv, VectorInv
  <2>3. limit \in Nat
    BY <2>1, <2>2, NotFull, LimitFacts
  <2> HIDE DEF limit, total
  <2> QED
    BY <2>1, <2>2, <2>3
<1> QED
  BY <1>1, <1>2 DEF Build

\* The two ways to write the vector down know the same names.
LEMMA KnownFacts ==
  ASSUME VectorInv
  PROVE  StateVector!Known(LocalVector) = KnownNames
<1>1. KnownNames \subseteq AllNames /\ \A n \in KnownNames : seqNo[n] \in Nat \ {0}
  BY DEF VectorInv
<1>2. \A n \in AllNames : LocalVector[n] = IF n \in KnownNames THEN seqNo[n] ELSE 0
  BY DEF LocalVector
<1>3. \A n \in AllNames : LocalVector[n] > 0 <=> n \in KnownNames
  BY <1>1, <1>2
<1> QED
  BY <1>1, <1>3 DEF StateVector!Known

LEMMA LimitNowFacts ==
  ASSUME Inv
  PROVE  /\ LimitNow \in 0 .. Len(recency) /\ Len(recency) \in Nat
         /\ Len(recency) = Cardinality(KnownNames) /\ config \in Configs
<1>1. /\ Len(recency) \in Nat /\ Len(recency) = Cardinality(KnownNames)
      /\ config \in Configs
  BY OrderLength DEF Inv, VectorInv
<1>2. CASE Len(recency) = 0
  BY <1>1, <1>2 DEF LimitNow, StateVectorLimit
<1>3. CASE Len(recency) > 0
  <2>1. LimitNow \in 1 .. Len(recency)
    BY <1>1, <1>3, LimitFacts DEF LimitNow
  <2> QED
    BY <1>1, <2>1
<1> QED
  BY <1>1, <1>2, <1>3

\* The Cardinality that the instance of StateVectors brings along is the same.
LEMMA SameCardinality ==
  ASSUME NEW S
  PROVE  StateVector!Cardinality(S) = Cardinality(S)
BY DEF StateVector!Cardinality, Cardinality

\* A slice that fills the budget and holds the own entry is one SyncCore may send.
LEMMA SliceIsSyncVector ==
  ASSUME Inv, NEW S \in SUBSET KnownNames,
         Cardinality(S) = LimitNow, {Self} \intersect KnownNames \subseteq S
  PROVE  StateVector!Slice(LocalVector, S) \in StateVector!SyncVectors(LocalVector, Self, LimitNow)
<1>1. StateVector!Known(LocalVector) = KnownNames
  BY KnownFacts DEF Inv
<1>2. /\ LimitNow \in 0 .. Cardinality(KnownNames)
      /\ Cardinality(KnownNames) \in Nat
  BY LimitNowFacts
<1>3. StateVector!Smaller(LimitNow, Cardinality(KnownNames)) = LimitNow
  BY <1>2 DEF StateVector!Smaller
<1>4. /\ S \in SUBSET StateVector!Known(LocalVector)
      /\ Cardinality(S) = StateVector!Smaller(LimitNow,
                            Cardinality(StateVector!Known(LocalVector)))
      /\ Self \in StateVector!Known(LocalVector) /\ LimitNow > 0 => Self \in S
  BY <1>1, <1>3
<1> QED
  BY <1>4, SameCardinality DEF StateVector!SyncVectors

\* Whatever the strategy, every vector that is built is the whole one or uses the
\* whole budget, and the own entry is in it: what the merge of the Sync protocol
\* relies on.
THEOREM SlicesKeepContract == Spec => SliceContract
<1>1. ASSUME Inv, [Next]_vars
      PROVE  [Builds => StateVector!Slice(LocalVector, slice')
                          \in StateVector!SyncVectors(LocalVector, Self, LimitNow)]_vars
  <2> SUFFICES ASSUME Builds, ~ UNCHANGED vars
               PROVE  StateVector!Slice(LocalVector, slice')
                        \in StateVector!SyncVectors(LocalVector, Self, LimitNow)
    OBVIOUS
  <2>1. Build
    BY <1>1, BuildsStep
  <2>2. CASE BuildFull
    <3>1. slice' = KnownNames /\ LimitNow >= Len(recency)
      BY <2>2 DEF BuildFull, LimitNow
    <3>2. Cardinality(KnownNames) = LimitNow
      BY <1>1, <3>1, LimitNowFacts
    <3> QED
      BY <1>1, <3>1, <3>2, SliceIsSyncVector
  <2>3. CASE BuildPartial
    <3>1. /\ slice' \subseteq KnownNames /\ Cardinality(slice') = LimitNow
          /\ {Self} \intersect KnownNames \subseteq slice'
      BY <1>1, <2>3, PartialStep DEF LimitNow
    <3> QED
      BY <1>1, <3>1, SliceIsSyncVector
  <2> QED
    BY <2>1, <2>2, <2>3 DEF Build
<1> QED
  BY <1>1, InvAlways, PTL DEF Spec, SliceContract

-----------------------------------------------------------------------------
(* What the strategies promise. *)

\* A step that builds a partial vector, as selectSubset sees it.
LEMMA PartialBuild ==
  ASSUME Inv, [Next]_vars, BuildsPartial, ~ UNCHANGED vars
  PROVE  /\ LimitNow \in 1 .. Len(recency)
         /\ \E a : /\ PartialCallNow(a, LimitNow, Len(recency))
                   /\ slice' = PartialSubset(a)
<1>1. BuildPartial
  BY PartialBuildStep
<1> QED
  BY <1>1, PartialStep DEF LimitNow

\* The latest updates are in every partial vector of the strategies made for them.
THEOREM RecentAreCarried == Spec => CarriesRecent
<1>1. ASSUME Inv, [Next]_vars
      PROVE  [BuildsPartial /\ strategy \in {"Recent", "Hybrid"}
                => \A i \in 1 .. Smaller(Env.recentEntries, LimitNow - 1) :
                     recency[i] \in slice']_vars
  <2> SUFFICES ASSUME BuildsPartial, strategy \in {"Recent", "Hybrid"}, ~ UNCHANGED vars,
                      NEW i \in 1 .. Smaller(Env.recentEntries, LimitNow - 1)
               PROVE  recency[i] \in slice'
    OBVIOUS
  <2>1. PICK a : /\ PartialCallNow(a, LimitNow, Len(recency))
                 /\ slice' = PartialSubset(a)
    BY <1>1, PartialBuild
  <2>2. PartialCall(a)
    BY <2>1 DEF PartialCallNow
  <2>3. a.strategy = strategy /\ a.stickyBudget = 0
    BY <2>1 DEF PartialCallNow, EffectiveStrategy, StickyBudget
  <2>4. i \in 1 .. Smaller(a.recentEntries, a.max - 1) /\ a.recency = recency
    BY <2>1 DEF PartialCallNow
  <2>5. a.recency[i] \in PartialSubset(a)
    BY <2>2, <2>3, <2>4, RecentCarried
  <2> QED
    BY <2>1, <2>4, <2>5
<1> QED
  BY <1>1, InvAlways, PTL DEF Spec, CarriesRecent

\* Sticky selection keeps as much of its last selection as it is set to hold.
THEOREM StickyIsKept == Spec => KeepsSticky
<1>1. ASSUME Inv, [Next]_vars
      PROVE  [strategy = "StickyRecent" /\ BuildsPartial
                => Cardinality(slice' \intersect ToSet(sticky))
                     >= Smaller(Smaller(Env.stickyMinHold, LimitNow - 1), Len(sticky))]_vars
  <2> DEFINE kept == Cardinality(slice' \intersect ToSet(sticky))
             count == Len(sticky)
  <2> SUFFICES ASSUME BuildsPartial, strategy = "StickyRecent", ~ UNCHANGED vars
               PROVE  kept >= Smaller(Smaller(Env.stickyMinHold, LimitNow - 1), count)
    OBVIOUS
  <2>1. PICK a : /\ PartialCallNow(a, LimitNow, Len(recency))
                 /\ slice' = PartialSubset(a)
    BY <1>1, PartialBuild
  <2>2. LimitNow \in Nat /\ LimitNow >= 1
    <3>1. LimitNow \in 1 .. Len(recency)
      BY <1>1, PartialBuild
    <3>2. Len(recency) \in Nat
      BY <1>1, LimitNowFacts
    <3> QED
      BY <3>1, <3>2
  <2>3. /\ PartialCall(a) /\ a.strategy = "StickyRecent" /\ a.max = LimitNow
        /\ a.sticky = sticky /\ a.stickyBudget = StickyBudget(LimitNow)
    BY <2>1 DEF PartialCallNow, EffectiveStrategy
  <2>4. kept >= Smaller(Smaller(StickyBudget(LimitNow), LimitNow - 1), count)
    BY <2>1, <2>3, StickyHeld
  <2>5. /\ Env.stickyMinHold \in Nat /\ Env.stickyPercent \in Nat
        /\ StickyBudget(LimitNow) \in Nat
    BY <1>1, <2>2, LimitNowFacts, ConfigFacts, BudgetFacts
  <2>6. count \in Nat /\ kept \in Nat
    <3>1. sticky \in Seq(KnownNames)
      BY <1>1 DEF Inv, KeptInv
    <3>2. IsFiniteSet(slice' \intersect ToSet(sticky)) /\ Len(sticky) \in Nat
      BY <3>1, SeqFacts, FS_Intersection
    <3> QED
      BY <3>2, FS_CardinalityType
  <2>7. CASE LimitNow > 1 /\ sticky # <<>>
    <3>1. StickyBudget(LimitNow) >= Smaller(LimitNow - 1, Env.stickyMinHold)
      BY <2>2, <2>5, <2>7, QuotaFacts DEF StickyBudget
    <3> HIDE DEF kept, count
    <3> QED
      BY <2>2, <2>4, <2>5, <2>6, <3>1 DEF Smaller
  <2>8. CASE LimitNow <= 1
    <3> HIDE DEF kept, count
    <3> QED
      BY <2>2, <2>5, <2>6, <2>8 DEF Smaller
  <2>9. CASE sticky = <<>>
    <3>1. count = 0
      BY <2>9
    <3> HIDE DEF kept, count
    <3> QED
      BY <2>2, <2>5, <2>6, <3>1 DEF Smaller
  <2> QED
    BY <2>2, <2>7, <2>8, <2>9
<1> QED
  BY <1>1, InvAlways, PTL DEF Spec, KeepsSticky

\* The novelty quota sends names that the last vector left out.
THEOREM NoveltyIsBrought == Spec => BringsNovelty
<1>1. ASSUME Inv, [Next]_vars
      PROVE  [strategy = "RecentNoveltyQuota" /\ BuildsPartial
                => Cardinality(slice' \ ToSet(sticky))
                     >= Smaller(Smaller(Env.quotaMin, LimitNow - 1),
                                Cardinality(KnownNames \ ToSet(sticky)))]_vars
  <2> DEFINE fresh == Cardinality(slice' \ ToSet(sticky))
             count == Cardinality(KnownNames \ ToSet(sticky))
  <2> SUFFICES ASSUME BuildsPartial, strategy = "RecentNoveltyQuota", ~ UNCHANGED vars
               PROVE  fresh >= Smaller(Smaller(Env.quotaMin, LimitNow - 1), count)
    OBVIOUS
  <2>1. PICK a : /\ PartialCallNow(a, LimitNow, Len(recency))
                 /\ slice' = PartialSubset(a)
    BY <1>1, PartialBuild
  <2>2. LimitNow \in Nat /\ LimitNow >= 1
    <3>1. LimitNow \in 1 .. Len(recency)
      BY <1>1, PartialBuild
    <3>2. Len(recency) \in Nat
      BY <1>1, LimitNowFacts
    <3> QED
      BY <3>1, <3>2
  <2>3. /\ PartialCall(a) /\ a.strategy = "RecentNoveltyQuota" /\ a.max = LimitNow
        /\ a.base = ToSet(sticky) /\ a.noveltyBudget = NoveltyBudget(LimitNow)
        /\ Names(a) = KnownNames /\ a.lucky \in SUBSET Names(a)
    BY <2>1 DEF PartialCallNow, EffectiveStrategy
  <2>4. fresh >= Smaller(Smaller(NoveltyBudget(LimitNow), LimitNow - 1), count)
    <3>1. Cardinality(PartialSubset(a) \ a.base)
            >= Smaller(Smaller(a.noveltyBudget, a.max - 1), Cardinality(Names(a) \ a.base))
      BY <2>3, NoveltyBrought
    <3> QED
      BY <2>1, <2>3, <3>1
  <2>5. /\ Env.quotaMin \in Nat /\ Env.quotaPercent \in Nat
        /\ NoveltyBudget(LimitNow) \in Nat
    BY <1>1, <2>2, LimitNowFacts, ConfigFacts, BudgetFacts
  <2>6. count \in Nat /\ fresh \in Nat
    <3>1. IsFiniteSet(KnownNames)
      BY <1>1 DEF Inv, VectorInv
    <3>2. slice' \subseteq KnownNames
      BY <2>1, <2>3, PartialSubsetFills DEF Selection
    <3>3. IsFiniteSet(slice' \ ToSet(sticky)) /\ IsFiniteSet(KnownNames \ ToSet(sticky))
      BY <3>1, <3>2, FS_Subset
    <3> QED
      BY <3>3, FS_CardinalityType
  <2>7. CASE LimitNow > 1
    <3>1. NoveltyBudget(LimitNow) >= Smaller(LimitNow - 1, Env.quotaMin)
      BY <2>2, <2>5, <2>7, QuotaFacts DEF NoveltyBudget
    <3> HIDE DEF fresh, count
    <3> QED
      BY <2>2, <2>4, <2>5, <2>6, <3>1 DEF Smaller
  <2>8. CASE LimitNow <= 1
    <3> HIDE DEF fresh, count
    <3> QED
      BY <2>2, <2>5, <2>6, <2>8 DEF Smaller
  <2> QED
    BY <2>2, <2>7, <2>8
<1> QED
  BY <1>1, InvAlways, PTL DEF Spec, BringsNovelty

-----------------------------------------------------------------------------
(* How long the rotation leaves a name out.                                  *)
(*                                                                           *)
(* What a name has missed and how far the rotation still is from it are      *)
(* bounded together: a round that passes the name by adds one to the one and *)
(* takes at least the smallest slice from the other, and a name that appears *)
(* in between moves the rotation two entries further away at most.           *)

Rank(n) == Cardinality({y \in KnownNames : y < n})

Missed(n) == IF n \in DOMAIN missed THEN missed[n] ELSE 0

Distance(n) == Ahead(Rank(n), cursor, Len(recency))

WithinBound(n) ==
  Missed(n) * LeastLimit + Distance(n) <= (Len(recency) - 1) + (Len(recency) - Len(Names0))

RotationInv == PureRotation => \A n \in KnownNames : WithinBound(n)

\* The distance from the cursor is less than a turn.
LEMMA AheadFacts ==
  ASSUME NEW N \in Nat, N > 0, NEW k \in 0 .. N - 1, NEW c \in 0 .. N - 1
  PROVE  Ahead(k, c, N) \in 0 .. N - 1
BY DEF Ahead

\* A rotation by `limit' brings what is at least that far ahead closer by as much.
LEMMA AheadAdvances ==
  ASSUME NEW N \in Nat, N > 0, NEW k \in 0 .. N - 1, NEW c \in 0 .. N - 1,
         NEW limit \in 0 .. N, Ahead(k, c, N) >= limit
  PROVE  Ahead(k, (c + limit) % N, N) = Ahead(k, c, N) - limit
<1> DEFINE m == c + limit
           r == m % N
<1>1. m \in Nat /\ m < 2 * N
  <2>1. CASE k >= c
    BY <2>1 DEF Ahead
  <2>2. CASE k < c
    BY <2>2 DEF Ahead
  <2> QED
    BY <2>1, <2>2
<1>2. r = IF m < N THEN m ELSE m - N
  <2> HIDE DEF m
  <2>1. CASE m < N
    BY <1>1, <2>1
  <2>2. CASE m >= N
    <3> DEFINE j == m - N
    <3>1. j \in 0 .. N - 1 /\ m = j + N
      BY <1>1, <2>2
    <3> HIDE DEF j
    <3>2. (j + N) % N = j
      BY <3>1
    <3> QED
      BY <2>2, <3>1, <3>2 DEF j
  <2> QED
    BY <1>1, <2>1, <2>2
<1> HIDE DEF r
<1>3. Ahead(k, r, N) = Ahead(k, c, N) - limit
  BY <1>2 DEF Ahead
<1> QED
  BY <1>3 DEF r

\* An entry that appears anywhere moves the others two places away at most.
LEMMA AheadOfLonger ==
  ASSUME NEW N \in Nat, N > 0, NEW k \in 0 .. N - 1, NEW c \in 0 .. N - 1,
         NEW j \in {k, k + 1}
  PROVE  Ahead(j, c, N + 1) <= Ahead(k, c, N) + 2
BY DEF Ahead

\* The place of a name in std::map order.
LEMMA RankRange ==
  ASSUME VectorInv, NEW n \in KnownNames
  PROVE  /\ Len(recency) \in Nat /\ Len(recency) > 0
         /\ Rank(n) \in 0 .. Len(recency) - 1
<1>1. KnownNames \in SUBSET Int /\ IsFiniteSet(KnownNames)
  BY NameFacts DEF VectorInv
<1>2. Len(recency) \in Nat /\ Len(recency) = Cardinality(KnownNames)
  BY OrderLength
<1>3. Rank(n) \in 0 .. Cardinality(KnownNames) - 1
  BY <1>1, PlacesBelow DEF Rank
<1> QED
  BY <1>2, <1>3

\* The node never knows fewer names than it started with.
LEMMA StartFacts ==
  ASSUME VectorInv
  PROVE  /\ Len(Names0) \in Nat /\ Len(recency) \in Nat /\ Len(Names0) <= Len(recency)
         /\ LeastLimit \in Nat /\ LeastLimit >= 1
<1>1. Len(Names0) \in Nat
  BY NamesAssumption, SeqFacts
<1>2. Cardinality(ToSet(Names0)) <= Cardinality(KnownNames)
  BY FS_Subset DEF VectorInv
<1>3. Len(recency) \in Nat /\ Len(recency) = Cardinality(KnownNames)
  BY OrderLength
<1>4. StateVectorLimit(Len(Names0)) \in Nat
  <2>1. CASE Len(Names0) = 0
    BY <2>1 DEF StateVectorLimit
  <2>2. CASE Len(Names0) > 0
    <3>1. StateVectorLimit(Len(Names0)) \in 1 .. Len(Names0)
      BY <1>1, <2>2, LimitFacts DEF VectorInv
    <3> QED
      BY <1>1, <3>1
  <2> QED
    BY <1>1, <2>1, <2>2
<1> QED
  BY <1>1, <1>2, <1>3, <1>4, NamesAssumption DEF LeastLimit, Larger

\* Every slice is at least as long as the first one could be.
LEMMA LeastLimitFacts ==
  ASSUME VectorInv, Len(recency) > 0
  PROVE  LeastLimit <= StateVectorLimit(Len(recency))
<1>1. /\ Len(Names0) \in Nat /\ Len(recency) \in Nat /\ Len(Names0) <= Len(recency)
      /\ config \in Configs
  BY StartFacts DEF VectorInv
<1>2. StateVectorLimit(Len(recency)) \in 1 .. Len(recency)
  BY <1>1, LimitFacts
<1>3. CASE Len(Names0) = 0
  BY <1>1, <1>2, <1>3 DEF LeastLimit, Larger, StateVectorLimit
<1>4. CASE Len(Names0) > 0
  <2>1. StateVectorLimit(Len(Names0)) <= StateVectorLimit(Len(recency))
    BY <1>1, <1>4, LimitMonotone
  <2>2. StateVectorLimit(Len(Names0)) \in 1 .. Len(Names0)
    BY <1>1, <1>4, LimitFacts
  <2> QED
    BY <1>1, <1>2, <2>1, <2>2 DEF LeastLimit, Larger
<1> QED
  BY <1>1, <1>3, <1>4

LEMMA CursorRange ==
  ASSUME Inv, Len(recency) > 0
  PROVE  cursor \in 0 .. Len(recency) - 1
<1>1. Len(recency) \in Nat
  BY OrderLength DEF Inv
<1> QED
  BY <1>1 DEF Inv, KeptInv

LEMMA DistanceFacts ==
  ASSUME Inv, NEW n \in KnownNames
  PROVE  Distance(n) \in 0 .. Len(recency) - 1
<1>1. /\ Len(recency) \in Nat /\ Len(recency) > 0
      /\ Rank(n) \in 0 .. Len(recency) - 1
  BY RankRange DEF Inv
<1>2. cursor \in 0 .. Len(recency) - 1
  BY <1>1, CursorRange
<1> QED
  BY <1>1, <1>2, AheadFacts DEF Distance

\* A name that nothing is held against keeps the bound, in this state and in the next.
LEMMA NothingMissed ==
  Inv => \A n \in KnownNames : Missed(n) = 0 => WithinBound(n)
<1> SUFFICES ASSUME Inv, NEW n \in KnownNames, Missed(n) = 0
             PROVE  WithinBound(n)
  OBVIOUS
<1>1. /\ Len(Names0) \in Nat /\ Len(recency) \in Nat /\ Len(Names0) <= Len(recency)
      /\ LeastLimit \in Nat
  BY StartFacts DEF Inv
<1>2. Distance(n) \in 0 .. Len(recency) - 1
  BY DistanceFacts
<1>3. Missed(n) * LeastLimit = 0
  BY <1>1
<1> QED
  BY <1>1, <1>2, <1>3 DEF WithinBound

LEMMA NothingMissedNext ==
  Inv' => (\A n \in KnownNames : Missed(n) = 0 => WithinBound(n))'
BY NothingMissed, PTL

LEMMA RecencyLength ==
  Inv => Len(recency) = Cardinality(KnownNames)
BY OrderLength DEF Inv

LEMMA RecencyLengthNext ==
  Inv' => (Len(recency) = Cardinality(KnownNames))'
BY RecencyLength, PTL

\* The bound only depends on what is fixed at the start.
LEMMA BoundFixed ==
  ASSUME config' = config
  PROVE  LeastLimit' = LeastLimit /\ PureRotation' = PureRotation
BY DEF LeastLimit, PureRotation, StateVectorLimit, Scaled, Boosted, Env, strategy, Self

LEMMA MissedFacts ==
  ASSUME Inv, NEW n
  PROVE  Missed(n) \in Nat
<1>1. \A k \in DOMAIN missed : missed[k] \in Nat
  BY DEF Inv, KeptInv
<1> QED
  BY <1>1 DEF Missed

LEMMA RotationInit == Init => RotationInv
<1> SUFFICES ASSUME Init, NEW n \in KnownNames
             PROVE  WithinBound(n)
  BY DEF RotationInv
<1>1. Missed(n) = 0
  BY DEF Init, Missed
<1> QED
  BY <1>1, InitInv, NothingMissed

\* A name that appears takes from no other more than the bound grows by.
LEMMA RotationSet ==
  ASSUME Inv, Inv', RotationInv, NEW m \in AllNames, Set(m)
  PROVE  RotationInv'
<1>1. config' = config /\ cursor' = cursor /\ missed' = missed
      /\ KnownNames' = KnownNames \union {m}
  BY DEF Set, KnownNames
<1>2. LeastLimit' = LeastLimit /\ PureRotation' = PureRotation
  BY <1>1, BoundFixed
<1> SUFFICES ASSUME PureRotation, NEW n \in KnownNames'
             PROVE  WithinBound(n)'
  BY <1>2 DEF RotationInv
<1>3. /\ Len(recency) = Cardinality(KnownNames)
      /\ Len(recency') = Cardinality(KnownNames')
  BY RecencyLength, RecencyLengthNext
<1>4. IsFiniteSet(KnownNames) /\ KnownNames \subseteq Nat /\ m \in Nat
  BY NameFacts DEF Inv, VectorInv
<1>5. CASE n \notin KnownNames
  <2>1. Missed(n)' = 0
    BY <1>1, <1>5 DEF Missed, Inv, KeptInv
  <2> QED
    BY <2>1, NothingMissedNext
<1>6. CASE n \in KnownNames /\ m \in KnownNames
  <2>1. KnownNames' = KnownNames
    BY <1>1, <1>6
  <2>2. Len(recency') = Len(recency)
    BY <1>3, <2>1
  <2>3. Distance(n)' = Distance(n) /\ Missed(n)' = Missed(n)
    BY <1>1, <2>1, <2>2 DEF Distance, Rank, Missed
  <2> QED
    BY <1>2, <1>6, <2>2, <2>3 DEF RotationInv, WithinBound
<1>7. CASE n \in KnownNames /\ m \notin KnownNames
  <2> DEFINE before == {y \in KnownNames : y < n}
             N == Len(recency)
  <2>1. /\ N \in Nat /\ N > 0 /\ Rank(n) \in 0 .. N - 1 /\ cursor \in 0 .. N - 1
        /\ Distance(n) \in 0 .. N - 1
    BY <1>7, RankRange, CursorRange, DistanceFacts DEF Inv
  <2>2. Len(recency') = N + 1
    BY <1>1, <1>3, <1>4, <1>7, FS_AddElement
  <2>3. Rank(n)' \in {Rank(n), Rank(n) + 1}
    <3>1. Rank(n)' = Cardinality({y \in KnownNames \union {m} : y < n})
      BY <1>1 DEF Rank
    <3>2. Rank(n) = Cardinality(before) /\ IsFiniteSet(before) /\ m \notin before
      BY <1>4, <1>7, FS_Subset DEF Rank
    <3>3. {y \in KnownNames \union {m} : y < n} = before
          \/ {y \in KnownNames \union {m} : y < n} = before \union {m}
      OBVIOUS
    <3> HIDE DEF before
    <3>4. Cardinality(before \union {m}) = Cardinality(before) + 1
      BY <3>2, FS_AddElement
    <3> QED
      BY <3>1, <3>2, <3>3, <3>4
  <2>4. Distance(n)' = Ahead(Rank(n)', cursor, N + 1)
    BY <1>1, <2>2 DEF Distance
  <2>5. Distance(n) = Ahead(Rank(n), cursor, N)
    BY DEF Distance
  <2>6. Distance(n)' <= Distance(n) + 2
    BY <2>1, <2>3, <2>4, <2>5, AheadOfLonger
  <2>7. Distance(n)' \in Int
    BY <2>1, <2>3, <2>4 DEF Ahead
  <2>8. Missed(n)' = Missed(n)
    BY <1>1 DEF Missed
  <2>9. WithinBound(n)
    BY <1>7 DEF RotationInv
  <2>10. /\ Missed(n) \in Nat /\ LeastLimit \in Nat /\ Len(Names0) \in Nat
    <3>1. LeastLimit \in Nat /\ Len(Names0) \in Nat
      BY StartFacts DEF Inv
    <3> QED
      BY <3>1, MissedFacts
  <2>11. Missed(n) * LeastLimit \in Nat
    BY <2>10
  <2> DEFINE q == Missed(n) * LeastLimit
             d == Distance(n)
  <2>12. q + d <= (N - 1) + (N - Len(Names0))
    BY <2>9 DEF WithinBound
  <2>13. WithinBound(n)' <=> q + Distance(n)' <= ((N + 1) - 1) + ((N + 1) - Len(Names0))
    BY <1>2, <2>2, <2>8 DEF WithinBound
  <2>14. q \in Nat /\ d \in Int
    BY <2>1, <2>11
  <2> HIDE DEF q, d, N
  <2> QED
    BY <2>1, <2>6, <2>7, <2>10, <2>12, <2>13, <2>14 DEF d
<1> QED
  BY <1>5, <1>6, <1>7

\* A whole vector leaves nothing missed.
LEMMA RotationFull ==
  ASSUME Inv, Inv', BuildFull
  PROVE  RotationInv'
<1>1. missed' = [n \in KnownNames |-> 0] /\ KnownNames' = KnownNames
  BY DEF BuildFull, KnownNames
<1>2. \A n \in KnownNames' : Missed(n)' = 0
  BY <1>1 DEF Missed
<1>3. \A n \in KnownNames' : WithinBound(n)'
  BY <1>2, NothingMissedNext
<1> QED
  BY <1>3 DEF RotationInv

\* A name the rotation leaves out again comes closer by a whole slice.
LEMMA RotationPartial ==
  ASSUME Inv, Inv', RotationInv, BuildPartial
  PROVE  RotationInv'
<1> DEFINE N == Len(recency)
           limit == StateVectorLimit(N)
<1>1. config' = config /\ recency' = recency /\ KnownNames' = KnownNames
      /\ cursor' = CursorAfter(limit, N)
  BY DEF BuildPartial, KnownNames
<1>2. LeastLimit' = LeastLimit /\ PureRotation' = PureRotation
  BY <1>1, BoundFixed
<1> SUFFICES ASSUME PureRotation, NEW n \in KnownNames
             PROVE  WithinBound(n)'
  BY <1>1, <1>2 DEF RotationInv
<1>3. /\ limit < N /\ N \in Nat /\ limit \in 1 .. N
      /\ missed' = [k \in KnownNames |->
                     IF k \in slice' THEN 0
                     ELSE IF k \in DOMAIN missed THEN Smaller(MaxRounds, missed[k] + 1)
                                                 ELSE Smaller(MaxRounds, 1)]
      /\ \E a \in SelectCalls(limit) : PartialCallNow(a, limit, N) /\ slice' = PartialSubset(a)
  BY PartialStep
<1>4. PICK a : PartialCallNow(a, limit, N) /\ slice' = PartialSubset(a)
  BY <1>3
<1>5. CASE n \in slice'
  <2>1. Missed(n)' = 0
    BY <1>3, <1>5 DEF Missed
  <2> QED
    BY <1>1, <2>1, NothingMissedNext
<1>6. CASE n \notin slice'
  <2> DEFINE d == Distance(n)
  <2>1. /\ N > 0 /\ Rank(n) \in 0 .. N - 1 /\ cursor \in 0 .. N - 1 /\ d \in 0 .. N - 1
        /\ N = Cardinality(KnownNames)
    BY RankRange, CursorRange, DistanceFacts, RecencyLength DEF Inv
  <2>2. Rotation(KnownNames, cursor)[d + 1] = n
    <3>1. KnownNames \in SUBSET Int /\ IsFiniteSet(KnownNames) /\ KnownNames # {}
          /\ cursor \in Nat
      BY NameFacts DEF Inv, VectorInv, KeptInv
    <3>2. cursor % Cardinality(KnownNames) = cursor
      <4> DEFINE size == Cardinality(KnownNames)
      <4>1. size \in Nat /\ size > 0 /\ cursor \in 0 .. size - 1
        BY <1>3, <2>1
      <4> HIDE DEF size
      <4>2. cursor % size = cursor
        BY <4>1
      <4> QED
        BY <4>2 DEF size
    <3>3. Rotation(KnownNames, cursor)
            [Ahead(Cardinality({y \in KnownNames : y < n}),
                   cursor % Cardinality(KnownNames), Cardinality(KnownNames)) + 1] = n
      BY <3>1, RotationFacts
    <3> QED
      BY <2>1, <3>2, <3>3 DEF Distance, Rank
  <2>3. d >= limit
    <3> SUFFICES ASSUME d < limit PROVE FALSE
      BY <1>3, <2>1
    <3>1. /\ PartialCall(a) /\ a.max = limit /\ a.rotation = Rotation(KnownNames, cursor)
          /\ a.strategy = EffectiveStrategy(limit, N)
          /\ Preferred(a) = {Self} \intersect KnownNames
      BY <1>4 DEF PartialCallNow
    <3>2. a.strategy = "RoundRobin"
      BY <3>1 DEF PureRotation, EffectiveStrategy
    <3>3. Preferred(a) = {}
      BY <3>1, NameFacts DEF PureRotation, Inv, VectorInv
    <3>4. d + 1 \in 1 .. a.max
      BY <1>3, <2>1, <3>1
    <3>5. a.rotation[d + 1] \in PartialSubset(a)
      BY <3>1, <3>2, <3>3, <3>4, RotationTaken
    <3> QED
      BY <1>4, <1>6, <2>2, <3>1, <3>5
  <2>4. Distance(n)' = d - limit
    <3>1. cursor' = (cursor + limit) % N
      BY <1>1 DEF CursorAfter, EffectiveStrategy, PureRotation
    <3>2. Rank(n)' = Rank(n)
      BY <1>1 DEF Rank
    <3>3. Distance(n)' = Ahead(Rank(n), (cursor + limit) % N, N)
      BY <1>1, <3>1, <3>2 DEF Distance
    <3>4. limit \in 0 .. N
      BY <1>3
    <3>5. Ahead(Rank(n), cursor, N) >= limit
      BY <2>3 DEF Distance
    <3>6. Ahead(Rank(n), (cursor + limit) % N, N) = Ahead(Rank(n), cursor, N) - limit
      BY <1>3, <2>1, <3>4, <3>5, AheadAdvances
    <3> QED
      BY <3>3, <3>6 DEF Distance
  <2>5. Missed(n)' \in Nat /\ Missed(n) \in Nat /\ Missed(n)' <= Missed(n) + 1
    <3>1. Missed(n)' = IF n \in DOMAIN missed THEN Smaller(MaxRounds, missed[n] + 1)
                                              ELSE Smaller(MaxRounds, 1)
      BY <1>3, <1>6 DEF Missed
    <3>2. Missed(n)' = Smaller(MaxRounds, Missed(n) + 1)
      BY <3>1 DEF Missed
    <3> QED
      BY <3>2, MissedFacts, NamesAssumption DEF Smaller
  <2>6. LeastLimit <= limit /\ LeastLimit \in Nat /\ Len(Names0) \in Nat
    BY <2>1, LeastLimitFacts, StartFacts DEF Inv
  <2>7. WithinBound(n)
    BY DEF RotationInv
  <2>8. Missed(n)' * LeastLimit <= Missed(n) * LeastLimit + LeastLimit
    <3>1. Missed(n)' * LeastLimit <= (Missed(n) + 1) * LeastLimit
      BY <2>5, <2>6, ProductMonotone
    <3>2. (Missed(n) + 1) * LeastLimit = Missed(n) * LeastLimit + LeastLimit
      BY <2>5, <2>6
    <3> QED
      BY <3>1, <3>2
  <2>9. Missed(n)' * LeastLimit \in Nat /\ Missed(n) * LeastLimit \in Nat
    BY <2>5, <2>6
  <2> DEFINE p == Missed(n)' * LeastLimit
             q == Missed(n) * LeastLimit
             bound == (N - 1) + (N - Len(Names0))
  <2>10. q + d <= bound /\ bound \in Int
    BY <1>3, <2>6, <2>7 DEF WithinBound
  <2>11. WithinBound(n)' <=> p + (d - limit) <= bound
    BY <1>1, <1>2, <2>4 DEF WithinBound
  <2> HIDE DEF p, q, bound, d, limit, N
  <2>12. p \in Nat /\ q \in Nat /\ p <= q + LeastLimit
    BY <2>8, <2>9 DEF p, q
  <2>13. d \in Nat /\ limit \in Nat
    BY <1>3, <2>1
  <2> QED
    BY <2>6, <2>10, <2>11, <2>12, <2>13
<1> QED
  BY <1>5, <1>6

LEMMA RotationNext == Inv /\ Inv' /\ RotationInv /\ [Next]_vars => RotationInv'
<1> SUFFICES ASSUME Inv, Inv', RotationInv, [Next]_vars
             PROVE  RotationInv'
  OBVIOUS
<1>1. CASE BuildFull
  BY <1>1, RotationFull
<1>2. CASE BuildPartial
  BY <1>2, RotationPartial
<1>3. CASE \E n \in AllNames : Set(n)
  BY <1>3, RotationSet
<1>4. CASE UNCHANGED vars
  <2>1. config' = config /\ recency' = recency /\ KnownNames' = KnownNames
        /\ cursor' = cursor /\ missed' = missed
    BY <1>4 DEF vars, KnownNames
  <2>2. LeastLimit' = LeastLimit /\ PureRotation' = PureRotation
    BY <2>1, BoundFixed
  <2>3. \A n : Missed(n)' = Missed(n) /\ Distance(n)' = Distance(n)
    BY <2>1 DEF Missed, Distance, Rank
  <2> QED
    BY <2>1, <2>2, <2>3 DEF RotationInv, WithinBound
<1> QED
  BY <1>1, <1>2, <1>3, <1>4 DEF Next, Build

\* What is missed is bounded, since no distance is negative.
LEMMA RotationInvBounds == Inv /\ RotationInv => RotationBound
<1> SUFFICES ASSUME Inv, RotationInv, PureRotation, NEW n \in DOMAIN missed
             PROVE  missed[n] * LeastLimit
                      <= (Len(recency) - 1) + (Len(recency) - Len(Names0))
  BY DEF RotationBound
<1>1. n \in KnownNames /\ Missed(n) = missed[n]
  BY DEF Inv, KeptInv, Missed
<1>2. WithinBound(n)
  BY <1>1 DEF RotationInv
<1>3. Len(recency) \in Nat /\ Len(Names0) \in Nat /\ LeastLimit \in Nat
  BY StartFacts DEF Inv
<1>4. Distance(n) \in Nat
  BY <1>1, <1>3, DistanceFacts
<1>5. missed[n] * LeastLimit \in Nat
  BY <1>1, <1>3, MissedFacts
<1> QED
  BY <1>1, <1>2, <1>3, <1>4, <1>5 DEF WithinBound

\* The rotation leaves a name out for no more rounds than it takes to go round, and as
\* names that appear meanwhile delay it.
THEOREM RotationIsFair == Spec => []RotationBound
<1>1. Init => RotationInv
  BY RotationInit
<1>2. Inv /\ Inv' /\ RotationInv /\ [Next]_vars => RotationInv'
  BY RotationNext
<1> QED
  BY <1>1, <1>2, InvAlways, RotationInvBounds, PTL DEF Spec
=============================================================================
