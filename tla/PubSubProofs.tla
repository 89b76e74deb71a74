---------------------------- MODULE PubSubProofs ----------------------------
(***************************************************************************)
(* Proofs about PubSub, for any stream of publications, any subscriptions  *)
(* and any length of the mapping queries: type correctness, the invariants *)
(* of PubSubProps and that PubSub implements Delivery.                     *)
(***************************************************************************)
EXTENDS PubSubProps, WellFoundedInduction, TLAPS

-----------------------------------------------------------------------------
(* The ranges of numbers that are asked for. *)

\* Two different multiples of m are at least m apart.
LEMMA MultiplesApart ==
  ASSUME NEW m \in Nat, m > 0, NEW i \in Nat, NEW j \in Nat,
         i % m = 0, j % m = 0, i < j
  PROVE  i + m <= j
<1>1. /\ i \div m \in Nat /\ j \div m \in Nat
      /\ i = m * (i \div m) /\ j = m * (j \div m)
  OBVIOUS
<1> DEFINE a == i \div m
           b == j \div m
<1>2. a \in Nat /\ b \in Nat /\ i = m * a /\ j = m * b
  BY <1>1
<1> HIDE DEF a, b
<1>3. \A x, y \in Nat : x <= y => m * x <= m * y
  OBVIOUS
<1>4. a < b
  <2>1. ~ (b <= a)
    BY <1>2, <1>3
  <2> QED
    BY <1>2, <2>1
<1>5. m * (a + 1) <= m * b
  BY <1>2, <1>3, <1>4
<1>6. m * (a + 1) = m * a + m
  BY <1>2
<1> QED
  BY <1>2, <1>5, <1>6

Range(q) == q.low .. q.high

\* The queries for a range ask for numbers of it, and for each of them once.
LEMMA QueriesFacts ==
  ASSUME NEW low \in Nat, low > 0, NEW high \in 0 .. MaxSeq
  PROVE  /\ Queries(low, high) \subseteq [low : Numbers, high : Numbers]
         /\ \A q \in Queries(low, high) :
              q.low \in Nat /\ q.high \in Nat /\ low <= q.low /\ q.high <= high
         /\ \A q, r \in Queries(low, high) : q # r => Range(q) \intersect Range(r) = {}
<1> DEFINE m == QuerySpan + 1
           Last(n) == IF n + QuerySpan < high THEN n + QuerySpan ELSE high
           Starts == {n \in low .. high : (n - low) % m = 0}
<1>0. QuerySpan \in Nat /\ MaxSeq \in Nat /\ high \in Nat
  BY PubSubAssumption
<1>1. \A n \in Starts : /\ n \in Nat /\ low <= n /\ n <= high
                        /\ Last(n) \in Nat /\ n <= Last(n) /\ Last(n) <= high
                        /\ Last(n) < n + m
  BY <1>0
<1>2. Queries(low, high) = {[low |-> n, high |-> Last(n)] : n \in Starts}
  BY DEF Queries
<1>3. \A n, k \in Starts : n < k => Last(n) < k
  <2> SUFFICES ASSUME NEW n \in Starts, NEW k \in Starts, n < k
               PROVE  Last(n) < k
    OBVIOUS
  <2>1. n - low \in Nat /\ k - low \in Nat /\ n - low < k - low /\ m \in Nat /\ m > 0
    BY <1>0, <1>1
  <2>2. (n - low) % m = 0 /\ (k - low) % m = 0
    OBVIOUS
  <2> HIDE DEF Last, Starts, m
  <2>3. (n - low) + m <= k - low
    BY <2>1, <2>2, MultiplesApart
  <2> QED
    BY <1>1, <2>1, <2>3
<1> HIDE DEF Last, Starts, m
<1>4. ASSUME NEW q \in Queries(low, high)
      PROVE  /\ q \in [low : Numbers, high : Numbers]
             /\ q.low \in Nat /\ q.high \in Nat /\ low <= q.low /\ q.high <= high
  <2>1. PICK n \in Starts : q = [low |-> n, high |-> Last(n)]
    BY <1>2
  <2> QED
    BY <1>0, <1>1, <2>1 DEF Numbers
<1>5. ASSUME NEW q \in Queries(low, high), NEW r \in Queries(low, high), q # r
      PROVE  Range(q) \intersect Range(r) = {}
  <2>1. PICK n \in Starts : q = [low |-> n, high |-> Last(n)]
    BY <1>2
  <2>2. PICK k \in Starts : r = [low |-> k, high |-> Last(k)]
    BY <1>2
  <2>3. n < k \/ k < n
    BY <1>1, <1>5, <2>1, <2>2
  <2>4. Last(n) < k \/ Last(k) < n
    BY <1>3, <2>3
  <2> QED
    BY <1>1, <2>1, <2>2, <2>4 DEF Range
<1> QED
  BY <1>4, <1>5

\* The first number without a mapping lies in the range or right after it.
LEMMA FirstUnknownFacts ==
  ASSUME NEW low \in Nat, NEW high \in Nat, low <= high, NEW m
  PROVE  FirstUnknown(low, high, m) \in low .. high + 1
<1> DEFINE S == {n \in low .. high + 1 : n = high + 1 \/ n \notin m}
<1>1. high + 1 \in S /\ S \subseteq Nat
  OBVIOUS
<1>2. PICK n \in S : \A k \in S : n <= k
  <2> HIDE DEF S
  <2>1. PICK n \in S : \A k \in S : ~ (<<k, n>> \in OpToRel(<, Nat))
    BY <1>1, WFMin, NatLessThanWellFounded, Zenon
  <2>2. \A k \in S : ~ (k < n)
    BY <1>1, <2>1, Zenon DEF OpToRel
  <2> QED
    BY <1>1, <2>2
<1>3. low .. n - 1 \subseteq m
  BY <1>1, <1>2
<1>4. /\ n \in low .. high + 1
      /\ n = high + 1 \/ n \notin m
      /\ low .. n - 1 \subseteq m
  BY <1>2, <1>3
<1> QED
  BY <1>4 DEF FirstUnknown

-----------------------------------------------------------------------------
(* The inductive invariant: the node that publishes. *)

\* The thread that publishes works on the next number until it announces it, which
\* it does not do before the data is in the store.
Writing ==
  writer # 0 =>
    /\ step <= Len(Steps(Content[writer]))
    /\ step > 1 => writer \in store
    /\ writer = IF Content[writer] = "packet" /\ step = 3 THEN seqNo ELSE seqNo + 1

\* What is announced, or was, is in the store.
Announced ==
  /\ 1 .. seqNo \subseteq store
  /\ vector # NoVector => vector <= seqNo
  /\ copied # NoCopy => copied.seq <= seqNo
  /\ \A msg \in net : msg.seq <= seqNo
  /\ known <= seqNo

PubTypes ==
  /\ seqNo \in 0 .. MaxSeq /\ writer \in 0 .. MaxSeq /\ step \in 1 .. 3
  /\ store \subseteq Numbers /\ provided \subseteq Numbers
  /\ notify \subseteq Numbers
  /\ vector \in 0 .. MaxSeq \union {NoVector}
  /\ copied \in SyncInterests \union {NoCopy}
  /\ net \subseteq SyncInterests

PubInv == PubTypes /\ Writing /\ Announced

-----------------------------------------------------------------------------
(* The inductive invariant: the node that subscribes. *)

QueueTypes ==
  /\ fetchMap \in [Numbers -> [Subs -> Nat]]
  /\ fetching \subseteq Numbers
  /\ stage \in [Numbers -> {"none", "data", "segments", "elements", "failed"}]

SubTypes ==
  /\ status \in [Subs -> {"new", "on", "off"}]
  /\ known \in 0 .. MaxSeq
  /\ mappings \subseteq Numbers
  /\ delivered \in [Subs -> [Numbers -> Nat]]
  /\ due \subseteq Subs \X Numbers
  /\ faults \in 0 .. MaxFaults /\ broken \subseteq Numbers

\* No number is asked for in two queries, and none that is not announced.
Disjoint ==
  /\ queries \subseteq [low : Numbers, high : Numbers]
  /\ \A q \in queries : q.high <= known
  /\ \A q, r \in queries : q # r => Range(q) \intersect Range(r) = {}

\* The queries qs ask for the mapping of p.
Asked(qs, p) == \E q \in qs : p \in Range(q)

\* A subscription that waits for a publication or was given it asks for it, and does
\* so when it was announced, or when its mapping was there.
Wanted ==
  \A p \in Numbers : \A s \in Subs :
    fetchMap[p][s] > 0 \/ delivered[s][p] > 0
      => p <= known /\ p \in AsksFor[s] /\ (s \in PrefixSubs => ~ Asked(queries, p))

\* It waits once at most and is given it once at most, and only a subscription to
\* packets stays in the queue after that, while the segments are fetched.
Once ==
  \A p \in Numbers : \A s \in Subs :
    /\ fetchMap[p][s] <= 1 /\ delivered[s][p] <= 1
    /\ fetchMap[p][s] > 0 /\ delivered[s][p] > 0
         => s \in PacketSubs /\ stage[p] \in {"segments", "elements"}

SubInv == SubTypes /\ QueueTypes /\ QueueIsFetched /\ Disjoint /\ Wanted /\ Once

IInv == PubInv /\ SubInv

LEMMA Constants ==
  /\ MaxSeq \in Nat /\ MaxFaults \in Nat
  /\ \A s \in PrefixSubs : Covers[s] \subseteq Numbers
  /\ Content \in [Numbers -> Contents]
  /\ Numbers \subseteq Nat
BY PubSubAssumption DEF Numbers

LEMMA Implications == IInv => TypeOK /\ AtMostOnce /\ QueueIsFetched /\ AskedForExists
<1> SUFFICES ASSUME IInv
             PROVE  TypeOK /\ AtMostOnce /\ QueueIsFetched /\ AskedForExists
  OBVIOUS
<1>1. TypeOK
  BY DEF IInv, PubInv, PubTypes, SubInv, SubTypes, QueueTypes, Disjoint, TypeOK
<1>2. AtMostOnce
  BY DEF IInv, SubInv, Once, AtMostOnce
<1>3. ASSUME NEW p \in Numbers, stage[p] # "none"
      PROVE  p \in store
  <2>1. PICK s \in Subs : fetchMap[p][s] > 0
    BY <1>3 DEF IInv, SubInv, QueueIsFetched, Waiting
  <2>2. p <= known
    BY <2>1 DEF IInv, SubInv, Wanted
  <2>3. p \in 1 .. seqNo
    <3>1. known \in 0 .. MaxSeq /\ seqNo \in 0 .. MaxSeq /\ known <= seqNo
      BY DEF IInv, SubInv, SubTypes, PubInv, PubTypes, Announced
    <3> QED
      BY <2>2, <3>1, Constants DEF Numbers
  <2> QED
    BY <2>3 DEF IInv, PubInv, Announced
<1> QED
  BY <1>1, <1>2, <1>3 DEF IInv, SubInv, AskedForExists

LEMMA InitIInv == Init => IInv
<1> SUFFICES ASSUME Init
             PROVE  IInv
  OBVIOUS
<1>1. PubInv
  BY Constants DEF Init, PubInv, PubTypes, Writing, Announced
<1>2. SubTypes /\ QueueTypes
  BY Constants DEF Init, SubTypes, QueueTypes
<1>3. QueueIsFetched
  BY DEF Init, QueueIsFetched, Waiting
<1>4. Disjoint
  BY DEF Init, Disjoint
<1>5. Wanted /\ Once
  BY DEF Init, Wanted, Once
<1> QED
  BY <1>1, <1>2, <1>3, <1>4, <1>5 DEF IInv, SubInv

-----------------------------------------------------------------------------
(* Steps of the node that publishes. *)

LEMMA SubscriberUnchanged ==
  ASSUME SubInv, UNCHANGED <<subscriber, failures>>
  PROVE  SubInv'
<1>1. UNCHANGED <<status, known, mappings, queries, fetchMap, fetching, stage, delivered,
                  due, faults, broken>>
  BY DEF subscriber, queue, failures
<1>2. SubTypes' /\ QueueTypes'
  BY <1>1 DEF SubInv, SubTypes, QueueTypes
<1>3. QueueIsFetched'
  BY <1>1 DEF SubInv, QueueIsFetched, Waiting
<1>4. Disjoint' /\ Wanted' /\ Once'
  BY <1>1 DEF SubInv, Disjoint, Wanted, Once
<1> QED
  BY <1>2, <1>3, <1>4 DEF SubInv

LEMMA StepsFacts ==
  /\ Steps("packet") = <<"store", "announce", "map">>
  /\ Steps("segments") = <<"store", "map", "announce">>
  /\ Steps("other") = <<"store", "announce">>
  /\ \A c \in Contents : Len(Steps(c)) = IF c = "other" THEN 2 ELSE 3
<1>1. /\ Steps("packet") = <<"store", "announce", "map">>
      /\ Steps("segments") = <<"store", "map", "announce">>
      /\ Steps("other") = <<"store", "announce">>
  BY DEF Steps
<1>2. /\ Len(Steps("packet")) = 3
      /\ Len(Steps("segments")) = 3
      /\ Len(Steps("other")) = 2
  BY <1>1
<1> QED
  BY <1>1, <1>2 DEF Contents

\* The step the thread makes, and the number it works on.
LEMMA StepFacts ==
  ASSUME PubInv, NEW name, AtStep(name)
  PROVE  /\ writer \in Numbers /\ step \in 1 .. 3 /\ seqNo \in Nat
         /\ Content[writer] \in Contents
         /\ step <= Len(Steps(Content[writer]))
         /\ name = "store" => step = 1
         /\ name = "announce" => step = IF Content[writer] = "segments" THEN 3 ELSE 2
         /\ name = "map" => step = IF Content[writer] = "packet" THEN 3 ELSE 2
         /\ writer = IF Content[writer] = "packet" /\ step = 3 THEN seqNo ELSE seqNo + 1
         /\ step > 1 => writer \in store
<1>1. writer \in Numbers /\ step \in 1 .. 3 /\ seqNo \in Nat /\ writer # 0
  BY Constants DEF PubInv, PubTypes, Numbers, AtStep
<1>2. Content[writer] \in Contents
  BY <1>1, Constants
<1>3. /\ step <= Len(Steps(Content[writer])) /\ Steps(Content[writer])[step] = name
      /\ writer = IF Content[writer] = "packet" /\ step = 3 THEN seqNo ELSE seqNo + 1
      /\ step > 1 => writer \in store
  BY <1>1 DEF AtStep, PubInv, Writing
<1>4. /\ step = 1 \/ step = 2 \/ step = 3
      /\ Content[writer] = "other" => step # 3
  BY <1>1, <1>2, <1>3, StepsFacts
<1>5. /\ name = "store" => step = 1
      /\ name = "announce" => step = IF Content[writer] = "segments" THEN 3 ELSE 2
      /\ name = "map" => step = IF Content[writer] = "packet" THEN 3 ELSE 2
  <2>1. CASE Content[writer] = "packet"
    BY <1>3, <1>4, <2>1, StepsFacts
  <2>2. CASE Content[writer] = "segments"
    BY <1>3, <1>4, <2>2, StepsFacts
  <2>3. CASE Content[writer] = "other"
    BY <1>3, <1>4, <2>3, StepsFacts
  <2> QED
    BY <1>2, <2>1, <2>2, <2>3 DEF Contents
<1> QED
  BY <1>1, <1>2, <1>3, <1>5

\* The thread goes on to its next step.
LEMMA NextStepFacts ==
  ASSUME PubInv, NEW name, AtStep(name), NextStep
  PROVE  /\ step' \in 1 .. 3 /\ writer' \in 0 .. MaxSeq
         /\ writer' # 0 => /\ writer' = writer
                           /\ step' = step + 1
                           /\ step' <= Len(Steps(Content[writer]))
<1>1. /\ writer \in 0 .. MaxSeq /\ MaxSeq \in Nat
      /\ step \in 1 .. 3 /\ step <= Len(Steps(Content[writer]))
      /\ Content[writer] \in Contents
  BY StepFacts, Constants DEF PubInv, PubTypes
<1> DEFINE last == Len(Steps(Content[writer]))
<1>2. last = IF Content[writer] = "other" THEN 2 ELSE 3
  BY <1>1, StepsFacts
<1>3. last \in 2 .. 3
  BY <1>2
<1>4. \/ step < last /\ step' = step + 1 /\ writer' = writer
      \/ step' = 1 /\ writer' = 0
  BY DEF NextStep
<1> HIDE DEF last
<1>5. step' \in 1 .. 3 /\ writer' \in 0 .. MaxSeq
  BY <1>1, <1>3, <1>4
<1>6. writer' # 0 => writer' = writer /\ step' = step + 1 /\ step' <= last
  BY <1>1, <1>3, <1>4
<1> QED
  BY <1>5, <1>6 DEF last

LEMMA PublishIInv == IInv /\ Publish => IInv'
<1> SUFFICES ASSUME IInv, Publish
             PROVE  IInv'
  OBVIOUS
<1>1. /\ writer' = seqNo + 1 /\ step' = 1 /\ seqNo < MaxSeq
      /\ UNCHANGED <<seqNo, store, provided, notify, vector, copied, net, subscriber, failures>>
  BY DEF Publish
<1>2. seqNo \in 0 .. MaxSeq /\ MaxSeq \in Nat /\ seqNo + 1 \in Numbers
  BY <1>1, Constants DEF IInv, PubInv, PubTypes, Numbers
<1>3. PubTypes'
  BY <1>1, <1>2 DEF IInv, PubInv, PubTypes, Numbers
<1>4. Writing'
  <2>1. Content[seqNo + 1] \in Contents
    BY <1>2, Constants
  <2>2. 1 <= Len(Steps(Content[seqNo + 1]))
    BY <2>1, StepsFacts
  <2> QED
    BY <1>1, <2>2 DEF Writing
<1>5. Announced'
  BY <1>1 DEF IInv, PubInv, Announced, subscriber
<1> QED
  BY <1>1, <1>3, <1>4, <1>5, SubscriberUnchanged DEF IInv, PubInv

LEMMA InsertDataIInv == IInv /\ InsertData => IInv'
<1> SUFFICES ASSUME IInv, InsertData
             PROVE  IInv'
  OBVIOUS
<1>1. /\ AtStep("store") /\ NextStep /\ store' = store \union {writer}
      /\ UNCHANGED <<seqNo, provided, notify, vector, copied, net, subscriber, failures>>
  BY DEF InsertData
<1>2. writer \in Numbers /\ step = 1 /\ writer = seqNo + 1
  BY <1>1, StepFacts DEF IInv
<1>3. PubTypes'
  BY <1>1, <1>2, NextStepFacts DEF IInv, PubInv, PubTypes
<1>4. Writing'
  BY <1>1, <1>2, NextStepFacts DEF IInv, Writing
<1>5. Announced'
  BY <1>1 DEF IInv, PubInv, Announced, subscriber
<1> QED
  BY <1>1, <1>3, <1>4, <1>5, SubscriberUnchanged DEF IInv, PubInv

LEMMA UpdateSeqNoIInv == IInv /\ UpdateSeqNo => IInv'
<1> SUFFICES ASSUME IInv, UpdateSeqNo
             PROVE  IInv'
  OBVIOUS
<1>1. /\ AtStep("announce") /\ NextStep /\ seqNo' = writer
      /\ UNCHANGED <<store, provided, notify, vector, copied, net, subscriber, failures>>
  BY DEF UpdateSeqNo
<1>2. /\ writer \in Numbers /\ seqNo \in Nat /\ Content[writer] \in Contents
      /\ step = IF Content[writer] = "segments" THEN 3 ELSE 2
      /\ writer = seqNo + 1 /\ writer \in store
  BY <1>1, StepFacts DEF IInv
<1>3. PubTypes'
  BY <1>1, <1>2, NextStepFacts, Constants DEF IInv, PubInv, PubTypes, Numbers
<1>4. Writing'
  <2> SUFFICES ASSUME writer' # 0
               PROVE  /\ step' <= Len(Steps(Content[writer']))
                      /\ writer' \in store'
                      /\ Content[writer'] = "packet" /\ step' = 3
                      /\ writer' = seqNo'
    BY DEF Writing
  <2>1. /\ writer' = writer /\ step' = step + 1
        /\ step' <= Len(Steps(Content[writer]))
    BY <1>1, NextStepFacts DEF IInv
  <2>2. Content[writer] = "packet"
    <3>1. Len(Steps(Content[writer])) = IF Content[writer] = "other" THEN 2 ELSE 3
      BY <1>2, StepsFacts
    <3> QED
      BY <1>2, <2>1, <3>1 DEF Contents
  <2> QED
    BY <1>1, <1>2, <2>1, <2>2
<1>5. Announced'
  <2>1. 1 .. seqNo' \subseteq store'
    BY <1>1, <1>2 DEF IInv, PubInv, Announced
  <2>2. /\ vector' # NoVector => vector' <= seqNo'
        /\ copied' # NoCopy => copied'.seq <= seqNo'
        /\ \A msg \in net' : msg.seq <= seqNo'
        /\ known' <= seqNo'
    <3>1. /\ vector # NoVector => vector \in Nat
          /\ copied # NoCopy => copied.seq \in Nat
          /\ \A msg \in net : msg.seq \in Nat
          /\ known \in Nat
      BY DEF IInv, PubInv, PubTypes, SubInv, SubTypes, SyncInterests
    <3>2. /\ vector' = vector /\ copied' = copied /\ net' = net /\ known' = known
          /\ NoCopy' = NoCopy /\ NoVector' = NoVector
      BY <1>1 DEF subscriber, NoCopy, NoVector
    <3>3. \A n \in Nat : n <= seqNo => n <= seqNo'
      BY <1>1, <1>2
    <3> QED
      BY <3>1, <3>2, <3>3 DEF IInv, PubInv, Announced
  <2> QED
    BY <2>1, <2>2 DEF Announced
<1> QED
  BY <1>1, <1>3, <1>4, <1>5, SubscriberUnchanged DEF IInv, PubInv

LEMMA InsertMappingIInv == IInv /\ InsertMapping => IInv'
<1> SUFFICES ASSUME IInv, InsertMapping
             PROVE  IInv'
  OBVIOUS
<1>1. /\ AtStep("map") /\ NextStep
      /\ notify' = notify \union {writer} /\ provided' = provided \union {writer}
      /\ UNCHANGED <<seqNo, store, vector, copied, net, subscriber, failures>>
  BY DEF InsertMapping
<1>2. /\ writer \in Numbers /\ Content[writer] \in Contents
      /\ step = IF Content[writer] = "packet" THEN 3 ELSE 2
      /\ writer = IF Content[writer] = "packet" /\ step = 3 THEN seqNo ELSE seqNo + 1
      /\ writer \in store
  BY <1>1, StepFacts DEF IInv
<1>3. PubTypes'
  BY <1>1, <1>2, NextStepFacts DEF IInv, PubInv, PubTypes
<1>4. Writing'
  <2> SUFFICES ASSUME writer' # 0
               PROVE  /\ step' <= Len(Steps(Content[writer']))
                      /\ writer' \in store'
                      /\ Content[writer'] # "packet"
                      /\ writer' = seqNo' + 1
    BY DEF Writing
  <2>1. /\ writer' = writer /\ step' = step + 1
        /\ step' <= Len(Steps(Content[writer]))
    BY <1>1, NextStepFacts DEF IInv
  <2>2. Content[writer] # "packet"
    <3>1. Len(Steps(Content[writer])) = IF Content[writer] = "other" THEN 2 ELSE 3
      BY <1>2, StepsFacts
    <3> QED
      BY <1>2, <2>1, <3>1
  <2> QED
    BY <1>1, <1>2, <2>1, <2>2
<1>5. Announced'
  BY <1>1 DEF IInv, PubInv, Announced, subscriber
<1> QED
  BY <1>1, <1>3, <1>4, <1>5, SubscriberUnchanged DEF IInv, PubInv

LEMMA BuildVectorIInv == IInv /\ BuildVector => IInv'
<1> SUFFICES ASSUME IInv, BuildVector
             PROVE  IInv'
  OBVIOUS
<1>1. /\ vector' = seqNo
      /\ UNCHANGED <<seqNo, writer, step, store, provided, notify, copied, net, subscriber,
                     failures>>
  BY DEF BuildVector
<1>2. seqNo \in 0 .. MaxSeq /\ seqNo <= seqNo
  BY Constants DEF IInv, PubInv, PubTypes
<1>3. PubTypes'
  BY <1>1, <1>2 DEF IInv, PubInv, PubTypes
<1>4. Writing'
  BY <1>1 DEF IInv, PubInv, Writing
<1>5. Announced'
  BY <1>1, <1>2 DEF IInv, PubInv, Announced, subscriber
<1> QED
  BY <1>1, <1>3, <1>4, <1>5, SubscriberUnchanged DEF IInv, PubInv

LEMMA CopyNotificationIInv == IInv /\ CopyNotification => IInv'
<1> SUFFICES ASSUME IInv, CopyNotification
             PROVE  IInv'
  OBVIOUS
<1>1. /\ vector # NoVector /\ copied' = [seq |-> vector, list |-> notify]
      /\ UNCHANGED <<seqNo, writer, step, store, provided, notify, vector, net, subscriber,
                     failures>>
  BY DEF CopyNotification
<1>2. vector \in 0 .. MaxSeq /\ vector <= seqNo /\ notify \subseteq Numbers
  BY <1>1 DEF IInv, PubInv, PubTypes, Announced
<1>3. PubTypes'
  BY <1>1, <1>2 DEF IInv, PubInv, PubTypes, SyncInterests
<1>4. Writing'
  BY <1>1 DEF IInv, PubInv, Writing
<1>5. Announced'
  BY <1>1, <1>2 DEF IInv, PubInv, Announced, subscriber
<1> QED
  BY <1>1, <1>3, <1>4, <1>5, SubscriberUnchanged DEF IInv, PubInv

LEMMA ClearNotificationIInv == IInv /\ ClearNotification => IInv'
<1> SUFFICES ASSUME IInv, ClearNotification
             PROVE  IInv'
  OBVIOUS
<1>1. /\ copied # NoCopy /\ notify' = {} /\ net' = net \union {copied}
      /\ vector' = NoVector /\ copied' = NoCopy
      /\ UNCHANGED <<seqNo, writer, step, store, provided, subscriber, failures>>
  BY DEF ClearNotification
<1>2. PubTypes'
  BY <1>1 DEF IInv, PubInv, PubTypes
<1>3. Writing'
  BY <1>1 DEF IInv, PubInv, Writing
<1>4. Announced'
  BY <1>1 DEF IInv, PubInv, Announced, subscriber
<1> QED
  BY <1>1, <1>2, <1>3, <1>4, SubscriberUnchanged DEF IInv, PubInv

\* Steps that leave the publishing node alone, and add nothing to what is under way.
LEMMA PublisherUnchanged ==
  ASSUME IInv, UNCHANGED publisher, net' \subseteq net, known' <= seqNo
  PROVE  PubInv'
<1>1. UNCHANGED <<seqNo, writer, step, store, provided, notify, vector, copied>>
  BY DEF publisher
<1>2. PubTypes'
  BY <1>1 DEF IInv, PubInv, PubTypes
<1>3. Writing' /\ Announced'
  BY <1>1 DEF IInv, PubInv, Writing, Announced
<1> QED
  BY <1>2, <1>3 DEF PubInv

LEMMA LoseIInv ==
  ASSUME IInv, NEW msg \in net, Lose(msg)
  PROVE  IInv'
<1>1. net' \subseteq net /\ UNCHANGED publisher /\ UNCHANGED <<subscriber, failures>>
  BY DEF Lose
<1>2. known' = known /\ known <= seqNo
  BY <1>1 DEF IInv, PubInv, Announced, subscriber
<1> QED
  BY <1>1, <1>2, PublisherUnchanged, SubscriberUnchanged DEF IInv

-----------------------------------------------------------------------------
(* The queue. *)

\* Subscriptions that neither wait for the publications they are paired with nor were
\* given them are appended, and what is not being fetched is.
LEMMA FetchAllKeeps ==
  ASSUME IInv, NEW pairs \in SUBSET (Subs \X Numbers),
         FetchAll(Push(pairs)),
         delivered' = delivered, broken \subseteq broken',
         known' \in Nat, known <= known',
         \A p \in Numbers : p <= known /\ Asked(queries', p) => Asked(queries, p),
         \A s \in Subs : \A p \in Numbers :
           <<s, p>> \in pairs =>
             /\ fetchMap[p][s] = 0 /\ delivered[s][p] = 0
             /\ p <= known' /\ p \in AsksFor[s]
             /\ s \in PrefixSubs => ~ Asked(queries', p)
  PROVE  QueueTypes' /\ QueueIsFetched' /\ Wanted' /\ Once'
<1> DEFINE map == Push(pairs)
           start == Waiting(map) \ fetching
<1>0. /\ fetchMap \in [Numbers -> [Subs -> Nat]] /\ fetching \subseteq Numbers
      /\ stage \in [Numbers -> {"none", "data", "segments", "elements", "failed"}]
      /\ Waiting(fetchMap) = fetching
      /\ \A p \in Numbers : p \in fetching <=> stage[p] # "none"
      /\ \A p \in Numbers : stage[p] = "failed" => p \in broken \/ Content[p] = "other"
      /\ delivered \in [Subs -> [Numbers -> Nat]]
      /\ known \in Nat
  BY DEF IInv, SubInv, SubTypes, QueueTypes, QueueIsFetched
<1>1. \A p \in Numbers : \A s \in Subs :
        /\ fetchMap[p][s] \in Nat /\ delivered[s][p] \in Nat
        /\ <<s, p>> \in pairs => map[p][s] = fetchMap[p][s] + 1
        /\ <<s, p>> \notin pairs => map[p][s] = fetchMap[p][s]
  BY <1>0 DEF Push
<1>2. map \in [Numbers -> [Subs -> Nat]]
  BY <1>0 DEF Push
<1>3. /\ fetchMap' = map
      /\ fetching' = fetching \union start
      /\ stage' = [p \in Numbers |-> IF p \in start THEN "data" ELSE stage[p]]
  BY DEF FetchAll
<1> HIDE DEF map
<1>4. fetching \subseteq Waiting(map) /\ start \subseteq Numbers
  <2>1. ASSUME NEW p \in Numbers, NEW s \in Subs, fetchMap[p][s] > 0
        PROVE  map[p][s] > 0
    <3>1. fetchMap[p][s] \in Nat
      BY <1>1
    <3>2. map[p][s] = fetchMap[p][s] + 1 \/ map[p][s] = fetchMap[p][s]
      BY <1>1
    <3> QED
      BY <2>1, <3>1, <3>2
  <2> QED
    BY <1>0, <2>1 DEF Waiting
<1>5. QueueTypes'
  BY <1>0, <1>2, <1>3, <1>4 DEF QueueTypes
<1>6. QueueIsFetched'
  <2>1. Waiting(fetchMap') = fetching'
    BY <1>3, <1>4
  <2>2. \A p \in Numbers :
          /\ p \in fetching' <=> stage'[p] # "none"
          /\ stage'[p] = "failed" => p \in broken' \/ Content[p] = "other"
    BY <1>0, <1>3
  <2> QED
    BY <2>1, <2>2 DEF QueueIsFetched, Waiting
<1>7. Wanted'
  <2> SUFFICES ASSUME NEW p \in Numbers, NEW s \in Subs,
                      fetchMap'[p][s] > 0 \/ delivered'[s][p] > 0
               PROVE  /\ p <= known' /\ p \in AsksFor[s]
                      /\ s \in PrefixSubs => ~ Asked(queries', p)
    BY DEF Wanted
  <2>1. CASE <<s, p>> \in pairs
    BY <2>1
  <2>2. CASE <<s, p>> \notin pairs
    <3>1. fetchMap[p][s] > 0 \/ delivered[s][p] > 0
      BY <1>0, <1>1, <1>3, <2>2
    <3>2. p <= known /\ p \in AsksFor[s] /\ (s \in PrefixSubs => ~ Asked(queries, p))
      BY <3>1 DEF IInv, SubInv, Wanted
    <3>3. p \in Nat
      BY Constants
    <3> QED
      BY <1>0, <3>2, <3>3
  <2> QED
    BY <2>1, <2>2
<1>8. Once'
  <2> SUFFICES ASSUME NEW p \in Numbers, NEW s \in Subs
               PROVE  /\ fetchMap'[p][s] <= 1 /\ delivered'[s][p] <= 1
                      /\ fetchMap'[p][s] > 0 /\ delivered'[s][p] > 0
                           => s \in PacketSubs /\ stage'[p] \in {"segments", "elements"}
    BY DEF Once
  <2>1. CASE <<s, p>> \in pairs
    BY <1>0, <1>1, <1>3, <2>1
  <2>2. CASE <<s, p>> \notin pairs
    <3>1. fetchMap'[p][s] = fetchMap[p][s] /\ delivered'[s][p] = delivered[s][p]
      BY <1>0, <1>1, <1>3, <2>2
    <3>2. /\ fetchMap[p][s] <= 1 /\ delivered[s][p] <= 1
          /\ fetchMap[p][s] > 0 /\ delivered[s][p] > 0
               => s \in PacketSubs /\ stage[p] \in {"segments", "elements"}
      BY DEF IInv, SubInv, Once
    <3>3. fetchMap[p][s] > 0 => p \in fetching
      BY <1>0 DEF Waiting
    <3>4. p \in fetching => stage'[p] = stage[p]
      BY <1>3
    <3> QED
      BY <3>1, <3>2, <3>3, <3>4
  <2> QED
    BY <2>1, <2>2
<1> QED
  BY <1>5, <1>6, <1>7, <1>8

\* Steps that leave the queue and the queries alone.
LEMMA QueueUnchanged ==
  ASSUME SubInv, UNCHANGED <<known, queries, queue, delivered>>, broken \subseteq broken'
  PROVE  QueueTypes' /\ QueueIsFetched' /\ Disjoint' /\ Wanted' /\ Once'
<1>1. UNCHANGED <<known, queries, fetchMap, fetching, stage, delivered>>
  BY DEF queue
<1>2. QueueTypes' /\ QueueIsFetched'
  BY <1>1 DEF SubInv, QueueTypes, QueueIsFetched, Waiting
<1>3. Disjoint' /\ Wanted' /\ Once'
  BY <1>1 DEF SubInv, Disjoint, Wanted, Once
<1> QED
  BY <1>2, <1>3

LEMMA StatusIInv ==
  ASSUME IInv, NEW s \in Subs, Subscribe(s) \/ Unsubscribe(s)
  PROVE  IInv'
<1>1. /\ status' \in [Subs -> {"new", "on", "off"}]
      /\ UNCHANGED <<publisher, net, known, mappings, queries, queue, delivered, due, failures>>
  <2>1. status \in [Subs -> {"new", "on", "off"}]
    BY DEF IInv, SubInv, SubTypes
  <2> QED
    BY <2>1 DEF Subscribe, Unsubscribe
<1>2. SubTypes'
  BY <1>1 DEF IInv, SubInv, SubTypes, failures
<1>3. known' <= seqNo
  BY <1>1 DEF IInv, PubInv, Announced
<1>4. PubInv'
  BY <1>1, <1>3, PublisherUnchanged
<1> QED
  BY <1>1, <1>2, <1>4, QueueUnchanged DEF IInv, SubInv, failures

\* Nobody waits for a number that is not known yet, or whose mapping is asked for.
LEMMA Untouched ==
  ASSUME IInv, NEW p \in Numbers, NEW s \in Subs,
         p > known \/ (s \in PrefixSubs /\ Asked(queries, p))
  PROVE  fetchMap[p][s] = 0 /\ delivered[s][p] = 0
<1>1. fetchMap[p][s] \in Nat /\ delivered[s][p] \in Nat /\ known \in Nat /\ p \in Nat
  BY Constants DEF IInv, SubInv, SubTypes, QueueTypes
<1>2. ~ (fetchMap[p][s] > 0 \/ delivered[s][p] > 0)
  BY <1>1 DEF IInv, SubInv, Wanted
<1> QED
  BY <1>1, <1>2

\* A Sync Interest with new numbers.
LEMMA NewNumbers ==
  ASSUME IInv, NEW msg \in net, OnSyncInterest(msg), known < msg.seq
  PROVE  SubInv'
<1> DEFINE range == known + 1 .. msg.seq
           m == mappings \union msg.list
           unknown == IF On(PrefixSubs) = {} THEN msg.seq + 1
                                             ELSE FirstUnknown(known + 1, msg.seq, m)
           asked == Queries(unknown, msg.seq)
<1>0. /\ known \in Nat /\ known \in 0 .. MaxSeq /\ MaxSeq \in Nat
      /\ msg.seq \in 0 .. MaxSeq /\ msg.seq \in Nat /\ msg.list \subseteq Numbers
      /\ mappings \subseteq Numbers /\ due \subseteq Subs \X Numbers
  <2>1. msg \in SyncInterests
    BY DEF IInv, PubInv, PubTypes
  <2> QED
    BY <2>1, Constants DEF IInv, SubInv, SubTypes, SyncInterests
<1>1. range # {} /\ range \subseteq Numbers /\ \A p \in range : p > known /\ p <= msg.seq
  BY <1>0 DEF Numbers
<1>2. PICK old \in SUBSET MayBeOld :
        FetchAll(Push((On(ProducerSubs) \X range)
                        \union ProcessMapping((known + 1 .. unknown - 1) \ old)))
  BY <1>1 DEF OnSyncInterest
<1>3. /\ known' = msg.seq
      /\ queries' = queries \union asked
      /\ mappings' = m
      /\ due' = due \union (On(ProducerSubs) \X range)
                    \union {pair \in On(PrefixSubs) \X range : pair[2] \in Covers[pair[1]]}
      /\ UNCHANGED <<publisher, status, delivered, failures>>
  BY <1>1 DEF OnSyncInterest
<1> DEFINE pairs == (On(ProducerSubs) \X range)
                      \union ProcessMapping((known + 1 .. unknown - 1) \ old)
<1>4. unknown \in Nat /\ known < unknown /\ unknown <= msg.seq + 1
  <2>1. FirstUnknown(known + 1, msg.seq, m) \in known + 1 .. msg.seq + 1
    BY <1>0, FirstUnknownFacts
  <2> QED
    BY <1>0, <2>1
<1> HIDE DEF unknown, m
<1>5. /\ asked \subseteq [low : Numbers, high : Numbers]
      /\ \A q \in asked :
           q.low \in Nat /\ q.high \in Nat /\ unknown <= q.low /\ q.high <= msg.seq
      /\ \A q, r \in asked : q # r => Range(q) \intersect Range(r) = {}
  <2>1. unknown > 0
    BY <1>0, <1>4
  <2> QED
    BY <1>0, <1>4, <2>1, QueriesFacts
<1>6. /\ queries \subseteq [low : Numbers, high : Numbers]
      /\ \A q \in queries : q.low \in Nat /\ q.high \in Nat /\ q.high <= known
      /\ \A q, r \in queries : q # r => Range(q) \intersect Range(r) = {}
  BY Constants DEF IInv, SubInv, Disjoint
<1> HIDE DEF asked
<1>7. Disjoint'
  <2>1. \A q \in queries' : q \in [low : Numbers, high : Numbers] /\ q.high <= known'
    BY <1>0, <1>3, <1>5, <1>6
  <2>2. \A q \in queries : \A r \in asked : Range(q) \intersect Range(r) = {}
    BY <1>0, <1>4, <1>5, <1>6 DEF Range
  <2>3. ASSUME NEW q \in queries', NEW r \in queries', q # r
        PROVE  Range(q) \intersect Range(r) = {}
    BY <1>3, <1>5, <1>6, <2>2, <2>3
  <2> QED
    BY <2>1, <2>3 DEF Disjoint
<1>8. /\ \A p \in Numbers : p <= known /\ Asked(queries', p) => Asked(queries, p)
      /\ \A p \in Numbers : p > known /\ p < unknown => ~ Asked(queries', p)
  BY <1>0, <1>3, <1>4, <1>5, <1>6, Constants DEF Asked, Range
<1>9. On(ProducerSubs) \subseteq ProducerSubs /\ On(PrefixSubs) \subseteq PrefixSubs
  BY DEF On
<1>10. pairs \in SUBSET (Subs \X Numbers)
  <2>1. known + 1 .. unknown - 1 \subseteq Numbers
    BY <1>0, <1>4 DEF Numbers
  <2> QED
    BY <1>1, <1>9, <2>1 DEF Subs, ProcessMapping
<1>11. ASSUME NEW s \in Subs, NEW p \in Numbers, <<s, p>> \in pairs
       PROVE  /\ fetchMap[p][s] = 0 /\ delivered[s][p] = 0
              /\ p <= known' /\ p \in AsksFor[s]
              /\ s \in PrefixSubs => ~ Asked(queries', p)
  <2>1. \/ s \in ProducerSubs /\ p \in range
        \/ /\ s \in PrefixSubs /\ p \in Covers[s]
           /\ p \in known + 1 .. unknown - 1
    BY <1>9, <1>11 DEF ProcessMapping
  <2>2. p \in Nat /\ p > known /\ p <= msg.seq
    BY <1>0, <1>4, <2>1, Constants
  <2>3. fetchMap[p][s] = 0 /\ delivered[s][p] = 0
    BY <2>2, Untouched
  <2>4. p \in AsksFor[s]
    BY <2>1, PubSubAssumption DEF AsksFor
  <2>5. s \in PrefixSubs => ~ Asked(queries', p)
    <3>1. s \in PrefixSubs => p < unknown
      BY <1>0, <1>4, <2>1, PubSubAssumption
    <3> QED
      BY <1>8, <2>2, <3>1
  <2> QED
    BY <1>3, <2>2, <2>3, <2>4, <2>5
<1>12. FetchAll(Push(pairs))
  BY <1>2 DEF unknown, m
<1> HIDE DEF pairs
<1>13. QueueTypes' /\ QueueIsFetched' /\ Wanted' /\ Once'
  <2>1. /\ known' \in Nat /\ known <= known' /\ delivered' = delivered
        /\ broken \subseteq broken'
    BY <1>0, <1>3 DEF failures
  <2> QED
    BY <1>8, <1>10, <1>11, <1>12, <2>1, FetchAllKeeps
<1>14. SubTypes'
  <2>1. due' \subseteq Subs \X Numbers
    BY <1>0, <1>1, <1>3, <1>9 DEF Subs
  <2>2. mappings' \subseteq Numbers
    BY <1>0, <1>3 DEF m
  <2> QED
    BY <1>0, <1>3, <2>1, <2>2 DEF IInv, SubInv, SubTypes, failures
<1> QED
  BY <1>7, <1>13, <1>14 DEF SubInv

LEMMA OnSyncInterestIInv ==
  ASSUME IInv, NEW msg \in net, OnSyncInterest(msg)
  PROVE  IInv'
<1>0. /\ msg \in SyncInterests /\ msg.seq <= seqNo
      /\ known \in Nat /\ known <= seqNo /\ MaxSeq \in Nat
      /\ mappings \subseteq Numbers
  BY Constants DEF IInv, PubInv, PubTypes, Announced, SubInv, SubTypes
<1>1. msg.seq \in Nat /\ msg.list \subseteq Numbers
  BY <1>0 DEF SyncInterests
<1>2. UNCHANGED publisher /\ net' \subseteq net
  BY DEF OnSyncInterest
<1>3. CASE known < msg.seq
  <2>1. known' = msg.seq
    <3>1. known + 1 .. msg.seq # {}
      BY <1>0, <1>1, <1>3
    <3> QED
      BY <3>1 DEF OnSyncInterest
  <2> QED
    BY <1>0, <1>2, <1>3, <2>1, NewNumbers, PublisherUnchanged DEF IInv
<1>4. CASE ~ (known < msg.seq)
  <2>1. known + 1 .. msg.seq = {}
    BY <1>0, <1>1, <1>4
  <2>2. /\ mappings' = mappings \union msg.list
        /\ UNCHANGED <<known, queries, queue, due, status, delivered, failures>>
    BY <2>1 DEF OnSyncInterest
  <2>3. SubTypes'
    BY <1>0, <1>1, <2>2 DEF IInv, SubInv, SubTypes, failures
  <2>4. PubInv'
    BY <1>0, <1>2, <2>2, PublisherUnchanged
  <2> QED
    BY <2>2, <2>3, <2>4, QueueUnchanged DEF IInv, SubInv, failures
<1> QED
  BY <1>3, <1>4

LEMMA OnMappingAnswerIInv ==
  ASSUME IInv, NEW q \in queries, OnMappingAnswer(q)
  PROVE  IInv'
<1> DEFINE pairs(old) == ProcessMapping(Range(q) \ old)
<1>1. /\ queries' = queries \ {q}
      /\ mappings' = mappings \union Range(q)
      /\ UNCHANGED <<publisher, net, status, known, delivered, due, failures>>
  BY DEF OnMappingAnswer, Range
<1>2. PICK old \in SUBSET MayBeOld : FetchAll(Push(pairs(old)))
  BY DEF OnMappingAnswer, Range
<1>3. /\ queries \subseteq [low : Numbers, high : Numbers]
      /\ q.low \in Numbers /\ q.high \in Numbers /\ q.high <= known
      /\ known \in Nat /\ known \in 0 .. MaxSeq /\ known <= seqNo
      /\ \A r \in queries : q # r => Range(q) \intersect Range(r) = {}
  BY Constants DEF IInv, PubInv, Announced, SubInv, SubTypes, Disjoint
<1>4. Range(q) \subseteq Numbers /\ \A p \in Range(q) : p <= known
  BY <1>3, Constants DEF Range, Numbers
<1>5. pairs(old) \in SUBSET (Subs \X Numbers)
  BY <1>4 DEF ProcessMapping, On, Subs
<1>6. /\ \A p \in Range(q) : Asked(queries, p) /\ ~ Asked(queries', p)
      /\ \A p \in Numbers : Asked(queries', p) => Asked(queries, p)
  BY <1>1, <1>3 DEF Asked
<1>7. ASSUME NEW s \in Subs, NEW p \in Numbers, <<s, p>> \in pairs(old)
      PROVE  /\ fetchMap[p][s] = 0 /\ delivered[s][p] = 0
             /\ p <= known' /\ p \in AsksFor[s]
             /\ s \in PrefixSubs => ~ Asked(queries', p)
  <2>1. s \in PrefixSubs /\ p \in Range(q) /\ p \in Covers[s]
    BY <1>7 DEF ProcessMapping, On
  <2>2. fetchMap[p][s] = 0 /\ delivered[s][p] = 0
    BY <1>6, <2>1, Untouched
  <2> QED
    BY <1>1, <1>4, <1>6, <2>1, <2>2 DEF AsksFor
<1> HIDE DEF pairs
<1>8. QueueTypes' /\ QueueIsFetched' /\ Wanted' /\ Once'
  <2>1. /\ known' \in Nat /\ known <= known' /\ delivered' = delivered
        /\ broken \subseteq broken'
    BY <1>1, <1>3 DEF failures
  <2> QED
    BY <1>2, <1>5, <1>6, <1>7, <2>1, FetchAllKeeps
<1>9. Disjoint'
  BY <1>1 DEF IInv, SubInv, Disjoint
<1>10. SubTypes'
  BY <1>1, <1>4 DEF IInv, SubInv, SubTypes, failures
<1>11. PubInv'
  BY <1>1, <1>3, PublisherUnchanged
<1> QED
  BY <1>8, <1>9, <1>10, <1>11 DEF IInv, SubInv

-----------------------------------------------------------------------------
(* Data and failures. *)

\* The fetch of p comes to its end, and the subscriptions in S are called.
LEMMA CleanUpKeeps ==
  ASSUME IInv, NEW p \in Numbers, NEW S \in SUBSET Subs,
         CleanUpFetch(p), Call(p, S),
         \A s \in S : ~ (fetchMap[p][s] > 0 /\ delivered[s][p] > 0),
         known' = known, queries' \subseteq queries, broken \subseteq broken'
  PROVE  /\ QueueTypes' /\ QueueIsFetched' /\ Wanted' /\ Once'
         /\ delivered' \in [Subs -> [Numbers -> Nat]]
<1>0. /\ fetchMap \in [Numbers -> [Subs -> Nat]] /\ fetching \subseteq Numbers
      /\ stage \in [Numbers -> {"none", "data", "segments", "elements", "failed"}]
      /\ Waiting(fetchMap) = fetching
      /\ \A n \in Numbers : n \in fetching <=> stage[n] # "none"
      /\ \A n \in Numbers : stage[n] = "failed" => n \in broken \/ Content[n] = "other"
      /\ delivered \in [Subs -> [Numbers -> Nat]]
  BY DEF IInv, SubInv, SubTypes, QueueTypes, QueueIsFetched
<1>1. /\ fetchMap' = [fetchMap EXCEPT ![p] = [s \in Subs |-> 0]]
      /\ fetching' = fetching \ {p}
      /\ stage' = [stage EXCEPT ![p] = "none"]
  BY DEF CleanUpFetch
<1>2. delivered' = [s \in Subs |->
                     [delivered[s] EXCEPT ![p] = IF s \in S THEN @ + fetchMap[p][s] ELSE @]]
  BY DEF Call
<1>3. QueueTypes'
  BY <1>0, <1>1 DEF QueueTypes
<1>4. QueueIsFetched'
  <2>1. Waiting(fetchMap') = fetching'
    BY <1>0, <1>1 DEF Waiting
  <2>2. \A n \in Numbers :
          /\ n \in fetching' <=> stage'[n] # "none"
          /\ stage'[n] = "failed" => n \in broken' \/ Content[n] = "other"
    BY <1>0, <1>1
  <2> QED
    BY <2>1, <2>2 DEF QueueIsFetched, Waiting
<1>5. delivered' \in [Subs -> [Numbers -> Nat]]
  <2>1. \A s \in Subs : fetchMap[p][s] \in Nat /\ delivered[s][p] \in Nat
    BY <1>0
  <2>2. \A s \in Subs : (IF s \in S THEN delivered[s][p] + fetchMap[p][s]
                                     ELSE delivered[s][p]) \in Nat
    BY <2>1
  <2> QED
    BY <1>0, <1>2, <2>2
<1>6. \A n \in Numbers : \A s \in Subs :
        /\ fetchMap[n][s] \in Nat /\ delivered[s][n] \in Nat
        /\ fetchMap'[n][s] = IF n = p THEN 0 ELSE fetchMap[n][s]
        /\ delivered'[s][n] = IF n = p /\ s \in S THEN delivered[s][n] + fetchMap[n][s]
                                                   ELSE delivered[s][n]
        /\ n # p => stage'[n] = stage[n]
  BY <1>0, <1>1, <1>2
<1>7. Wanted'
  <2> SUFFICES ASSUME NEW n \in Numbers, NEW s \in Subs,
                      fetchMap'[n][s] > 0 \/ delivered'[s][n] > 0
               PROVE  /\ n <= known' /\ n \in AsksFor[s]
                      /\ s \in PrefixSubs => ~ Asked(queries', n)
    BY DEF Wanted
  <2>1. fetchMap[n][s] > 0 \/ delivered[s][n] > 0
    BY <1>6
  <2>2. n <= known /\ n \in AsksFor[s] /\ (s \in PrefixSubs => ~ Asked(queries, n))
    BY <2>1 DEF IInv, SubInv, Wanted
  <2> QED
    BY <2>2 DEF Asked
<1>8. Once'
  <2> SUFFICES ASSUME NEW n \in Numbers, NEW s \in Subs
               PROVE  /\ fetchMap'[n][s] <= 1 /\ delivered'[s][n] <= 1
                      /\ fetchMap'[n][s] > 0 /\ delivered'[s][n] > 0
                           => s \in PacketSubs /\ stage'[n] \in {"segments", "elements"}
    BY DEF Once
  <2>1. /\ fetchMap[n][s] <= 1 /\ delivered[s][n] <= 1
        /\ fetchMap[n][s] > 0 /\ delivered[s][n] > 0
             => s \in PacketSubs /\ stage[n] \in {"segments", "elements"}
    BY DEF IInv, SubInv, Once
  <2>2. CASE n = p /\ s \in S
    BY <1>6, <2>1, <2>2
  <2>3. CASE ~ (n = p /\ s \in S)
    BY <1>6, <2>1, <2>3
  <2> QED
    BY <2>2, <2>3
<1> QED
  BY <1>3, <1>4, <1>5, <1>7, <1>8

\* The fetch of p goes on, or stops without leaving the queue.
LEMMA StageKeeps ==
  ASSUME IInv, NEW p \in Numbers, stage[p] # "none",
         NEW x \in {"data", "segments", "elements", "failed"},
         stage[p] \in {"segments", "elements"} => x \in {"segments", "elements"},
         x = "failed" => p \in broken' \/ Content[p] = "other",
         stage' = [stage EXCEPT ![p] = x], broken \subseteq broken',
         UNCHANGED <<known, queries, fetchMap, fetching, delivered>>
  PROVE  QueueTypes' /\ QueueIsFetched' /\ Disjoint' /\ Wanted' /\ Once'
<1>1. stage \in [Numbers -> {"none", "data", "segments", "elements", "failed"}]
  BY DEF IInv, SubInv, QueueTypes
<1>2. QueueTypes'
  BY <1>1 DEF IInv, SubInv, QueueTypes
<1>3. QueueIsFetched'
  BY <1>1 DEF IInv, SubInv, QueueIsFetched, Waiting
<1>4. Disjoint' /\ Wanted'
  BY DEF IInv, SubInv, Disjoint, Wanted
<1>5. Once'
  BY <1>1 DEF IInv, SubInv, Once
<1> QED
  BY <1>2, <1>3, <1>4, <1>5

\* At the first segment the packet subscriptions are called.
LEMMA FirstSegmentKeeps ==
  ASSUME IInv, NEW p \in Numbers, stage[p] = "data",
         Call(p, PacketSubs), stage' = [stage EXCEPT ![p] = "segments"],
         UNCHANGED <<known, queries, fetchMap, fetching, broken>>
  PROVE  /\ QueueTypes' /\ QueueIsFetched' /\ Wanted' /\ Once'
         /\ delivered' \in [Subs -> [Numbers -> Nat]]
<1>0. /\ fetchMap \in [Numbers -> [Subs -> Nat]]
      /\ stage \in [Numbers -> {"none", "data", "segments", "elements", "failed"}]
      /\ delivered \in [Subs -> [Numbers -> Nat]]
  BY DEF IInv, SubInv, SubTypes, QueueTypes
<1>1. delivered' = [s \in Subs |->
                     [delivered[s] EXCEPT ![p] =
                       IF s \in PacketSubs THEN @ + fetchMap[p][s] ELSE @]]
  BY DEF Call
<1>2. QueueTypes' /\ QueueIsFetched'
  BY <1>0 DEF IInv, SubInv, QueueTypes, QueueIsFetched, Waiting
<1>3. delivered' \in [Subs -> [Numbers -> Nat]]
  <2>1. \A s \in Subs : fetchMap[p][s] \in Nat /\ delivered[s][p] \in Nat
    BY <1>0
  <2>2. \A s \in Subs : (IF s \in PacketSubs THEN delivered[s][p] + fetchMap[p][s]
                                              ELSE delivered[s][p]) \in Nat
    BY <2>1
  <2> QED
    BY <1>0, <1>1, <2>2
<1>4. \A n \in Numbers : \A s \in Subs :
        /\ fetchMap[n][s] \in Nat /\ delivered[s][n] \in Nat
        /\ delivered'[s][n] = IF n = p /\ s \in PacketSubs
                                THEN delivered[s][n] + fetchMap[n][s]
                                ELSE delivered[s][n]
        /\ stage'[n] = IF n = p THEN "segments" ELSE stage[n]
  BY <1>0, <1>1
<1>5. Wanted'
  <2> SUFFICES ASSUME NEW n \in Numbers, NEW s \in Subs,
                      fetchMap'[n][s] > 0 \/ delivered'[s][n] > 0
               PROVE  /\ n <= known' /\ n \in AsksFor[s]
                      /\ s \in PrefixSubs => ~ Asked(queries', n)
    BY DEF Wanted
  <2>1. fetchMap[n][s] > 0 \/ delivered[s][n] > 0
    BY <1>4
  <2> QED
    BY <2>1 DEF IInv, SubInv, Wanted
<1>6. Once'
  <2> SUFFICES ASSUME NEW n \in Numbers, NEW s \in Subs
               PROVE  /\ fetchMap[n][s] <= 1 /\ delivered'[s][n] <= 1
                      /\ fetchMap[n][s] > 0 /\ delivered'[s][n] > 0
                           => s \in PacketSubs /\ stage'[n] \in {"segments", "elements"}
    BY DEF Once
  <2>1. /\ fetchMap[n][s] <= 1 /\ delivered[s][n] <= 1
        /\ fetchMap[n][s] > 0 /\ delivered[s][n] > 0
             => s \in PacketSubs /\ stage[n] \in {"segments", "elements"}
    BY DEF IInv, SubInv, Once
  <2>2. CASE n = p /\ s \in PacketSubs
    BY <1>4, <2>1, <2>2
  <2>3. CASE ~ (n = p /\ s \in PacketSubs)
    BY <1>4, <2>1, <2>3
  <2> QED
    BY <2>2, <2>3
<1> QED
  BY <1>2, <1>3, <1>5, <1>6

\* Nobody was given a publication whose fetch has not come to the segments.
LEMMA NotYetGiven ==
  ASSUME IInv, NEW p \in Numbers, NEW s \in Subs,
         stage[p] \notin {"segments", "elements"} \/ s \notin PacketSubs
  PROVE  ~ (fetchMap[p][s] > 0 /\ delivered[s][p] > 0)
BY DEF IInv, SubInv, Once

\* What failed so far is kept, and counted.
FailuresGrow ==
  faults' \in 0 .. MaxFaults /\ broken \subseteq broken' /\ broken' \subseteq Numbers

LEMMA NothingFails ==
  ASSUME IInv, UNCHANGED failures
  PROVE  FailuresGrow /\ broken' = broken
BY DEF IInv, SubInv, SubTypes, failures, FailuresGrow

\* A step that calls the subscriptions in S and ends the fetch of p.
LEMMA EndOfFetch ==
  ASSUME IInv, NEW p \in Numbers, NEW S \in SUBSET Subs,
         CleanUpFetch(p), Call(p, S), FailuresGrow,
         \A s \in S : ~ (fetchMap[p][s] > 0 /\ delivered[s][p] > 0),
         UNCHANGED <<publisher, net, status, known, mappings, queries, due>>
  PROVE  IInv'
<1>1. /\ QueueTypes' /\ QueueIsFetched' /\ Wanted' /\ Once'
      /\ delivered' \in [Subs -> [Numbers -> Nat]]
  BY CleanUpKeeps DEF FailuresGrow
<1>2. SubTypes'
  BY <1>1 DEF IInv, SubInv, SubTypes, FailuresGrow
<1>3. Disjoint'
  BY DEF IInv, SubInv, Disjoint
<1>4. PubInv'
  BY PublisherUnchanged DEF IInv, PubInv, Announced
<1> QED
  BY <1>1, <1>2, <1>3, <1>4 DEF IInv, SubInv

\* A step of the fetch of p that calls nobody and does not end it.
LEMMA FetchGoesOn ==
  ASSUME IInv, NEW p \in Numbers, stage[p] # "none",
         NEW x \in {"data", "segments", "elements", "failed"},
         stage[p] \in {"segments", "elements"} => x \in {"segments", "elements"},
         x = "failed" => p \in broken' \/ Content[p] = "other",
         stage' = [stage EXCEPT ![p] = x], FailuresGrow,
         UNCHANGED <<publisher, net, status, known, mappings, queries, fetchMap, fetching,
                     delivered, due>>
  PROVE  IInv'
<1>1. QueueTypes' /\ QueueIsFetched' /\ Disjoint' /\ Wanted' /\ Once'
  BY StageKeeps DEF FailuresGrow
<1>2. SubTypes'
  BY DEF IInv, SubInv, SubTypes, FailuresGrow
<1>3. PubInv'
  BY PublisherUnchanged DEF IInv, PubInv, Announced
<1> QED
  BY <1>1, <1>2, <1>3 DEF IInv, SubInv

LEMMA OnDataIInv ==
  ASSUME IInv, NEW p \in Numbers, OnData(p)
  PROVE  IInv'
<1>0. /\ UNCHANGED failures /\ FailuresGrow /\ broken' = broken
      /\ PacketSubs \subseteq Subs
  <2>1. UNCHANGED failures
    BY DEF OnData, OnOtherData, OnPacket, OnFirstSegment, OnComplete, SendFinalBuffer
  <2> QED
    BY <2>1, NothingFails, PubSubAssumption
<1>1. CASE OnOtherData(p)
  BY <1>0, <1>1, FetchGoesOn DEF OnOtherData
<1>2. CASE OnPacket(p)
  <2>1. \A s \in Subs : ~ (fetchMap[p][s] > 0 /\ delivered[s][p] > 0)
    BY <1>2, NotYetGiven DEF OnPacket
  <2>2. Subs \in SUBSET Subs
    OBVIOUS
  <2>3. /\ CleanUpFetch(p) /\ Call(p, Subs) /\ FailuresGrow
        /\ UNCHANGED <<publisher, net, status, known, mappings, queries, due>>
    BY <1>0, <1>2 DEF OnPacket
  <2> QED
    BY <2>1, <2>2, <2>3, EndOfFetch
<1>3. CASE OnFirstSegment(p)
  <2>1. /\ stage[p] = "data" /\ Call(p, PacketSubs) /\ FailuresGrow /\ broken' = broken
        /\ UNCHANGED <<publisher, net, status, known, mappings, queries, due>>
    BY <1>0, <1>3 DEF OnFirstSegment
  <2>2. CASE HasBlobSubscriptions(p)
    <3>1. /\ stage' = [stage EXCEPT ![p] = "segments"]
          /\ UNCHANGED <<fetchMap, fetching>>
      BY <1>3, <2>2 DEF OnFirstSegment
    <3>2. /\ QueueTypes' /\ QueueIsFetched' /\ Wanted' /\ Once'
          /\ delivered' \in [Subs -> [Numbers -> Nat]]
      BY <2>1, <3>1, FirstSegmentKeeps
    <3>3. SubTypes'
      BY <2>1, <3>2 DEF IInv, SubInv, SubTypes, FailuresGrow
    <3>4. Disjoint'
      BY <2>1 DEF IInv, SubInv, Disjoint
    <3>5. PubInv'
      BY <2>1, PublisherUnchanged DEF IInv, PubInv, Announced
    <3> QED
      BY <3>2, <3>3, <3>4, <3>5 DEF IInv, SubInv
  <2>3. CASE ~ HasBlobSubscriptions(p)
    <3>1. CleanUpFetch(p)
      BY <1>3, <2>3 DEF OnFirstSegment
    <3>2. \A s \in PacketSubs : ~ (fetchMap[p][s] > 0 /\ delivered[s][p] > 0)
      BY <1>0, <2>1, NotYetGiven
    <3>3. PacketSubs \in SUBSET Subs
      BY <1>0
    <3> QED
      BY <2>1, <3>1, <3>2, <3>3, EndOfFetch
  <2> QED
    BY <2>2, <2>3
<1>4. CASE OnComplete(p)
  BY <1>0, <1>4, FetchGoesOn DEF OnComplete
<1>5. CASE SendFinalBuffer(p)
  <2>1. /\ CleanUpFetch(p) /\ Call(p, Subs \ PacketSubs) /\ FailuresGrow
        /\ UNCHANGED <<publisher, net, status, known, mappings, queries, due>>
    BY <1>0, <1>5 DEF SendFinalBuffer
  <2>2. \A s \in Subs \ PacketSubs : ~ (fetchMap[p][s] > 0 /\ delivered[s][p] > 0)
    BY NotYetGiven
  <2>3. Subs \ PacketSubs \in SUBSET Subs
    OBVIOUS
  <2> QED
    BY <2>1, <2>2, <2>3, EndOfFetch
<1> QED
  BY <1>1, <1>2, <1>3, <1>4, <1>5 DEF OnData

LEMMA FailureIInv ==
  ASSUME IInv, NEW p \in Numbers, FetchFails(p) \/ SegmentsFail(p)
  PROVE  IInv'
<1>0. /\ faults \in 0 .. MaxFaults /\ MaxFaults \in Nat /\ broken \subseteq Numbers
      /\ delivered \in [Subs -> [Numbers -> Nat]]
  BY Constants DEF IInv, SubInv, SubTypes
<1>1. FailuresGrow /\ p \in broken'
  BY <1>0 DEF FetchFails, SegmentsFail, FailuresGrow
<1>2. CASE FetchFails(p)
  BY <1>1, <1>2, FetchGoesOn DEF FetchFails
<1>3. CASE SegmentsFail(p)
  <2>1. /\ CleanUpFetch(p) /\ delivered' = delivered
        /\ UNCHANGED <<publisher, net, status, known, mappings, queries, due>>
    BY <1>3 DEF SegmentsFail
  <2>2. Call(p, {})
    BY <1>0, <2>1 DEF Call
  <2>3. {} \in SUBSET Subs /\ \A s \in {} : ~ (fetchMap[p][s] > 0 /\ delivered[s][p] > 0)
    OBVIOUS
  <2> QED
    BY <1>1, <2>1, <2>2, <2>3, EndOfFetch
<1> QED
  BY <1>2, <1>3

LEMMA MappingFailsIInv ==
  ASSUME IInv, NEW q \in queries, MappingFails(q)
  PROVE  IInv'
<1>1. /\ queries' = queries \ {q} /\ faults' = faults + 1 /\ faults < MaxFaults
      /\ broken' = broken \union (q.low .. q.high)
      /\ UNCHANGED <<publisher, net, status, known, mappings, queue, delivered, due>>
  BY DEF MappingFails
<1>2. FailuresGrow
  <2>1. q.low .. q.high \subseteq Numbers
    <3>1. q.low \in Numbers /\ q.high \in Numbers
      BY DEF IInv, SubInv, Disjoint
    <3> QED
      BY <3>1, Constants DEF Numbers
  <2>2. faults \in 0 .. MaxFaults /\ broken \subseteq Numbers /\ MaxFaults \in Nat
    BY Constants DEF IInv, SubInv, SubTypes
  <2>3. faults' \in 0 .. MaxFaults
    BY <1>1, <2>2
  <2> QED
    BY <1>1, <2>1, <2>2, <2>3 DEF FailuresGrow
<1>3. SubTypes'
  BY <1>1, <1>2 DEF IInv, SubInv, SubTypes, FailuresGrow
<1>4. QueueTypes' /\ QueueIsFetched'
  BY <1>1, <1>2 DEF FailuresGrow, IInv, SubInv, QueueTypes, QueueIsFetched, Waiting, queue
<1>5. Disjoint'
  BY <1>1 DEF IInv, SubInv, Disjoint
<1>6. Wanted' /\ Once'
  BY <1>1 DEF IInv, SubInv, Wanted, Once, Asked, queue
<1>7. PubInv'
  BY <1>1, PublisherUnchanged DEF IInv, PubInv, Announced
<1> QED
  BY <1>3, <1>4, <1>5, <1>6, <1>7 DEF IInv, SubInv

LEMMA NextIInv == IInv /\ [Next]_vars => IInv'
<1> SUFFICES ASSUME IInv, [Next]_vars
             PROVE  IInv'
  OBVIOUS
<1>1. CASE Publish
  BY <1>1, PublishIInv
<1>2. CASE Write
  BY <1>2, InsertDataIInv, UpdateSeqNoIInv, InsertMappingIInv DEF Write
<1>3. CASE BuildVector \/ CopyNotification \/ ClearNotification
  BY <1>3, BuildVectorIInv, CopyNotificationIInv, ClearNotificationIInv
<1>4. CASE \E msg \in net : Lose(msg) \/ OnSyncInterest(msg)
  BY <1>4, LoseIInv, OnSyncInterestIInv
<1>5. CASE \E s \in Subs : Subscribe(s) \/ Unsubscribe(s)
  BY <1>5, StatusIInv
<1>6. CASE \E q \in queries : OnMappingAnswer(q) \/ MappingFails(q)
  BY <1>6, OnMappingAnswerIInv, MappingFailsIInv
<1>7. CASE \E p \in Numbers : OnData(p) \/ FetchFails(p) \/ SegmentsFail(p)
  BY <1>7, OnDataIInv, FailureIInv
<1>8. CASE UNCHANGED vars
  <2>1. UNCHANGED publisher /\ net' = net /\ UNCHANGED <<subscriber, failures>>
    BY <1>8 DEF vars
  <2>2. known' = known /\ known <= seqNo
    BY <2>1 DEF IInv, PubInv, Announced, subscriber
  <2> QED
    BY <2>1, <2>2, PublisherUnchanged, SubscriberUnchanged DEF IInv
<1> QED
  BY <1>1, <1>2, <1>3, <1>4, <1>5, <1>6, <1>7, <1>8 DEF Next

THEOREM Invariant == Spec => []IInv
BY InitIInv, NextIInv, PTL DEF Spec

\* Every variable keeps its type: a query asks for numbers of the range that was
\* announced only (svspubsub.cpp:205-228).
THEOREM TypeCorrect == Spec => []TypeOK
BY Invariant, Implications, PTL

\* A subscription is called once at most for each publication, whichever way the
\* mappings come and whatever fails (svspubsub.cpp:169-425).
THEOREM AlwaysAtMostOnce == Spec => []AtMostOnce
BY Invariant, Implications, PTL

\* m_fetchMap and m_fetchingMap have the same keys, and a number in them is being fetched
\* unless its fetch failed or brought another content type (svspubsub.cpp:274-288,
\* 294-297, 420-425).
THEOREM AlwaysQueueIsFetched == Spec => []QueueIsFetched
BY Invariant, Implications, PTL

\* What is fetched was inserted before (svspubsub.cpp:64-84, svsync-base.cpp:59-81).
THEOREM AlwaysAskedForExists == Spec => []AskedForExists
BY Invariant, Implications, PTL

-----------------------------------------------------------------------------
(* PubSub implements Delivery. *)

\* To run callbacks is to deliver.
LEMMA CallDelivers ==
  ASSUME IInv, NEW p \in Numbers, stage[p] # "none", NEW S \in SUBSET Subs, Call(p, S),
         \A s \in S : ~ (fetchMap[p][s] > 0 /\ delivered[s][p] > 0),
         known' = known
  PROVE  Application!Deliver(p)
<1> DEFINE T == {s \in S : fetchMap[p][s] > 0}
<1>0. /\ fetchMap \in [Numbers -> [Subs -> Nat]]
      /\ delivered \in [Subs -> [Numbers -> Nat]]
  BY DEF IInv, SubInv, SubTypes, QueueTypes
<1>1. \A s \in Subs : /\ fetchMap[p][s] \in Nat /\ delivered[s][p] \in Nat
                      /\ fetchMap[p][s] <= 1
  BY <1>0 DEF IInv, SubInv, Once
<1>2. p <= known
  <2>1. PICK s \in Subs : fetchMap[p][s] > 0
    BY DEF IInv, SubInv, QueueIsFetched, Waiting
  <2> QED
    BY <2>1 DEF IInv, SubInv, Wanted
<1>3. \A s \in T : p \in AsksFor[s] /\ delivered[s][p] = 0 /\ fetchMap[p][s] = 1
  BY <1>1 DEF IInv, SubInv, Wanted
<1>4. T \in SUBSET {s \in Subs : p \in AsksFor[s] /\ delivered[s][p] = 0}
  BY <1>3
<1>5. \A s \in Subs : (IF s \in S THEN delivered[s][p] + fetchMap[p][s] ELSE delivered[s][p])
                      = (IF s \in T THEN 1 ELSE delivered[s][p])
  BY <1>1, <1>3
<1>6. delivered' = [s \in Subs |->
                     [delivered[s] EXCEPT ![p] =
                       IF s \in S THEN delivered[s][p] + fetchMap[p][s] ELSE delivered[s][p]]]
  BY DEF Call
<1>7. delivered' = [s \in Subs |->
                     [delivered[s] EXCEPT ![p] = IF s \in T THEN 1 ELSE delivered[s][p]]]
  <2> HIDE DEF T
  <2> QED
    BY <1>5, <1>6
<1> HIDE DEF T
<1> QED
  BY <1>2, <1>4, <1>7 DEF Application!Deliver

LEMMA DataDelivers ==
  ASSUME IInv, NEW p \in Numbers, OnData(p)
  PROVE  Application!Deliver(p) \/ UNCHANGED <<known, delivered>>
<1>0. PacketSubs \in SUBSET Subs /\ Subs \in SUBSET Subs /\ Subs \ PacketSubs \in SUBSET Subs
  BY PubSubAssumption
<1>1. CASE OnOtherData(p) \/ OnComplete(p)
  BY <1>1 DEF OnOtherData, OnComplete
<1>2. CASE OnPacket(p)
  <2>1. stage[p] = "data" /\ Call(p, Subs) /\ known' = known
    BY <1>2 DEF OnPacket
  <2>2. \A s \in Subs : ~ (fetchMap[p][s] > 0 /\ delivered[s][p] > 0)
    BY <2>1, NotYetGiven
  <2> QED
    BY <1>0, <2>1, <2>2, CallDelivers
<1>3. CASE OnFirstSegment(p)
  <2>1. stage[p] = "data" /\ Call(p, PacketSubs) /\ known' = known
    BY <1>3 DEF OnFirstSegment
  <2>2. \A s \in PacketSubs : ~ (fetchMap[p][s] > 0 /\ delivered[s][p] > 0)
    BY <1>0, <2>1, NotYetGiven
  <2> QED
    BY <1>0, <2>1, <2>2, CallDelivers
<1>4. CASE SendFinalBuffer(p)
  <2>1. /\ stage[p] \in {"segments", "elements"}
        /\ Call(p, Subs \ PacketSubs) /\ known' = known
    BY <1>4 DEF SendFinalBuffer
  <2>2. \A s \in Subs \ PacketSubs : ~ (fetchMap[p][s] > 0 /\ delivered[s][p] > 0)
    BY NotYetGiven
  <2> QED
    BY <1>0, <2>1, <2>2, CallDelivers
<1> QED
  BY <1>1, <1>2, <1>3, <1>4 DEF OnData

LEMMA InterestAnnounces ==
  ASSUME IInv, NEW msg \in net, OnSyncInterest(msg)
  PROVE  Application!Announce \/ UNCHANGED <<known, delivered>>
<1>1. msg.seq \in 0 .. MaxSeq /\ known \in Nat /\ MaxSeq \in Nat
  BY Constants DEF IInv, PubInv, PubTypes, SyncInterests, SubInv, SubTypes
<1>2. CASE known + 1 .. msg.seq = {}
  BY <1>2 DEF OnSyncInterest
<1>3. CASE known + 1 .. msg.seq # {}
  <2>1. known' = msg.seq /\ delivered' = delivered
    BY <1>3 DEF OnSyncInterest
  <2>2. msg.seq \in known + 1 .. MaxSeq
    BY <1>1, <1>3
  <2> QED
    BY <2>1, <2>2 DEF Application!Announce
<1> QED
  BY <1>2, <1>3

LEMMA StepRefines ==
  IInv /\ [Next]_vars => [Application!Next]_<<known, delivered>>
<1> SUFFICES ASSUME IInv, [Next]_vars
             PROVE  Application!Next \/ UNCHANGED <<known, delivered>>
  OBVIOUS
<1>1. CASE Publish \/ Write
  BY <1>1 DEF Publish, Write, InsertData, UpdateSeqNo, InsertMapping, subscriber
<1>2. CASE BuildVector \/ CopyNotification \/ ClearNotification
  BY <1>2 DEF BuildVector, CopyNotification, ClearNotification, subscriber
<1>3. ASSUME NEW msg \in net, Lose(msg) \/ OnSyncInterest(msg)
      PROVE  Application!Next \/ UNCHANGED <<known, delivered>>
  <2>1. CASE Lose(msg)
    BY <2>1 DEF Lose, subscriber
  <2>2. CASE OnSyncInterest(msg)
    BY <2>2, InterestAnnounces DEF Application!Next
  <2> QED
    BY <1>3, <2>1, <2>2
<1>4. CASE \E s \in Subs : Subscribe(s) \/ Unsubscribe(s)
  BY <1>4 DEF Subscribe, Unsubscribe
<1>5. CASE \E q \in queries : OnMappingAnswer(q) \/ MappingFails(q)
  BY <1>5 DEF OnMappingAnswer, MappingFails
<1>6. ASSUME NEW p \in Numbers, OnData(p) \/ FetchFails(p) \/ SegmentsFail(p)
      PROVE  Application!Next \/ UNCHANGED <<known, delivered>>
  <2>1. CASE OnData(p)
    <3>1. Application!Deliver(p) => Application!Next
      BY DEF Application!Next, Numbers
    <3> QED
      BY <2>1, <3>1, DataDelivers
  <2>2. CASE FetchFails(p) \/ SegmentsFail(p)
    BY <2>2 DEF FetchFails, SegmentsFail
  <2> QED
    BY <1>6, <2>1, <2>2
<1>7. CASE UNCHANGED vars
  BY <1>7 DEF vars, subscriber
<1> QED
  BY <1>1, <1>2, <1>3, <1>4, <1>5, <1>6, <1>7 DEF Next

\* The two nodes, the thread that publishes and the network between them are Delivery
\* for the application that subscribes.
THEOREM DeliveryImplemented == Spec => ImplementsDelivery
<1>1. Init => Application!Init
  BY DEF Init, Application!Init, Numbers
<1> QED
  BY <1>1, Invariant, StepRefines, PTL DEF Spec, ImplementsDelivery, Application!Spec
=============================================================================
