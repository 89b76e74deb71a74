-------------------------- MODULE SyncTimerProofs ---------------------------
(***************************************************************************)
(* Proofs about the control of the period, for any configuration, sizes of *)
(* the vector, delays and length of the feedback queue.                    *)
(***************************************************************************)
EXTENDS SyncTimerProps, SequenceTheorems, TLAPS

-----------------------------------------------------------------------------
(* Arithmetic. *)

\* A clamped value is a number between the limits, or at the upper one when
\* they are crossed.
LEMMA ClampFacts ==
  ASSUME NEW v \in Nat, NEW low \in Nat, NEW high \in Nat
  PROVE  /\ Clamp(v, low, high) \in Nat
         /\ Clamp(v, low, high) <= high
         /\ low <= high => low <= Clamp(v, low, high)
         /\ high < low => Clamp(v, low, high) = high
BY DEF Clamp, Smaller, Larger

LEMMA RoundedFacts ==
  /\ \A n \in Nat : Rounded(n, 10) \in Nat
  /\ \A n \in Nat : Rounded(n, 100) \in Nat
  /\ \A n \in Nat : Rounded(n, 1000) \in Nat
  /\ \A n \in Nat : Rounded(n, 10000) \in Nat
BY DEF Rounded

Feedback == [delay : Nat, jitter : Nat, samples : Nat]

LEMMA FeedbackFacts ==
  ASSUME NEW fb \in Feedback
  PROVE  Delay(fb) \in Nat /\ Jitter(fb) \in Nat
BY DEF Delay, Jitter, Larger, Feedback

\* The bounds that follow the feedback, whatever it is.
LEMMA BoundsFacts ==
  ASSUME NEW fb \in Feedback
  PROVE  /\ SuppressionTime(fb) \in Nat
         /\ SuppressionTime(fb) <= 1200
         /\ AwareMin(fb) \in Nat
         /\ AwareMin(fb) <= 5000
         /\ Smaller(ConfiguredMin, 5000) <= AwareMin(fb)
<1>0. LossPct \in Nat /\ ConfiguredMin \in Nat
  BY TimerAssumption
<1>1. Delay(fb) \in Nat /\ Jitter(fb) \in Nat
  BY FeedbackFacts
<1>2. /\ 10 * Delay(fb) + 14 * Jitter(fb) + 6 * LossPct \in Nat
      /\ 22 * Delay(fb) + 18 * Jitter(fb) + 1600 + 12 * LossPct \in Nat
  BY <1>0, <1>1
<1>3. /\ Rounded(10 * Delay(fb) + 14 * Jitter(fb) + 6 * LossPct, 10) \in Nat
      /\ Rounded(22 * Delay(fb) + 18 * Jitter(fb) + 1600 + 12 * LossPct, 10) \in Nat
  BY <1>2, RoundedFacts
<1>4. SuppressionTime(fb) \in Nat /\ SuppressionTime(fb) <= 1200
  <2> DEFINE v == Rounded(10 * Delay(fb) + 14 * Jitter(fb) + 6 * LossPct, 10)
  <2>1. v \in Nat /\ SuppressionTime(fb) = Clamp(v, 40, 1200)
    BY <1>3 DEF SuppressionTime
  <2> HIDE DEF v
  <2> QED
    BY <2>1, ClampFacts
<1>5. /\ AwareMin(fb) \in Nat
      /\ AwareMin(fb) <= 5000
      /\ Smaller(ConfiguredMin, 5000) <= AwareMin(fb)
  <2> DEFINE v == Rounded(22 * Delay(fb) + 18 * Jitter(fb) + 1600 + 12 * LossPct, 10)
  <2>1. v \in Nat /\ AwareMin(fb) = Clamp(v, ConfiguredMin, 5000)
    BY <1>3 DEF AwareMin
  <2> HIDE DEF v
  <2>2. ConfiguredMin \in Nat /\ 5000 \in Nat
    BY <1>0
  <2>3. /\ AwareMin(fb) \in Nat
        /\ AwareMin(fb) <= 5000
        /\ ConfiguredMin <= 5000 => ConfiguredMin <= AwareMin(fb)
        /\ 5000 < ConfiguredMin => AwareMin(fb) = 5000
    BY <2>1, <2>2 DEF Clamp, Smaller, Larger
  <2>4. Smaller(ConfiguredMin, 5000) = IF ConfiguredMin < 5000 THEN ConfiguredMin ELSE 5000
    BY DEF Smaller
  <2> QED
    BY <2>2, <2>3, <2>4
<1> QED
  BY <1>4, <1>5

LEMMA EstimatedFacts == EstimatedFeedback \in Feedback
<1> DEFINE hops == DiameterHops * 12
           spread == DiameterMs * (1300 + 14 * LossPct)
           raw == Rounded(spread, 1000) + hops + 60
           delay == Clamp(raw, 40, 1800)
           share == delay * (1800 + 25 * LossPct)
<1>1. /\ LossPct \in Nat /\ DiameterMs \in Nat /\ DiameterHops \in Nat
      /\ \A a, b \in Nat : a * b \in Nat
  BY TimerAssumption
<1>2. spread \in Nat /\ hops \in Nat
  <2>1. 1300 + 14 * LossPct \in Nat
    BY <1>1
  <2> QED
    BY <1>1, <2>1
<1>3. raw \in Nat
  <2> HIDE DEF spread, hops
  <2> QED
    BY <1>2, RoundedFacts
<1>4. delay \in Nat
  <2> HIDE DEF raw
  <2> QED
    BY <1>3, ClampFacts
<1>5. share \in Nat
  <2> HIDE DEF delay
  <2>1. 1800 + 25 * LossPct \in Nat
    BY <1>1
  <2> QED
    BY <1>1, <1>4, <2>1
<1>6. Larger(20, Rounded(share, 10000)) \in Nat
  <2> HIDE DEF share
  <2> QED
    BY <1>5, RoundedFacts DEF Larger
<1>7. EstimatedFeedback = [ delay   |-> delay,
                            jitter  |-> Larger(20, Rounded(share, 10000)),
                            samples |-> 0 ]
  BY DEF EstimatedFeedback
<1> HIDE DEF delay, share
<1> QED
  BY <1>4, <1>6, <1>7 DEF Feedback

-----------------------------------------------------------------------------
(* The inductive invariant: types and bounds. *)

\* What a thread computed when it began lies within the bounds too.
CallsInBounds ==
  \A th \in Threads :
    call[th] # NoCall => /\ LeastPeriod <= call[th].floor
                         /\ LeastPeriod <= call[th].current
                         /\ call[th].current <= MaxPeriod

\* The minimum and the suppression time of each mode.
MinInBounds ==
  /\ LeastPeriod <= minPeriod
  /\ mode = "adaptive" => minPeriod = MinPeriod /\ suppression = 500
  /\ suppression <= 1200

\* Only numbers that this run or an earlier one has published were sent, also when the
\* entry is about to be set back to the number that was taken.
OwnIsPublished ==
  /\ own <= MaxSeq
  /\ \A i \in Numbers : sentAt[i] # {} => i <= Larger(own, Earlier)
  /\ taken # 0 =>
       /\ taken <= MaxSeq
       /\ own <= Larger(taken - 1, Earlier)
       /\ \A i \in Numbers : sentAt[i] # {} => i <= Larger(taken - 1, Earlier)

\* A queue of numbers sent at the times noted, in their order, with every number
\* sent that is not smaller than its first and was not announced by an earlier run.
InOrder(queue, sa) ==
  /\ \A i, j \in 1 .. Len(queue) : i < j => queue[i].seq < queue[j].seq
  /\ \A i \in 1 .. Len(queue) : queue[i].at \in sa[queue[i].seq]
  /\ \A e \in Numbers :
       /\ Earlier < e
       /\ sa[e] # {}
       /\ Len(queue) > 0
       /\ queue[1].seq <= e
       => \E i \in 1 .. Len(queue) : queue[i].seq = e

IInv ==
  /\ TypeOK
  /\ PeriodInBounds
  /\ CallsInBounds
  /\ MinInBounds
  /\ OwnIsPublished
  /\ InOrder(pending, sentAt)
  /\ EchoMatched

Entries == [seq : Numbers, at : Nat]

LEMMA Configured ==
  /\ ConfiguredMin \in Nat /\ LossPct \in Nat /\ MaxSeq \in Nat /\ TickMs \in Nat
  /\ Earlier \in Nat /\ Earlier <= MaxSeq
  /\ \A size \in Sizes : size \in Nat
BY TimerAssumption

\* What is left of such a queue when the front is taken away is one.
LEMMA SuffixInOrder ==
  ASSUME NEW queue \in Seq(Entries), NEW sa, InOrder(queue, sa),
         NEW k \in 1 .. Len(queue) + 1
  PROVE  LET rest == SubSeq(queue, k, Len(queue))
         IN  /\ rest \in Seq(Entries)
             /\ Len(rest) = Len(queue) - k + 1
             /\ InOrder(rest, sa)
<1> DEFINE rest == SubSeq(queue, k, Len(queue))
<1>0. Len(queue) \in Nat /\ \A i \in 1 .. Len(queue) : queue[i] \in Entries
  OBVIOUS
<1>1. /\ rest \in Seq(Entries)
      /\ Len(rest) = Len(queue) - k + 1
      /\ \A i \in 1 .. Len(queue) - k + 1 : rest[i] = queue[k + i - 1]
  <2>1. \A i \in k .. Len(queue) : queue[i] \in Entries
    BY <1>0
  <2>2. k \in Int /\ Len(queue) \in Int
    BY <1>0
  <2>3. /\ rest \in Seq(Entries)
        /\ Len(rest) = IF k <= Len(queue) THEN Len(queue) - k + 1 ELSE 0
        /\ \A i \in 1 .. Len(queue) - k + 1 : rest[i] = queue[k + i - 1]
    BY <2>1, <2>2, SubSeqProperties
  <2> QED
    BY <1>0, <2>3
<1> HIDE DEF rest
<1>2. \A i \in 1 .. Len(rest) : rest[i] = queue[k + i - 1] /\ k + i - 1 \in 1 .. Len(queue)
  BY <1>0, <1>1
<1>3. \A i, j \in 1 .. Len(rest) : i < j => rest[i].seq < rest[j].seq
  <2> SUFFICES ASSUME NEW i \in 1 .. Len(rest), NEW j \in 1 .. Len(rest), i < j
               PROVE  rest[i].seq < rest[j].seq
    OBVIOUS
  <2>1. k + i - 1 < k + j - 1
    BY <1>0, <1>1
  <2> QED
    BY <1>2, <2>1 DEF InOrder
<1>4. \A i \in 1 .. Len(rest) : rest[i].at \in sa[rest[i].seq]
  BY <1>2 DEF InOrder
<1>5. ASSUME NEW e \in Numbers, Earlier < e, sa[e] # {}, Len(rest) > 0, rest[1].seq <= e
      PROVE  \E i \in 1 .. Len(rest) : rest[i].seq = e
  <2>0. k \in 1 .. Len(queue) /\ rest[1] = queue[k] /\ Len(queue) > 0 /\ 1 \in 1 .. Len(queue)
    BY <1>0, <1>1, <1>5
  <2>1. queue[1].seq \in Nat /\ queue[k].seq \in Nat /\ e \in Nat
    BY <1>0, <2>0 DEF Entries, Numbers
  <2>2. queue[1].seq <= e
    BY <1>5, <2>0, <2>1 DEF InOrder
  <2>3. PICK j \in 1 .. Len(queue) : queue[j].seq = e
    BY <1>5, <2>0, <2>2 DEF InOrder
  <2>4. j >= k
    BY <1>5, <2>0, <2>1, <2>3 DEF InOrder
  <2>5. j - k + 1 \in 1 .. Len(rest) /\ k + (j - k + 1) - 1 = j
    BY <1>0, <1>1, <2>3, <2>4
  <2>6. rest[j - k + 1] = queue[j]
    BY <1>2, <2>5
  <2> QED
    BY <2>3, <2>5, <2>6
<1> QED
  BY <1>1, <1>3, <1>4, <1>5 DEF InOrder, rest

\* The queue holds at most Remembered numbers, the newest of those it was given.
LEMMA NewestInOrder ==
  ASSUME NEW queue \in Seq(Entries), NEW sa, InOrder(queue, sa)
  PROVE  /\ Newest(queue) \in Seq(Entries)
         /\ Len(Newest(queue)) <= Remembered
         /\ InOrder(Newest(queue), sa)
<1> DEFINE k == Larger(1, Len(queue) - Remembered + 1)
<1>0. Len(queue) \in Nat /\ Remembered \in Nat /\ Remembered >= 1
  BY TimerAssumption
<1>1. /\ k \in 1 .. Len(queue) + 1
      /\ Len(queue) - k + 1 <= Remembered
  BY <1>0 DEF Larger
<1>2. Newest(queue) = SubSeq(queue, k, Len(queue))
  BY DEF Newest
<1> HIDE DEF k
<1> QED
  BY <1>1, <1>2, SuffixInOrder

\* A number larger than all that were sent is appended in order.
LEMMA AppendInOrder ==
  ASSUME TypeOK, OwnIsPublished, InOrder(pending, sentAt), own > 0, LastSeq < own
  PROVE  LET queue == Append(pending, [seq |-> own, at |-> now])
         IN  /\ queue \in Seq(Entries)
             /\ InOrder(queue, [sentAt EXCEPT ![own] = @ \union {now}])
<1> DEFINE last == [seq |-> own, at |-> now]
           queue == Append(pending, last)
           sa == [sentAt EXCEPT ![own] = @ \union {now}]
<1>0. /\ pending \in Seq(Entries)
      /\ Len(pending) \in Nat
      /\ \A i \in 1 .. Len(pending) : pending[i] \in Entries
  <2>1. pending \in Seq(Entries)
    BY DEF TypeOK, Entries
  <2> QED
    BY <2>1
<1>1. own \in Nat /\ own \in Numbers /\ now \in Nat /\ MaxSeq \in Nat
  <2>1. own \in Nat /\ now \in Nat
    BY DEF TypeOK
  <2>2. MaxSeq \in Nat
    BY TimerAssumption
  <2> QED
    BY <2>1, <2>2 DEF OwnIsPublished, Numbers
<1>2. last \in Entries
  BY <1>1 DEF Entries
<1>3. /\ queue \in Seq(Entries)
      /\ Len(queue) = Len(pending) + 1
      /\ \A i \in 1 .. Len(pending) : queue[i] = pending[i]
      /\ queue[Len(pending) + 1] = last
  <2> HIDE DEF last
  <2> QED
    BY <1>0, <1>2, AppendProperties
<1>4. /\ \A i \in Numbers : sentAt[i] \subseteq sa[i]
      /\ now \in sa[own]
      /\ \A i \in Numbers : i # own => sa[i] = sentAt[i]
  BY <1>1 DEF TypeOK
<1>5. \A i \in 1 .. Len(pending) : pending[i].seq \in Nat /\ pending[i].seq < own
  <2> SUFFICES ASSUME NEW i \in 1 .. Len(pending)
               PROVE  pending[i].seq \in Nat /\ pending[i].seq < own
    OBVIOUS
  <2>1. Len(pending) \in 1 .. Len(pending) /\ LastSeq = pending[Len(pending)].seq
    BY <1>0 DEF LastSeq
  <2>2. pending[i].seq \in Nat /\ pending[Len(pending)].seq \in Nat
    <3>1. pending[i] \in Entries /\ pending[Len(pending)] \in Entries
      BY <1>0, <2>1
    <3>2. Numbers \subseteq Nat
      BY DEF Numbers
    <3> QED
      BY <3>1, <3>2 DEF Entries
  <2>3. pending[i].seq <= pending[Len(pending)].seq
    <3>1. CASE i = Len(pending)
      BY <2>2, <3>1
    <3>2. CASE i # Len(pending)
      <4>1. i < Len(pending)
        BY <1>0, <3>2
      <4> QED
        BY <2>1, <2>2, <4>1 DEF InOrder
    <3> QED
      BY <3>1, <3>2
  <2> QED
    BY <1>1, <2>1, <2>2, <2>3
<1> HIDE DEF queue, sa
<1>6. ASSUME NEW i \in 1 .. Len(queue), NEW j \in 1 .. Len(queue), i < j
      PROVE  queue[i].seq < queue[j].seq
  <2>1. i \in 1 .. Len(pending) /\ queue[i] = pending[i]
    BY <1>0, <1>3, <1>6
  <2>2. CASE j = Len(pending) + 1
    BY <1>3, <1>5, <2>1, <2>2
  <2>3. CASE j # Len(pending) + 1
    <3>1. j \in 1 .. Len(pending) /\ queue[j] = pending[j]
      BY <1>0, <1>3, <2>3
    <3> QED
      BY <1>6, <2>1, <3>1 DEF InOrder
  <2> QED
    BY <2>2, <2>3
<1>7. ASSUME NEW i \in 1 .. Len(queue)
      PROVE  queue[i].at \in sa[queue[i].seq]
  <2>1. CASE i = Len(pending) + 1
    BY <1>3, <1>4, <2>1
  <2>2. CASE i # Len(pending) + 1
    <3>1. i \in 1 .. Len(pending) /\ queue[i] = pending[i]
      BY <1>0, <1>3, <2>2
    <3>2. pending[i].at \in sentAt[pending[i].seq] /\ pending[i].seq \in Numbers
      BY <1>0, <3>1 DEF InOrder, Entries
    <3> QED
      BY <1>4, <3>1, <3>2
  <2> QED
    BY <2>1, <2>2
<1>8. ASSUME NEW e \in Numbers, Earlier < e, sa[e] # {}, Len(queue) > 0, queue[1].seq <= e
      PROVE  \E i \in 1 .. Len(queue) : queue[i].seq = e
  <2>0. Len(pending) + 1 \in 1 .. Len(queue) /\ e \in Nat
    BY <1>0, <1>3 DEF Numbers
  <2>1. CASE e = own
    BY <1>3, <2>0, <2>1
  <2>2. CASE e # own
    <3>1. sentAt[e] # {}
      BY <1>4, <1>8, <2>2
    <3>2. e <= own
      BY <1>1, <1>8, <2>0, <3>1, Configured DEF OwnIsPublished, Larger
    <3>3. Len(pending) > 0
      <4>1. CASE Len(pending) = 0
        BY <1>1, <1>3, <1>8, <2>0, <2>2, <3>2, <4>1
      <4> QED
        BY <1>0, <4>1
    <3>4. 1 \in 1 .. Len(pending) /\ queue[1] = pending[1]
      BY <1>0, <1>3, <3>3
    <3>5. PICK i \in 1 .. Len(pending) : pending[i].seq = e
      BY <1>8, <3>1, <3>3, <3>4 DEF InOrder
    <3>6. i \in 1 .. Len(queue) /\ queue[i] = pending[i]
      BY <1>0, <1>3
    <3> QED
      BY <3>5, <3>6
  <2> QED
    BY <2>1, <2>2
<1>9. InOrder(queue, sa)
  BY <1>6, <1>7, <1>8 DEF InOrder
<1> QED
  BY <1>3, <1>9 DEF queue, sa

-----------------------------------------------------------------------------
(* The invariant holds. *)

\* What the type invariant says of each variable.
LEMMA Types ==
  ASSUME TypeOK
  PROVE  /\ period \in Nat /\ minPeriod \in Nat /\ suppression \in Nat
         /\ activity \in Nat /\ entries \in Nat /\ now \in Nat /\ own \in Nat
         /\ taken \in Nat /\ signals \in Nat
         /\ feedback \in Feedback
         /\ pending \in Seq(Entries)
BY DEF TypeOK, Feedback, Entries

LEMMA LeastFacts == LeastPeriod \in Nat /\ LeastPeriod <= 5000
BY Configured DEF LeastPeriod, MinPeriod, Smaller

LEMMA FloorFacts ==
  ASSUME NEW size \in Nat, minPeriod \in Nat
  PROVE  Floor(size) \in Nat /\ minPeriod <= Floor(size)
BY TimerAssumption DEF Floor, Larger, Smaller

\* A thread begins within the bounds.
LEMMA BeginKeeps ==
  ASSUME IInv, NEW th \in Threads, NEW signal \in Signals, NEW size \in Nat,
         Begin(th, signal, size), UNCHANGED mode
  PROVE  /\ call' \in [Threads -> Calls \union {NoCall}]
         /\ CallsInBounds'
<1> DEFINE new == [signal |-> signal, current |-> period, floor |-> Floor(size)]
<1>1. period \in Nat /\ minPeriod \in Nat
  BY Types DEF IInv
<1>2. Floor(size) \in Nat /\ minPeriod <= Floor(size)
  BY <1>1, FloorFacts
<1>3. new \in Calls
  BY <1>1, <1>2 DEF Calls
<1>4. /\ call \in [Threads -> Calls \union {NoCall}]
      /\ call' = [call EXCEPT ![th] = new]
  BY DEF IInv, TypeOK, Begin
<1>5. call' \in [Threads -> Calls \union {NoCall}]
  <2> HIDE DEF new
  <2> QED
    BY <1>3, <1>4
<1>6. LeastPeriod' = LeastPeriod
  BY DEF LeastPeriod
<1>7. /\ LeastPeriod <= new.floor
      /\ LeastPeriod <= new.current
      /\ new.current <= MaxPeriod
  <2>1. LeastPeriod <= minPeriod /\ LeastPeriod <= period /\ period <= MaxPeriod
    BY DEF IInv, MinInBounds, PeriodInBounds
  <2> QED
    BY <1>1, <1>2, <2>1, LeastFacts
<1>8. CallsInBounds'
  <2> HIDE DEF new
  <2> SUFFICES ASSUME NEW t \in Threads, call'[t] # NoCall
               PROVE  /\ LeastPeriod <= call'[t].floor
                      /\ LeastPeriod <= call'[t].current
                      /\ call'[t].current <= MaxPeriod
    BY <1>6 DEF CallsInBounds
  <2>1. CASE t = th
    BY <1>4, <1>7, <2>1
  <2>2. CASE t # th
    BY <1>4, <2>2 DEF IInv, CallsInBounds
  <2> QED
    BY <2>1, <2>2
<1> QED
  BY <1>5, <1>8

LEMMA ActivityFacts ==
  ASSUME NEW signal \in Signals, activity \in Nat
  PROVE  NextActivity(signal) \in Nat
<1>1. \A n \in Nat : Rounded(n, 100) \in Nat
  BY RoundedFacts
<1>2. /\ activity * 85 \in Nat /\ activity * 75 \in Nat
      /\ activity * 80 \in Nat /\ activity * 65 \in Nat
  BY DEF Signals
<1>3. /\ Rounded(activity * 85, 100) \in Nat /\ Rounded(activity * 75, 100) \in Nat
      /\ Rounded(activity * 80, 100) \in Nat /\ Rounded(activity * 65, 100) \in Nat
  BY <1>1, <1>2
<1> QED
  BY <1>3 DEF NextActivity, Smaller, Signals

LEMMA AdaptiveFacts ==
  ASSUME NEW c \in Calls, activity \in Nat, minPeriod \in Nat
  PROVE  /\ AdaptivePeriod(c) \in Nat
         /\ AdaptivePeriod(c) <= MaxPeriod
         /\ minPeriod <= MaxPeriod => minPeriod <= AdaptivePeriod(c)
<1>0. c.signal \in Signals /\ c.current \in Nat /\ c.floor \in Nat
  BY DEF Calls
<1>1. Rounded(NextActivity(c.signal) * 250, 1000) \in Nat
  <2>1. NextActivity(c.signal) \in Nat
    BY <1>0, ActivityFacts
  <2>2. NextActivity(c.signal) * 250 \in Nat
    BY <2>1
  <2> QED
    BY <2>2, RoundedFacts
<1>2. AdaptiveStep(c) \in Int
  BY <1>0 DEF AdaptiveStep, Larger, Smaller, Signals, MaxPeriod
<1> DEFINE w == c.floor + Rounded(NextActivity(c.signal) * 250, 1000)
<1>3. w \in Nat
  BY <1>0, <1>1
<1>4. AdaptivePeriod(c) = Smaller(MaxPeriod, Larger(minPeriod, Larger(w, AdaptiveStep(c))))
  BY DEF AdaptivePeriod
<1> HIDE DEF w
<1> QED
  BY <1>2, <1>3, <1>4 DEF Smaller, Larger, MaxPeriod

\* The target lies within the limits of the floor.
LEMMA TargetFacts ==
  ASSUME NEW floor \in Nat, feedback \in Feedback
  PROVE  /\ FeedbackTarget(floor) \in Nat
         /\ FeedbackTarget(floor) <= MaxPeriod
         /\ floor <= MaxPeriod => floor <= FeedbackTarget(floor)
         /\ MaxPeriod < floor => FeedbackTarget(floor) = MaxPeriod
<1> DEFINE t == Rounded(30 * Delay(feedback) + 22 * Jitter(feedback) + 3200 + 22 * LossPct, 10)
<1>1. t \in Nat
  <2>1. Delay(feedback) \in Nat /\ Jitter(feedback) \in Nat
    BY FeedbackFacts
  <2>2. 30 * Delay(feedback) + 22 * Jitter(feedback) + 3200 + 22 * LossPct \in Nat
    BY <2>1, Configured
  <2> QED
    BY <2>2, RoundedFacts
<1>2. FeedbackTarget(floor) = Clamp(t, floor, MaxPeriod)
  BY DEF FeedbackTarget
<1> HIDE DEF t
<1> QED
  BY <1>1, <1>2 DEF Clamp, Smaller, Larger, MaxPeriod

LEMMA AwareFacts ==
  ASSUME NEW c \in Calls, feedback \in Feedback
  PROVE  /\ AwarePeriod(c) \in Nat
         /\ AwarePeriod(c) <= MaxPeriod
         /\ c.floor <= MaxPeriod => c.floor <= AwarePeriod(c)
         /\ MaxPeriod < c.floor => AwarePeriod(c) = MaxPeriod
<1>0. c.signal \in Signals /\ c.current \in Nat /\ c.floor \in Nat
  BY DEF Calls
<1> DEFINE target == FeedbackTarget(c.floor)
           a == Alpha(c.signal)
           weighted == (100 - a) * c.current + a * target
           p == Rounded(weighted, 100)
<1>2. target \in Nat
  BY <1>0, TargetFacts
<1>3. a \in Nat /\ 100 - a \in Nat
  BY <1>0 DEF Alpha, Signals
<1>4. p \in Nat
  <2> HIDE DEF a, target
  <2>1. \A i, j \in Nat : i * j \in Nat
    OBVIOUS
  <2>2. (100 - a) * c.current \in Nat /\ a * target \in Nat
    BY <1>0, <1>2, <1>3, <2>1
  <2>3. weighted \in Nat
    BY <2>2
  <2> QED
    BY <2>3, RoundedFacts
<1>5. AwarePeriod(c) = Clamp(p, c.floor, MaxPeriod)
  BY DEF AwarePeriod
<1> HIDE DEF p
<1> QED
  BY <1>0, <1>4, <1>5 DEF Clamp, Smaller, Larger, MaxPeriod

\* A thread writes within the bounds.
LEMMA FinishKeeps ==
  ASSUME IInv, NEW th \in Threads, Finish(th)
  PROVE  /\ period' \in Nat /\ activity' \in Nat /\ adjusted' \in BOOLEAN
         /\ PeriodInBounds'
<1> DEFINE c == call[th]
<1>0. /\ period \in Nat /\ minPeriod \in Nat /\ activity \in Nat /\ feedback \in Feedback
  BY Types DEF IInv
<1>1. /\ adjusted \in BOOLEAN /\ mode' = mode /\ LeastPeriod' = LeastPeriod
      /\ LeastPeriod \in Nat /\ LeastPeriod <= 5000
  BY LeastFacts DEF IInv, TypeOK, Finish, LeastPeriod
<1>2. c \in Calls /\ c.signal \in Signals /\ c.current \in Nat /\ c.floor \in Nat
  <2>1. c # NoCall /\ call \in [Threads -> Calls \union {NoCall}]
    BY DEF Finish, IInv, TypeOK
  <2>2. c \in Calls
    BY <2>1
  <2> QED
    BY <2>2 DEF Calls
<1>3. LeastPeriod <= c.floor /\ LeastPeriod <= c.current /\ c.current <= MaxPeriod
  BY DEF Finish, IInv, CallsInBounds
<1>4. LeastPeriod <= period /\ period <= MaxPeriod /\ LeastPeriod <= minPeriod
  BY DEF IInv, PeriodInBounds, MinInBounds
<1> HIDE DEF c
<1>5. CASE adjusted
  <2>1. /\ period' = Nudged(c) /\ adjusted' = adjusted /\ activity' = activity
    BY <1>5 DEF Finish, c
  <2>2. /\ Nudged(c) \in Nat
        /\ LeastPeriod <= Nudged(c)
        /\ Nudged(c) <= MaxPeriod
    BY <1>0, <1>1, <1>2, <1>3, <1>4 DEF Nudged, MaxPeriod
  <2> QED
    BY <1>0, <1>1, <2>1, <2>2 DEF PeriodInBounds
<1>6. CASE ~ adjusted /\ mode = "adaptive"
  <2>1. /\ period' = AdaptivePeriod(c) /\ activity' = NextActivity(c.signal)
        /\ adjusted' = TRUE
    BY <1>6 DEF Finish, c
  <2>2. minPeriod = MinPeriod /\ LeastPeriod = MinPeriod
    BY <1>6 DEF IInv, MinInBounds, LeastPeriod
  <2>3. /\ AdaptivePeriod(c) \in Nat
        /\ AdaptivePeriod(c) <= MaxPeriod
        /\ minPeriod <= MaxPeriod => minPeriod <= AdaptivePeriod(c)
    BY <1>0, <1>2, AdaptiveFacts
  <2>4. NextActivity(c.signal) \in Nat
    BY <1>0, <1>2, ActivityFacts
  <2> QED
    BY <1>1, <2>1, <2>2, <2>3, <2>4 DEF PeriodInBounds, MinPeriod, MaxPeriod
<1>7. CASE ~ adjusted /\ mode # "adaptive"
  <2>1. /\ period' = AwarePeriod(c) /\ activity' = activity /\ adjusted' = TRUE
    BY <1>7 DEF Finish, c
  <2>2. /\ AwarePeriod(c) \in Nat
        /\ AwarePeriod(c) <= MaxPeriod
        /\ c.floor <= MaxPeriod => c.floor <= AwarePeriod(c)
        /\ MaxPeriod < c.floor => AwarePeriod(c) = MaxPeriod
    BY <1>0, <1>2, AwareFacts
  <2>3. LeastPeriod <= AwarePeriod(c)
    BY <1>1, <1>2, <1>3, <2>2 DEF MaxPeriod
  <2> QED
    BY <1>0, <1>1, <2>1, <2>2, <2>3 DEF PeriodInBounds
<1> QED
  BY <1>1, <1>5, <1>6, <1>7

LEMMA NextFeedbackFacts ==
  ASSUME feedback \in Feedback, NEW observed \in Nat
  PROVE  NextFeedback(observed) \in Feedback
<1>0. feedback.delay \in Nat /\ feedback.jitter \in Nat /\ feedback.samples \in Nat
  BY DEF Feedback
<1>1. Distance(observed, Larger(1, feedback.delay)) \in Nat
  BY <1>0 DEF Distance, Larger
<1> DEFINE d == Rounded(82 * feedback.delay + 18 * observed, 100)
           v == Rounded(78 * feedback.jitter
                          + 22 * Distance(observed, Larger(1, feedback.delay)), 100)
           w == Rounded(15 * observed, 100)
<1>2. d \in Nat /\ v \in Nat /\ w \in Nat
  <2>1. /\ 82 * feedback.delay + 18 * observed \in Nat
        /\ 78 * feedback.jitter + 22 * Distance(observed, Larger(1, feedback.delay)) \in Nat
        /\ 15 * observed \in Nat
    BY <1>0, <1>1
  <2> QED
    BY <2>1, RoundedFacts
<1>3. NextFeedback(observed) =
        IF feedback.samples = 0
          THEN [delay |-> observed, jitter |-> Larger(15, w), samples |-> 1]
          ELSE [delay |-> d, jitter |-> Larger(10, v), samples |-> feedback.samples + 1]
  BY DEF NextFeedback
<1> HIDE DEF d, v, w
<1>4. Larger(15, w) \in Nat /\ Larger(10, v) \in Nat
  BY <1>2 DEF Larger
<1> QED
  BY <1>0, <1>2, <1>3, <1>4 DEF Feedback

\* The bounds after a measurement.
LEMMA RefreshKeeps ==
  ASSUME IInv, mode = "network-aware", UNCHANGED mode, feedback' \in Feedback,
         Refresh(feedback')
  PROVE  /\ period' \in Nat /\ minPeriod' \in Nat /\ suppression' \in Nat
         /\ PeriodInBounds' /\ MinInBounds'
<1>1. /\ SuppressionTime(feedback') \in Nat
      /\ SuppressionTime(feedback') <= 1200
      /\ AwareMin(feedback') \in Nat
      /\ AwareMin(feedback') <= 5000
      /\ Smaller(ConfiguredMin, 5000) <= AwareMin(feedback')
  BY BoundsFacts
<1>2. period \in Nat
  BY Types DEF IInv
<1>3. LeastPeriod' = Smaller(ConfiguredMin, 5000) /\ LeastPeriod' \in Nat
  BY LeastFacts DEF LeastPeriod
<1>4. /\ suppression' = SuppressionTime(feedback')
      /\ minPeriod' = AwareMin(feedback')
      /\ period' = Clamp(period, AwareMin(feedback'), MaxPeriod)
  BY DEF Refresh
<1> DEFINE m == AwareMin(feedback')
<1>5. /\ Clamp(period, m, MaxPeriod) \in Nat
      /\ Clamp(period, m, MaxPeriod) <= MaxPeriod
      /\ m <= Clamp(period, m, MaxPeriod)
  <2>1. m \in Nat /\ m <= 5000
    BY <1>1
  <2> HIDE DEF m
  <2> QED
    BY <1>2, <2>1 DEF Clamp, Smaller, Larger, MaxPeriod
<1>6. LeastPeriod' <= period'
  <2>1. m \in Nat /\ LeastPeriod' <= m
    BY <1>1, <1>3
  <2> HIDE DEF m
  <2> QED
    BY <1>3, <1>4, <1>5, <2>1 DEF m
<1>7. PeriodInBounds'
  BY <1>4, <1>5, <1>6 DEF PeriodInBounds
<1>8. MinInBounds'
  BY <1>1, <1>3, <1>4 DEF MinInBounds
<1> QED
  BY <1>1, <1>4, <1>5, <1>7, <1>8

LEMMA InitIInv == Init => IInv
<1> SUFFICES ASSUME Init
             PROVE  IInv
  OBVIOUS
<1> DEFINE minimum(md) == IF md = "adaptive" THEN MinPeriod ELSE AwareMin(EstimatedFeedback)
<1>1. /\ mode \in Modes
      /\ minPeriod = minimum(mode)
      /\ \E i \in FixedIntervals[mode] : period = Clamp(i, minPeriod, MaxPeriod)
      /\ feedback = IF mode = "adaptive" THEN [delay |-> 0, jitter |-> 0, samples |-> 0]
                                         ELSE EstimatedFeedback
      /\ suppression = IF mode = "adaptive" THEN 500 ELSE SuppressionTime(feedback)
      /\ adjusted = FALSE /\ activity = 0
      /\ entries \in Sizes
      /\ call = [th \in Threads |-> NoCall]
      /\ pending = <<>> /\ now = 1 /\ own = 0 /\ taken = 0
      /\ sentAt = [i \in Numbers |-> {}]
      /\ measured = NoEcho /\ signals = 0
  BY DEF Init
<1>2. /\ AwareMin(EstimatedFeedback) \in Nat
      /\ AwareMin(EstimatedFeedback) <= 5000
      /\ Smaller(ConfiguredMin, 5000) <= AwareMin(EstimatedFeedback)
  BY EstimatedFacts, BoundsFacts
<1>3. minPeriod \in Nat /\ minPeriod <= 5000 /\ LeastPeriod <= minPeriod
  <2> HIDE DEF minimum
  <2>1. CASE mode = "adaptive"
    <3>1. minPeriod = MinPeriod
      BY <1>1, <2>1 DEF minimum
    <3> QED
      BY <2>1, <3>1 DEF LeastPeriod, MinPeriod
  <2>2. CASE mode # "adaptive"
    <3>1. minPeriod = AwareMin(EstimatedFeedback)
      BY <1>1, <2>2 DEF minimum
    <3> QED
      BY <1>2, <2>2, <3>1 DEF LeastPeriod
  <2> QED
    BY <2>1, <2>2
<1>4. feedback \in Feedback
  <2>1. [delay |-> 0, jitter |-> 0, samples |-> 0] \in Feedback
    BY DEF Feedback
  <2> QED
    BY <1>1, <2>1, EstimatedFacts
<1>5. suppression \in Nat /\ suppression <= 1200
  <2>1. SuppressionTime(feedback) \in Nat /\ SuppressionTime(feedback) <= 1200
    BY <1>4, BoundsFacts
  <2> QED
    BY <1>1, <2>1
<1>6. period \in Nat /\ minPeriod <= period /\ period <= MaxPeriod
  <2>1. PICK i \in FixedIntervals[mode] : period = Clamp(i, minPeriod, MaxPeriod)
    BY <1>1
  <2>2. i \in Nat
    BY <1>1, TimerAssumption
  <2> QED
    BY <1>3, <2>1, <2>2 DEF Clamp, Smaller, Larger, MaxPeriod
<1>7. PeriodInBounds
  BY <1>3, <1>6, LeastFacts DEF PeriodInBounds
<1>8. MinInBounds
  <2>1. mode = "adaptive" => minPeriod = MinPeriod /\ suppression = 500
    BY <1>1
  <2> QED
    BY <1>3, <1>5, <2>1 DEF MinInBounds
<1>9. CallsInBounds
  BY <1>1 DEF CallsInBounds
<1>10. OwnIsPublished
  BY <1>1, Configured DEF OwnIsPublished
<1>11. InOrder(pending, sentAt)
  BY <1>1 DEF InOrder
<1>12. EchoMatched
  BY <1>1 DEF EchoMatched
<1>13. TypeOK
  <2>1. entries \in Nat
    BY <1>1, Configured
  <2>2. Remembered \in Nat
    BY TimerAssumption
  <2>3. feedback \in [delay : Nat, jitter : Nat, samples : Nat]
    BY <1>4 DEF Feedback
  <2>4. call \in [Threads -> Calls \union {NoCall}]
    BY <1>1
  <2>5. sentAt \in [Numbers -> SUBSET Nat]
    BY <1>1
  <2>6. pending \in Seq([seq : Numbers, at : Nat]) /\ Len(pending) <= Remembered
    BY <1>1, <2>2
  <2>7. {period, minPeriod, suppression, activity, entries, now, own, taken, signals}
          \subseteq Nat
    BY <1>1, <1>3, <1>5, <1>6, <2>1
  <2>8. mode \in Modes /\ adjusted \in BOOLEAN /\ measured = NoEcho
    BY <1>1
  <2> QED
    BY <2>3, <2>4, <2>5, <2>6, <2>7, <2>8 DEF TypeOK
<1> QED
  BY <1>7, <1>8, <1>9, <1>10, <1>11, <1>12, <1>13 DEF IInv

\* Steps that leave the queue, what was sent and the measurement alone.
LEMMA FeedbackUnchanged ==
  ASSUME IInv, UNCHANGED feedbackVars
  PROVE  /\ feedback' \in [delay : Nat, jitter : Nat, samples : Nat]
         /\ pending' \in Seq([seq : Numbers, at : Nat])
         /\ Len(pending') <= Remembered
         /\ sentAt' \in [Numbers -> SUBSET Nat]
         /\ measured' \in [seq : Numbers, from : Nat] \union {NoEcho}
         /\ InOrder(pending, sentAt)'
         /\ EchoMatched'
BY DEF IInv, TypeOK, feedbackVars, EchoMatched, InOrder

\* Steps that leave the period and its bounds alone.
LEMMA TimerUnchanged ==
  ASSUME IInv, UNCHANGED <<mode, timerVars>>
  PROVE  /\ mode' \in Modes
         /\ {period', minPeriod', suppression', activity'} \subseteq Nat
         /\ adjusted' \in BOOLEAN
         /\ PeriodInBounds' /\ MinInBounds'
BY DEF IInv, TypeOK, timerVars, PeriodInBounds, MinInBounds, LeastPeriod

LEMMA CallsUnchanged ==
  ASSUME IInv, UNCHANGED <<mode, call>>
  PROVE  /\ call' \in [Threads -> Calls \union {NoCall}]
         /\ CallsInBounds'
BY DEF IInv, TypeOK, CallsInBounds, LeastPeriod

LEMMA GetSeqNoIInv == IInv /\ GetSeqNo => IInv'
<1> SUFFICES ASSUME IInv, GetSeqNo
             PROVE  IInv'
  OBVIOUS
<1>1. /\ UNCHANGED <<mode, timerVars, entries, call, feedbackVars, now, own, signals>>
      /\ taken' = own + 1 /\ own < MaxSeq
  BY DEF GetSeqNo
<1>2. entries \in Nat /\ now \in Nat /\ own \in Nat /\ signals \in Nat
  BY Types DEF IInv
<1>3. OwnIsPublished'
  <2>1. \A i \in Numbers : sentAt[i] # {} => i <= Larger(own, Earlier)
    BY DEF IInv, OwnIsPublished
  <2>2. sentAt' = sentAt /\ own' = own /\ taken' - 1 = own /\ taken' <= MaxSeq
    BY <1>1, <1>2, Configured DEF feedbackVars
  <2>3. own <= MaxSeq /\ own <= Larger(own, Earlier)
    BY <1>1, <1>2, Configured DEF Larger
  <2> QED
    BY <2>1, <2>2, <2>3 DEF OwnIsPublished
<1>4. TypeOK'
  BY <1>1, <1>2, TimerUnchanged, CallsUnchanged, FeedbackUnchanged DEF TypeOK
<1> QED
  BY <1>1, <1>3, <1>4, TimerUnchanged, CallsUnchanged, FeedbackUnchanged DEF IInv

\* The entry becomes the number that was taken: nothing past it was sent but numbers of
\* an earlier run.
LEMMA UpdateSeqNoIInv == IInv /\ UpdateSeqNo => IInv'
<1> SUFFICES ASSUME IInv, UpdateSeqNo
             PROVE  IInv'
  OBVIOUS
<1>1. /\ UNCHANGED <<mode, timerVars, entries, feedbackVars, now, signals>>
      /\ Begin("app", "LocalUpdate", entries) \/ UNCHANGED call
      /\ own' = taken /\ taken' = 0 /\ taken > 0
  BY DEF UpdateSeqNo
<1>2. entries \in Nat /\ now \in Nat /\ own \in Nat /\ taken \in Nat /\ signals \in Nat
  BY Types DEF IInv
<1>3. call' \in [Threads -> Calls \union {NoCall}] /\ CallsInBounds'
  <2>1. "app" \in Threads /\ "LocalUpdate" \in Signals
    BY DEF Threads, Signals
  <2> QED
    BY <1>1, <1>2, <2>1, BeginKeeps, CallsUnchanged
<1>4. OwnIsPublished'
  <2>1. /\ taken <= MaxSeq
        /\ \A i \in Numbers : sentAt[i] # {} => i <= Larger(taken - 1, Earlier)
    BY <1>1, <1>2 DEF IInv, OwnIsPublished
  <2>2. sentAt' = sentAt /\ \A i \in Numbers : i \in Nat
    BY <1>1 DEF feedbackVars, Numbers
  <2>3. \A i \in Numbers : sentAt[i] # {} => i <= Larger(taken, Earlier)
    BY <1>1, <1>2, <2>1, <2>2, Configured DEF Larger
  <2> QED
    BY <1>1, <2>1, <2>2, <2>3 DEF OwnIsPublished
<1>5. TypeOK'
  BY <1>1, <1>2, <1>3, TimerUnchanged, FeedbackUnchanged DEF TypeOK
<1> QED
  BY <1>1, <1>3, <1>4, <1>5, TimerUnchanged, FeedbackUnchanged DEF IInv

\* Steps that leave the numbers sent and published alone.
LEMMA OwnUnchanged ==
  ASSUME IInv, UNCHANGED <<own, taken, sentAt>>
  PROVE  OwnIsPublished'
BY DEF IInv, OwnIsPublished

LEMMA RemoteSignalIInv ==
  ASSUME IInv, NEW signal \in Signals, RemoteSignal(signal)
  PROVE  IInv'
<1>1. /\ UNCHANGED <<mode, timerVars, feedbackVars, now, taken>>
      /\ signals' = signals + 1
      /\ own' \in own .. Larger(own, Earlier)
  BY DEF RemoteSignal
<1>2. PICK size \in Sizes : entries' = size /\ Begin("loop", signal, size)
  BY DEF RemoteSignal
<1>3. /\ size \in Nat /\ now \in Nat /\ own \in Nat /\ taken \in Nat /\ signals \in Nat
      /\ own' \in Nat
  BY <1>1, Types, Configured DEF IInv, Larger
<1>4. call' \in [Threads -> Calls \union {NoCall}] /\ CallsInBounds'
  <2>1. "loop" \in Threads
    BY DEF Threads
  <2> QED
    BY <1>1, <1>2, <1>3, <2>1, BeginKeeps
<1>5. OwnIsPublished'
  <2>1. own <= own' /\ own' <= Larger(own, Earlier)
    BY <1>1, <1>3, Configured DEF Larger
  <2>2. own' <= MaxSeq
    BY <1>3, <2>1, Configured DEF IInv, OwnIsPublished, Larger
  <2>3. sentAt' = sentAt /\ taken' = taken /\ \A i \in Numbers : i \in Nat
    BY <1>1 DEF feedbackVars, Numbers
  <2>4. ASSUME NEW i \in Numbers, sentAt[i] # {} PROVE i <= Larger(own', Earlier)
    BY <1>3, <2>1, <2>3, <2>4, Configured DEF IInv, OwnIsPublished, Larger
  <2>5. ASSUME taken # 0 PROVE own' <= Larger(taken - 1, Earlier)
    BY <1>3, <2>1, <2>5, Configured DEF IInv, OwnIsPublished, Larger
  <2>6. taken # 0 => /\ taken <= MaxSeq
                     /\ \A i \in Numbers : sentAt[i] # {} => i <= Larger(taken - 1, Earlier)
    BY DEF IInv, OwnIsPublished
  <2> QED
    BY <2>2, <2>3, <2>4, <2>5, <2>6 DEF OwnIsPublished
<1>6. TypeOK'
  BY <1>1, <1>2, <1>3, <1>4, TimerUnchanged, FeedbackUnchanged DEF TypeOK
<1> QED
  BY <1>1, <1>4, <1>5, <1>6, TimerUnchanged, FeedbackUnchanged DEF IInv

LEMMA IdleSignalIInv == IInv /\ IdleSignal => IInv'
<1> SUFFICES ASSUME IInv, IdleSignal
             PROVE  IInv'
  OBVIOUS
<1>1. /\ UNCHANGED <<mode, timerVars, entries, feedbackVars, now, own, taken>>
      /\ signals' \in {signals, signals + 1}
      /\ Begin("loop", "Idle", entries)
  BY DEF IdleSignal
<1>2. entries \in Nat /\ now \in Nat /\ own \in Nat /\ taken \in Nat /\ signals' \in Nat
  BY <1>1, Types DEF IInv
<1>3. call' \in [Threads -> Calls \union {NoCall}] /\ CallsInBounds'
  <2>1. "loop" \in Threads /\ "Idle" \in Signals
    BY DEF Threads, Signals
  <2> QED
    BY <1>1, <1>2, <2>1, BeginKeeps
<1>4. OwnIsPublished'
  BY <1>1, OwnUnchanged DEF feedbackVars
<1>5. TypeOK'
  BY <1>1, <1>2, <1>3, TimerUnchanged, FeedbackUnchanged DEF TypeOK
<1> QED
  BY <1>1, <1>3, <1>4, <1>5, TimerUnchanged, FeedbackUnchanged DEF IInv

LEMMA FinishIInv ==
  ASSUME IInv, NEW th \in Threads, Finish(th)
  PROVE  IInv'
<1>1. /\ UNCHANGED <<mode, minPeriod, suppression, entries, feedbackVars, now, own, taken, signals>>
      /\ call' = [call EXCEPT ![th] = NoCall]
  BY DEF Finish
<1>2. /\ period' \in Nat /\ activity' \in Nat /\ adjusted' \in BOOLEAN
      /\ PeriodInBounds'
  BY FinishKeeps
<1>3. /\ minPeriod \in Nat /\ suppression \in Nat /\ entries \in Nat /\ now \in Nat
      /\ own \in Nat /\ taken \in Nat /\ signals \in Nat
  BY Types DEF IInv
<1>4. call' \in [Threads -> Calls \union {NoCall}]
  BY <1>1 DEF IInv, TypeOK
<1>5. LeastPeriod' = LeastPeriod /\ mode' \in Modes
  BY <1>1 DEF LeastPeriod, IInv, TypeOK
<1>6. CallsInBounds'
  <2> SUFFICES ASSUME NEW t \in Threads, call'[t] # NoCall
               PROVE  /\ LeastPeriod <= call'[t].floor
                      /\ LeastPeriod <= call'[t].current
                      /\ call'[t].current <= MaxPeriod
    BY <1>5 DEF CallsInBounds
  <2>1. call'[t] = call[t]
    BY <1>1 DEF IInv, TypeOK
  <2> QED
    BY <2>1 DEF IInv, CallsInBounds
<1>7. MinInBounds'
  BY <1>1, <1>5 DEF IInv, MinInBounds
<1>8. OwnIsPublished'
  BY <1>1, OwnUnchanged DEF feedbackVars
<1>9. TypeOK'
  BY <1>1, <1>2, <1>3, <1>4, <1>5, FeedbackUnchanged DEF TypeOK
<1> QED
  BY <1>1, <1>2, <1>6, <1>7, <1>8, <1>9, FeedbackUnchanged DEF IInv

LEMMA AdjustmentAgesIInv == IInv /\ AdjustmentAges => IInv'
<1> SUFFICES ASSUME IInv, AdjustmentAges
             PROVE  IInv'
  OBVIOUS
<1>1. /\ UNCHANGED <<mode, period, minPeriod, suppression, activity, entries, call,
                     feedbackVars, now, own, taken, signals>>
      /\ adjusted' = FALSE
  BY DEF AdjustmentAges
<1>2. /\ period \in Nat /\ minPeriod \in Nat /\ suppression \in Nat /\ activity \in Nat
      /\ entries \in Nat /\ now \in Nat /\ own \in Nat /\ taken \in Nat /\ signals \in Nat
  BY Types DEF IInv
<1>3. LeastPeriod' = LeastPeriod /\ mode' \in Modes
  BY <1>1 DEF LeastPeriod, IInv, TypeOK
<1>4. PeriodInBounds' /\ MinInBounds'
  BY <1>1, <1>3 DEF IInv, PeriodInBounds, MinInBounds
<1>5. OwnIsPublished'
  BY <1>1, OwnUnchanged DEF feedbackVars
<1>6. TypeOK'
  BY <1>1, <1>2, <1>3, CallsUnchanged, FeedbackUnchanged DEF TypeOK
<1> QED
  BY <1>1, <1>4, <1>5, <1>6, CallsUnchanged, FeedbackUnchanged DEF IInv

LEMMA TickIInv == IInv /\ Tick => IInv'
<1> SUFFICES ASSUME IInv, Tick
             PROVE  IInv'
  OBVIOUS
<1>1. /\ UNCHANGED <<mode, timerVars, entries, call, feedbackVars, own, taken, signals>>
      /\ now' = now + 1
  BY DEF Tick
<1>2. entries \in Nat /\ now \in Nat /\ own \in Nat /\ taken \in Nat /\ signals \in Nat
  BY Types DEF IInv
<1>3. OwnIsPublished'
  BY <1>1, OwnUnchanged DEF feedbackVars
<1>4. TypeOK'
  BY <1>1, <1>2, TimerUnchanged, CallsUnchanged, FeedbackUnchanged DEF TypeOK
<1> QED
  BY <1>1, <1>3, <1>4, TimerUnchanged, CallsUnchanged, FeedbackUnchanged DEF IInv

\* No number in the queue is larger than the own one and those of an earlier run.
LEMMA PendingIsPublished ==
  ASSUME IInv, NEW i \in 1 .. Len(pending)
  PROVE  /\ pending[i].seq \in Numbers /\ pending[i].at \in Nat
         /\ pending[i].at \in sentAt[pending[i].seq]
         /\ pending[i].seq <= Larger(own, Earlier)
<1>1. pending[i] \in Entries
  BY Types DEF IInv
<1>2. pending[i].at \in sentAt[pending[i].seq]
  BY DEF IInv, InOrder
<1> QED
  BY <1>1, <1>2 DEF IInv, OwnIsPublished, Entries

LEMMA SendIInv == IInv /\ Send => IInv'
<1> SUFFICES ASSUME IInv, Send
             PROVE  IInv'
  OBVIOUS
<1> DEFINE sa == [sentAt EXCEPT ![own] = @ \union {now}]
           queue == Append(pending, [seq |-> own, at |-> now])
<1>1. /\ UNCHANGED <<mode, timerVars, entries, call, feedback, measured, now, own, taken,
                     signals>>
      /\ own > 0
      /\ sentAt' = sa
      /\ pending' = IF LastSeq >= own THEN pending ELSE Newest(queue)
  BY DEF Send, RecordPropagationFeedback
<1>2. /\ entries \in Nat /\ now \in Nat /\ own \in Nat /\ taken \in Nat /\ signals \in Nat
      /\ feedback \in Feedback /\ pending \in Seq(Entries)
  BY Types DEF IInv
<1>3. own \in Numbers
  BY <1>1, <1>2, Configured DEF IInv, OwnIsPublished, Numbers
<1>4. /\ sa \in [Numbers -> SUBSET Nat]
      /\ \A i \in Numbers : sentAt[i] \subseteq sa[i]
      /\ \A i \in Numbers : i # own => sa[i] = sentAt[i]
  BY <1>2, <1>3 DEF IInv, TypeOK
<1> HIDE DEF sa, queue
<1>5. /\ pending' \in Seq(Entries)
      /\ Len(pending') <= Remembered
      /\ InOrder(pending', sa)
  <2>1. CASE LastSeq >= own
    <3>1. pending' = pending
      BY <1>1, <2>1
    <3>2. ASSUME NEW e \in Numbers, Earlier < e, sa[e] # {},
                 Len(pending) > 0, pending[1].seq <= e
          PROVE  \E i \in 1 .. Len(pending) : pending[i].seq = e
      <4>1. Len(pending) \in 1 .. Len(pending) /\ LastSeq = pending[Len(pending)].seq
        BY <1>2, <3>2 DEF LastSeq
      <4>2. CASE e = own
        <5>1. pending[Len(pending)].seq <= own /\ pending[Len(pending)].seq \in Numbers
          BY <1>2, <3>2, <4>1, <4>2, PendingIsPublished, Configured DEF Larger
        <5>2. pending[Len(pending)].seq = own
          BY <1>2, <2>1, <4>1, <5>1 DEF Numbers
        <5> QED
          BY <4>1, <4>2, <5>2
      <4>3. CASE e # own
        <5>1. sentAt[e] # {}
          BY <1>4, <3>2, <4>3
        <5> QED
          BY <3>2, <5>1 DEF IInv, InOrder
      <4> QED
        BY <4>2, <4>3
    <3>3. \A i \in 1 .. Len(pending) : pending[i].at \in sa[pending[i].seq]
      BY <1>4, PendingIsPublished
    <3>4. InOrder(pending, sa)
      BY <3>2, <3>3 DEF IInv, InOrder
    <3> QED
      BY <1>2, <3>1, <3>4 DEF IInv, TypeOK
  <2>2. CASE ~ (LastSeq >= own)
    <3>1. pending' = Newest(queue)
      BY <1>1, <2>2
    <3>2. LastSeq \in Nat
      <4>1. CASE pending = <<>>
        BY <4>1 DEF LastSeq
      <4>2. CASE pending # <<>>
        <5>1. Len(pending) \in 1 .. Len(pending)
          BY <1>2, <4>2
        <5> QED
          BY <4>2, <5>1, PendingIsPublished DEF LastSeq, Numbers
      <4> QED
        BY <4>1, <4>2
    <3>3. LastSeq < own
      BY <1>2, <2>2, <3>2
    <3>4. queue \in Seq(Entries) /\ InOrder(queue, sa)
      BY <1>1, <3>3, AppendInOrder DEF IInv, queue, sa
    <3> QED
      BY <3>1, <3>4, NewestInOrder
  <2> QED
    BY <2>1, <2>2
<1>6. OwnIsPublished'
  <2>1. own <= Larger(own, Earlier)
    BY <1>2, Configured DEF Larger
  <2>2. ASSUME NEW i \in Numbers, sa[i] # {}
        PROVE  /\ i <= Larger(own, Earlier)
               /\ taken # 0 => i <= Larger(taken - 1, Earlier)
    <3>1. CASE i = own
      BY <2>1, <3>1 DEF IInv, OwnIsPublished
    <3>2. CASE i # own
      BY <1>4, <2>2, <3>2 DEF IInv, OwnIsPublished
    <3> QED
      BY <3>1, <3>2
  <2> QED
    BY <1>1, <2>2 DEF IInv, OwnIsPublished
<1>7. EchoMatched'
  <2>1. measured' = measured /\ measured \in [seq : Numbers, from : Nat] \union {NoEcho}
    BY <1>1 DEF IInv, TypeOK
  <2>2. ASSUME measured # NoEcho
        PROVE  /\ measured.seq > Earlier => measured.from \in sa[measured.seq]
               /\ \E i \in 1 .. measured.seq : measured.from \in sa[i]
    <3>1. measured.seq \in Numbers /\ 1 .. measured.seq \subseteq Numbers
      BY <2>1, <2>2, Configured DEF Numbers
    <3> QED
      BY <1>4, <2>2, <3>1 DEF IInv, EchoMatched
  <2> QED
    BY <1>1, <2>1, <2>2 DEF EchoMatched
<1>8. TypeOK'
  <2>1. pending' \in Seq([seq : Numbers, at : Nat])
    BY <1>5 DEF Entries
  <2>2. feedback' \in [delay : Nat, jitter : Nat, samples : Nat]
    BY <1>1, <1>2 DEF Feedback
  <2>3. measured' \in [seq : Numbers, from : Nat] \union {NoEcho}
    BY <1>1 DEF IInv, TypeOK
  <2>4. sentAt' \in [Numbers -> SUBSET Nat]
    BY <1>1, <1>4
  <2> QED
    BY <1>1, <1>2, <1>5, <2>1, <2>2, <2>3, <2>4, TimerUnchanged, CallsUnchanged DEF TypeOK
<1>9. InOrder(pending, sentAt)'
  BY <1>1, <1>5
<1> QED
  BY <1>1, <1>6, <1>7, <1>8, <1>9, TimerUnchanged, CallsUnchanged DEF IInv

\* The first k numbers of the queue are those up to an echo that was sent, and that no
\* earlier run announced: the k-th is the echo itself.
LEMMA EchoIsLast ==
  ASSUME IInv, NEW e \in Numbers, sentAt[e] # {}, Earlier < e,
         NEW k \in 1 .. Len(pending), Echoed(k, e)
  PROVE  pending[k].seq = e
<1>0. Len(pending) \in Nat /\ e \in Nat
  BY Types DEF IInv, Numbers
<1>1. 1 \in 1 .. Len(pending) /\ 1 \in 1 .. k
  BY <1>0
<1>2. \A i \in 1 .. Len(pending) : pending[i].seq \in Nat
  BY PendingIsPublished DEF Numbers
<1>3. \A i \in 1 .. k : pending[i].seq <= e
  BY DEF Echoed
<1>4. PICK j \in 1 .. Len(pending) : pending[j].seq = e
  <2>1. pending[1].seq <= e /\ Len(pending) > 0
    BY <1>0, <1>1, <1>3
  <2> QED
    BY <2>1 DEF IInv, InOrder
<1>5. CASE j > k
  <2>1. k + 1 \in 1 .. Len(pending) /\ k < Len(pending)
    BY <1>0, <1>5
  <2>2. pending[k + 1].seq > e
    BY <2>1 DEF Echoed
  <2>3. k + 1 = j \/ k + 1 < j
    BY <1>0, <1>5
  <2>4. pending[k + 1].seq <= pending[j].seq
    <3>1. CASE k + 1 = j
      BY <1>2, <3>1
    <3>2. CASE k + 1 < j
      <4>1. pending[k + 1].seq < pending[j].seq
        BY <2>1, <3>2 DEF IInv, InOrder
      <4> QED
        BY <1>2, <2>1, <4>1
    <3> QED
      BY <2>3, <3>1, <3>2
  <2> QED
    BY <1>0, <1>2, <1>4, <2>1, <2>2, <2>4
<1>6. CASE j < k
  <2>1. pending[j].seq < pending[k].seq
    BY <1>6 DEF IInv, InOrder
  <2>2. pending[k].seq <= e
    BY <1>0, <1>3
  <2> QED
    BY <1>0, <1>2, <1>4, <2>1, <2>2
<1>7. CASE j = k
  BY <1>4, <1>7
<1> QED
  BY <1>0, <1>5, <1>6, <1>7

LEMMA ObserveIInv ==
  ASSUME IInv, NEW e \in Echoes, ObservePropagationFeedback(e)
  PROVE  IInv'
<1>1. PICK k \in 1 .. Len(pending) :
        /\ mode = "network-aware"
        /\ Echoed(k, e)
        /\ pending' = SubSeq(pending, k + 1, Len(pending))
        /\ IF now <= pending[k].at
             THEN UNCHANGED <<feedback, measured, timerVars>>
             ELSE /\ feedback' = NextFeedback((now - pending[k].at) * TickMs)
                  /\ measured' = [seq |-> e, from |-> pending[k].at]
                  /\ Refresh(feedback')
                  /\ UNCHANGED <<adjusted, activity>>
        /\ UNCHANGED <<mode, entries, call, sentAt, now, own, taken, signals>>
  BY DEF ObservePropagationFeedback
<1>2. /\ entries \in Nat /\ now \in Nat /\ own \in Nat /\ taken \in Nat /\ signals \in Nat
      /\ activity \in Nat /\ feedback \in Feedback /\ pending \in Seq(Entries)
      /\ Len(pending) \in Nat
  BY Types DEF IInv
<1>3. /\ e \in Numbers /\ pending[k].at \in Nat
      /\ e > Earlier => pending[k].at \in sentAt[e]
      /\ \E i \in 1 .. e : pending[k].at \in sentAt[i]
  <2>1. e \in Numbers /\ (e > Earlier => sentAt[e] # {}) /\ e \in Nat
    BY Configured DEF Echoes, Numbers
  <2>2. /\ pending[k].seq \in Numbers /\ pending[k].at \in Nat
        /\ pending[k].at \in sentAt[pending[k].seq]
    BY PendingIsPublished
  <2>3. pending[k].seq \in 1 .. e
    BY <1>1, <1>2, <2>1, <2>2 DEF Echoed, Numbers
  <2>4. e > Earlier => pending[k].seq = e
    BY <1>1, <2>1, EchoIsLast, Configured
  <2> QED
    BY <2>1, <2>2, <2>3, <2>4
<1>4. /\ pending' \in Seq(Entries)
      /\ Len(pending') <= Remembered
      /\ InOrder(pending', sentAt)
  <2>1. k + 1 \in 1 .. Len(pending) + 1 /\ InOrder(pending, sentAt)
    BY <1>2 DEF IInv
  <2>2. /\ pending' \in Seq(Entries)
        /\ Len(pending') = Len(pending) - (k + 1) + 1
        /\ InOrder(pending', sentAt)
    BY <1>1, <1>2, <2>1, SuffixInOrder
  <2>3. Len(pending) <= Remembered /\ Remembered \in Nat
    BY TimerAssumption DEF IInv, TypeOK
  <2> QED
    BY <1>2, <2>2, <2>3
<1>5. mode' \in Modes /\ mode' = mode /\ LeastPeriod' = LeastPeriod
  BY <1>1 DEF IInv, TypeOK, LeastPeriod
<1>6. /\ {period', minPeriod', suppression', activity'} \subseteq Nat
      /\ adjusted' \in BOOLEAN
      /\ feedback' \in Feedback
      /\ measured' \in [seq : Numbers, from : Nat] \union {NoEcho}
      /\ PeriodInBounds' /\ MinInBounds' /\ EchoMatched'
  <2>1. CASE now <= pending[k].at
    <3>1. UNCHANGED <<mode, timerVars>> /\ feedback' = feedback /\ measured' = measured
      BY <1>1, <2>1
    <3>2. EchoMatched' /\ measured' \in [seq : Numbers, from : Nat] \union {NoEcho}
      BY <1>1, <3>1 DEF IInv, TypeOK, EchoMatched
    <3> QED
      BY <1>2, <3>1, <3>2, TimerUnchanged
  <2>2. CASE ~ (now <= pending[k].at)
    <3>1. /\ feedback' = NextFeedback((now - pending[k].at) * TickMs)
          /\ measured' = [seq |-> e, from |-> pending[k].at]
          /\ Refresh(feedback')
          /\ adjusted' = adjusted /\ activity' = activity
      BY <1>1, <2>2
    <3>2. feedback' \in Feedback
      <4>1. (now - pending[k].at) * TickMs \in Nat
        <5>1. now - pending[k].at \in Nat /\ TickMs \in Nat
          BY <1>2, <1>3, <2>2, Configured
        <5> QED
          BY <5>1
      <4> QED
        BY <1>2, <3>1, <4>1, NextFeedbackFacts
    <3>3. /\ period' \in Nat /\ minPeriod' \in Nat /\ suppression' \in Nat
          /\ PeriodInBounds' /\ MinInBounds'
      BY <1>1, <3>1, <3>2, RefreshKeeps
    <3>4. measured' \in [seq : Numbers, from : Nat] \union {NoEcho}
      BY <1>3, <3>1
    <3>5. EchoMatched'
      BY <1>1, <1>3, <3>1 DEF EchoMatched
    <3> QED
      BY <1>2, <3>1, <3>2, <3>3, <3>4, <3>5 DEF IInv, TypeOK
  <2> QED
    BY <2>1, <2>2
<1>7. OwnIsPublished' /\ CallsInBounds'
  BY <1>1, OwnUnchanged, CallsUnchanged
<1>8. TypeOK'
  <2>1. pending' \in Seq([seq : Numbers, at : Nat])
    BY <1>4 DEF Entries
  <2>2. feedback' \in [delay : Nat, jitter : Nat, samples : Nat]
    BY <1>6 DEF Feedback
  <2>3. sentAt' \in [Numbers -> SUBSET Nat]
    BY <1>1 DEF IInv, TypeOK
  <2>4. call' \in [Threads -> Calls \union {NoCall}]
    BY <1>1, CallsUnchanged
  <2> QED
    BY <1>1, <1>2, <1>4, <1>5, <1>6, <2>1, <2>2, <2>3, <2>4 DEF TypeOK
<1>9. InOrder(pending, sentAt)'
  BY <1>1, <1>4
<1> QED
  BY <1>6, <1>7, <1>8, <1>9 DEF IInv

LEMMA NextIInv == IInv /\ [Next]_vars => IInv'
<1> SUFFICES ASSUME IInv, [Next]_vars
             PROVE  IInv'
  OBVIOUS
<1>1. CASE GetSeqNo \/ UpdateSeqNo
  BY <1>1, GetSeqNoIInv, UpdateSeqNoIInv
<1>2. CASE \E signal \in Signals : RemoteSignal(signal)
  BY <1>2, RemoteSignalIInv
<1>3. CASE IdleSignal
  BY <1>3, IdleSignalIInv
<1>4. CASE \E th \in Threads : Finish(th)
  BY <1>4, FinishIInv
<1>5. CASE AdjustmentAges
  BY <1>5, AdjustmentAgesIInv
<1>6. CASE Send
  BY <1>6, SendIInv
<1>7. CASE \E i \in Echoes : ObservePropagationFeedback(i)
  BY <1>7, ObserveIInv
<1>8. CASE Tick
  BY <1>8, TickIInv
<1>9. CASE UNCHANGED vars
  <2>1. /\ UNCHANGED <<mode, timerVars, entries, call, feedbackVars, now, own, taken, signals>>
        /\ UNCHANGED <<own, taken, sentAt>>
    BY <1>9 DEF vars, feedbackVars
  <2>2. entries \in Nat /\ now \in Nat /\ own \in Nat /\ taken \in Nat /\ signals \in Nat
    BY Types DEF IInv
  <2>3. TypeOK'
    BY <2>1, <2>2, TimerUnchanged, CallsUnchanged, FeedbackUnchanged DEF TypeOK
  <2> QED
    BY <2>1, <2>3, TimerUnchanged, CallsUnchanged, FeedbackUnchanged, OwnUnchanged DEF IInv
<1> QED
  BY <1>1, <1>2, <1>3, <1>4, <1>5, <1>6, <1>7, <1>8, <1>9 DEF Next

THEOREM Invariant == Spec => []IInv
BY InitIInv, NextIInv, PTL DEF Spec

\* Every variable keeps its type, and no more than Remembered numbers wait for an
\* echo (core.cpp:977-983).
THEOREM TypeCorrect == Spec => []TypeOK
<1>1. IInv => TypeOK
  BY DEF IInv
<1> QED
  BY <1>1, Invariant, PTL

\* Whatever the two threads read before they write, the period stays between the
\* least minimum and the maximum (core.cpp:533-634, 1058).
THEOREM AlwaysInBounds == Spec => []PeriodInBounds
<1>1. IInv => PeriodInBounds
  BY DEF IInv
<1> QED
  BY <1>1, Invariant, PTL

\* The delay is measured from a time at which the echoed number was sent, or, for an echo
\* of an earlier run, one that is not larger, for any length of the queue and
\* whatever sets the entry back (core.cpp:957, 970-1004).
THEOREM AlwaysEchoMatched == Spec => []EchoMatched
<1>1. IInv => EchoMatched
  BY DEF IInv
<1> QED
  BY <1>1, Invariant, PTL

\* With a configured minimum of 1334 ms or more a reply is always due before a period
\* ends: the suppression time is never above 1200 ms (core.cpp:1047-1056).
THEOREM AlwaysReplyIsSooner ==
  ASSUME ConfiguredMin >= 1334
  PROVE  Spec => []ReplyIsSooner
<1>1. IInv => ReplyIsSooner
  <2> SUFFICES ASSUME IInv
               PROVE  ReplyIsSooner
    OBVIOUS
  <2>1. period \in Nat /\ suppression \in Nat /\ ConfiguredMin \in Nat
    BY Types, Configured DEF IInv
  <2>2. LeastPeriod <= period /\ suppression <= 1200
    BY DEF IInv, PeriodInBounds, MinInBounds
  <2>3. CASE mode = "adaptive"
    <3>1. suppression = 500 /\ LeastPeriod = 1000
      BY <2>3 DEF IInv, MinInBounds, LeastPeriod, MinPeriod
    <3> QED
      BY <2>1, <2>2, <3>1 DEF ReplyIsSooner
  <2>4. CASE mode # "adaptive"
    <3>1. LeastPeriod >= 1334
      BY <2>1, <2>4 DEF LeastPeriod, Smaller
    <3> QED
      BY <2>1, <2>2, <3>1, LeastFacts DEF ReplyIsSooner
  <2> QED
    BY <2>3, <2>4
<1> QED
  BY <1>1, Invariant, PTL

WeightedMean(a, x, y) == Rounded((100 - a) * x + a * y, 100)

\* It lies between the two values.
LEMMA MeanIsBetween ==
  ASSUME NEW x \in Nat, NEW y \in Nat, NEW a \in {4, 7, 10, 16}
  PROVE  /\ WeightedMean(a, x, y) \in Nat
         /\ x <= y => x <= WeightedMean(a, x, y) /\ WeightedMean(a, x, y) <= y
         /\ y <= x => y <= WeightedMean(a, x, y) /\ WeightedMean(a, x, y) <= x
<1>1. CASE a = 4
  BY <1>1 DEF WeightedMean, Rounded
<1>2. CASE a = 7
  BY <1>2 DEF WeightedMean, Rounded
<1>3. CASE a = 10
  BY <1>3 DEF WeightedMean, Rounded
<1>4. CASE a = 16
  BY <1>4 DEF WeightedMean, Rounded
<1> QED
  BY <1>1, <1>2, <1>3, <1>4

\* The period a thread computes is no further from the target than the one it read.
LEMMA AwareIsNearer ==
  ASSUME NEW c \in Calls, feedback \in Feedback
  PROVE  LET target == FeedbackTarget(c.floor)
         IN  Distance(AwarePeriod(c), target) <= Distance(c.current, target)
<1> DEFINE target == FeedbackTarget(c.floor)
           a == Alpha(c.signal)
           v == WeightedMean(a, c.current, target)
<1>1. c.signal \in Signals /\ c.current \in Nat /\ c.floor \in Nat
  BY DEF Calls
<1>2. /\ target \in Nat
      /\ target <= MaxPeriod
      /\ c.floor <= MaxPeriod => c.floor <= target
      /\ MaxPeriod < c.floor => target = MaxPeriod
  BY <1>1, TargetFacts
<1>3. a \in {4, 7, 10, 16}
  BY <1>1 DEF Alpha, Signals
<1>4. AwarePeriod(c) = Clamp(v, c.floor, MaxPeriod)
  BY DEF AwarePeriod, WeightedMean
<1>5. /\ v \in Nat
      /\ c.current <= target => c.current <= v /\ v <= target
      /\ target <= c.current => target <= v /\ v <= c.current
  <2> HIDE DEF target, a
  <2> QED
    BY <1>1, <1>2, <1>3, MeanIsBetween
<1> HIDE DEF target, v
<1>6. Distance(Clamp(v, c.floor, MaxPeriod), target) <= Distance(c.current, target)
  BY <1>1, <1>2, <1>5 DEF Clamp, Smaller, Larger, MaxPeriod, Distance
<1> QED
  BY <1>4, <1>6 DEF target

\* Only Finish ends a call.
LEMMA OnlyFinishEnds ==
  ASSUME IInv, [Next]_vars, NEW th \in Threads, call[th] # NoCall, call'[th] = NoCall
  PROVE  Finish(th)
<1>0. call \in [Threads -> Calls \union {NoCall}] /\ Threads = {"app", "loop"}
  BY DEF IInv, TypeOK, Threads
<1>1. call' # call
  OBVIOUS
<1>2. ASSUME NEW t \in Threads, NEW signal, NEW size, Begin(t, signal, size)
      PROVE  FALSE
  <2>1. t # th
    BY <1>2 DEF Begin
  <2> QED
    BY <1>0, <1>2, <2>1 DEF Begin
<1>3. CASE GetSeqNo \/ UpdateSeqNo
  BY <1>0, <1>1, <1>2, <1>3 DEF GetSeqNo, UpdateSeqNo
<1>4. CASE \E signal \in Signals : RemoteSignal(signal)
  BY <1>0, <1>2, <1>4 DEF RemoteSignal
<1>5. CASE IdleSignal
  BY <1>0, <1>2, <1>5 DEF IdleSignal
<1>6. CASE \E t \in Threads : Finish(t)
  <2>1. PICK t \in Threads : Finish(t)
    BY <1>6
  <2>2. t = th
    BY <1>0, <2>1 DEF Finish
  <2> QED
    BY <2>1, <2>2
<1>7. CASE AdjustmentAges \/ Send \/ Tick \/ \E i \in Echoes : ObservePropagationFeedback(i)
  BY <1>1, <1>7 DEF AdjustmentAges, Send, Tick, ObservePropagationFeedback
<1>8. CASE UNCHANGED vars
  BY <1>1, <1>8 DEF vars
<1> QED
  BY <1>3, <1>4, <1>5, <1>6, <1>7, <1>8 DEF Next

\* Whatever the two threads do in between, the period a thread writes is no further
\* from its target than the one it read, for any delays and any floor, also one
\* above the maximum (core.cpp:600-628).
THEOREM AlwaysTowardsTarget == Spec => TowardsTarget
<1> DEFINE Nearer ==
      \A th \in Threads :
        /\ mode = "network-aware"
        /\ ~ adjusted
        /\ call[th] # NoCall
        /\ call'[th] = NoCall
        => LET target == FeedbackTarget(call[th].floor)
           IN  Distance(period', target) <= Distance(call[th].current, target)
<1>1. IInv /\ [Next]_vars => Nearer
  <2> SUFFICES ASSUME IInv, [Next]_vars, NEW th \in Threads,
                      mode = "network-aware", ~ adjusted,
                      call[th] # NoCall, call'[th] = NoCall
               PROVE  LET target == FeedbackTarget(call[th].floor)
                      IN  Distance(period', target) <= Distance(call[th].current, target)
    BY DEF Nearer
  <2>1. call[th] \in Calls /\ feedback \in Feedback
    BY Types DEF IInv, TypeOK
  <2>2. period' = AwarePeriod(call[th])
    BY OnlyFinishEnds DEF Finish
  <2> QED
    BY <2>1, <2>2, AwareIsNearer
<1>2. Spec => [][Nearer]_vars
  <2> HIDE DEF Nearer
  <2>1. IInv /\ [Next]_vars => [Nearer]_vars
    BY <1>1
  <2> QED
    BY <2>1, Invariant, PTL DEF Spec
<1> QED
  BY <1>2 DEF TowardsTarget, Nearer
=============================================================================
