--------------------------- MODULE FetcherProofs ----------------------------
(***************************************************************************)
(* Proofs about Fetcher, for any set of requests, any window and any       *)
(* numbers of retries: type correctness, the invariants of FetcherProps    *)
(* and that Fetcher implements Exchanges.                                  *)
(***************************************************************************)
EXTENDS FetcherProps, FiniteSetTheorems, SequenceTheorems, TLAPS

USE FetcherAssumption

-----------------------------------------------------------------------------
(* The inductive invariant, over the values a handler enters processQueue  *)
(* with: queue q and pending attempts p, validating v, delayed d, issued i,*)
(* answers ans, and sent s.                                                *)

Typed(q, p, v, d, i, ans, s) ==
  /\ q \in Seq(Attempts)
  /\ p \in SUBSET Attempts /\ IsFiniteSet(p)
  /\ v \in SUBSET Attempts
  /\ d \in SUBSET Attempts
  /\ i \in SUBSET Requests
  /\ ans \in [Requests -> Seq(Outcomes)]
  /\ s \in [Requests -> Nat]

\* No request has two attempts.
Single(q, p, v, d) ==
  /\ \A j, k \in 1 .. Len(q) : q[j].request = q[k].request => j = k
  /\ \A a, b \in p : a.request = b.request => a = b
  /\ \A a, b \in v : a.request = b.request => a = b
  /\ \A a, b \in d : a.request = b.request => a = b
  /\ \A k \in 1 .. Len(q) : \A a \in p \union v \union d : q[k].request # a.request
  /\ \A a \in p : \A b \in v \union d : a.request # b.request
  /\ \A a \in v : \A b \in d : a.request # b.request

\* A request with an attempt was made and has no answer yet.
Unanswered(q, p, v, d, i, ans) ==
  /\ \A k \in 1 .. Len(q) : q[k].request \in i /\ ans[q[k].request] = <<>>
  /\ \A a \in p \union v \union d : a.request \in i /\ ans[a.request] = <<>>
  /\ \A r \in Requests : Len(ans[r]) <= 1 /\ (ans[r] # <<>> => r \in i)

\* What a request was sent and what it may still be sent, extra times, are
\* within what it may be sent at all.
Within(a, s, extra) ==
  Retries[a.request] >= 0 =>
    /\ a.retries >= 0
    /\ s[a.request] + a.retries + a.validationRetries
         <= extra + Retries[a.request] + ValidationRetries

Counted(q, p, v, d, i, s) ==
  /\ \A k \in 1 .. Len(q) : Within(q[k], s, 0)
  /\ \A a \in p \union v \union d : Within(a, s, 1)
  /\ \A a \in d : a.validationRetries > 0
  /\ \A r \in Requests : r \notin i => s[r] = 0
  /\ \A r \in Requests :
       Retries[r] >= 0 => s[r] <= 1 + Retries[r] + ValidationRetries

Consistent(q, p, v, d, i, ans, s) ==
  /\ Typed(q, p, v, d, i, ans, s)
  /\ Single(q, p, v, d)
  /\ Unanswered(q, p, v, d, i, ans)
  /\ Counted(q, p, v, d, i, s)
  /\ Cardinality(p) <= Window

IInv ==
  /\ validates \in BOOLEAN
  /\ validating # {} => validates
  /\ Consistent(queue, pending, validating, delayed, issued, answers, sent)
  /\ WindowUsed

\* The invariant implies what it is for.
LEMMA InvariantImplies == IInv => TypeOK /\ OneAttempt /\ SentBounded
<1> SUFFICES ASSUME IInv PROVE TypeOK /\ OneAttempt /\ SentBounded
  OBVIOUS
<1> USE DEF IInv, Consistent
<1>1. TypeOK
  BY DEF TypeOK, Typed
<1>2. DOMAIN queue = 1 .. Len(queue)
  BY DEF Typed
<1>3. OneAttempt
  <2> DEFINE held == pending \union validating \union delayed
  <2>1. Queued \intersect RequestsOf(held) = {}
    BY <1>2 DEF Single, Queued, RequestsIn, RequestsOf
  <2>2. /\ RequestsOf(pending) \intersect RequestsOf(validating \union delayed) = {}
        /\ RequestsOf(validating) \intersect RequestsOf(delayed) = {}
    BY DEF Single, RequestsOf
  <2>3. Answered \intersect Queued = {} /\ Queued \subseteq issued
    BY <1>2 DEF Unanswered, Answered, Queued, RequestsIn
  <2>4. Answered \intersect RequestsOf(held) = {} /\ RequestsOf(held) \subseteq issued
    BY DEF Unanswered, Answered, RequestsOf
  <2>5. Answered \subseteq issued /\ \A r \in Requests : Len(answers[r]) <= 1
    BY DEF Unanswered, Answered
  <2>6. \A S \in {pending, validating, delayed} :
          \A a, b \in S : a.request = b.request => a = b
    BY DEF Single
  <2>7. \A i, j \in DOMAIN queue : queue[i].request = queue[j].request => i = j
    BY <1>2 DEF Single
  <2> QED
    BY <2>1, <2>2, <2>3, <2>4, <2>5, <2>6, <2>7 DEF OneAttempt, Open
<1>4. SentBounded
  BY DEF SentBounded, Counted
<1> QED
  BY <1>1, <1>3, <1>4

-----------------------------------------------------------------------------
(* processQueue. *)

\* The requests that have an attempt somewhere.
Held(q, p, v, d) == RequestsIn(q) \union RequestsOf(p \union v \union d)

\* The number of attempts sent is within the queue and within the window, and
\* exhausts one of them.
LEMMA SendableFacts ==
  ASSUME NEW q \in Seq(Attempts), NEW p, IsFiniteSet(p), Cardinality(p) <= Window
  PROVE  /\ Sendable(q, p) \in 0 .. Len(q)
         /\ Sendable(q, p) + Cardinality(p) <= Window
         /\ Sendable(q, p) < Len(q) => Sendable(q, p) + Cardinality(p) = Window
<1>1. Cardinality(p) \in Nat /\ Len(q) \in Nat
  BY FS_CardinalityType
<1> QED
  BY <1>1 DEF Sendable, Smaller

\* The attempts that are sent are as many as their positions.
LEMMA SentAttempts ==
  ASSUME NEW q \in Seq(Attempts), NEW n \in 0 .. Len(q),
         \A j, k \in 1 .. Len(q) : q[j].request = q[k].request => j = k
  PROVE  LET now == {q[k] : k \in 1 .. n}
         IN  now \in SUBSET Attempts /\ IsFiniteSet(now) /\ Cardinality(now) = n
<1> DEFINE now == {q[k] : k \in 1 .. n}
           at  == [k \in 1 .. n |-> q[k]]
<1>1. now \in SUBSET Attempts
  OBVIOUS
<1>2. at \in Injection(1 .. n, now)
  BY DEF Injection, IsInjective
<1>3. at \in Surjection(1 .. n, now)
  BY DEF Surjection
<1>4. ExistsBijection(1 .. n, now)
  BY <1>2, <1>3 DEF ExistsBijection, Bijection
<1>5. IsFiniteSet(1 .. n) /\ Cardinality(1 .. n) = n
  BY FS_Interval
<1> HIDE DEF now, at
<1>6. IsFiniteSet(now) /\ Cardinality(now) = n
  BY <1>4, <1>5, FS_Bijection
<1> QED
  BY <1>1, <1>6 DEF now

\* Whatever a handler left for processQueue in good order, processQueue leaves so,
\* and uses the window.
LEMMA ProcessQueueKeeps ==
  ASSUME NEW q, NEW p, NEW v, NEW d, NEW i, NEW ans,
         Consistent(q, p, v, d, i, ans, sent),
         ProcessQueue(q, p)
  PROVE  /\ Consistent(queue', pending', v, d, i, ans, sent')
         /\ WindowUsed'
         /\ Held(queue', pending', v, d) = Held(q, p, v, d)
<1> DEFINE count == Sendable(q, p)
           now   == {q[k] : k \in 1 .. count}
<1>1. /\ q \in Seq(Attempts) /\ p \in SUBSET Attempts /\ IsFiniteSet(p)
      /\ v \in SUBSET Attempts /\ d \in SUBSET Attempts /\ i \in SUBSET Requests
      /\ ans \in [Requests -> Seq(Outcomes)] /\ sent \in [Requests -> Nat]
      /\ Cardinality(p) <= Window
  BY DEF Consistent, Typed
<1>2. /\ count \in 0 .. Len(q)
      /\ count + Cardinality(p) <= Window
      /\ count < Len(q) => count + Cardinality(p) = Window
  BY <1>1, SendableFacts
<1>3. now \in SUBSET Attempts /\ IsFiniteSet(now) /\ Cardinality(now) = count
  BY <1>1, <1>2, SentAttempts DEF Consistent, Single
<1>4. /\ queue' = SubSeq(q, count + 1, Len(q))
      /\ pending' = p \union now
      /\ sent' = [r \in Requests |-> IF r \in RequestsOf(now) /\ Retries[r] >= 0
                                      THEN sent[r] + 1 ELSE sent[r]]
  BY DEF ProcessQueue
<1>5. /\ queue' \in Seq(Attempts)
      /\ Len(queue') = Len(q) - count
      /\ \A k \in 1 .. Len(queue') : /\ count + k \in 1 .. Len(q)
                                     /\ queue'[k] = q[count + k]
  <2>1. Len(q) \in Nat /\ count \in Nat /\ count + 1 \in Int /\ Len(q) \in Int
    BY <1>1, <1>2
  <2>2. \A k \in count + 1 .. Len(q) : q[k] \in Attempts
    BY <1>1, <2>1
  <2> HIDE DEF count
  <2>3. /\ SubSeq(q, count + 1, Len(q)) \in Seq(Attempts)
        /\ Len(SubSeq(q, count + 1, Len(q)))
             = IF count + 1 <= Len(q) THEN Len(q) - (count + 1) + 1 ELSE 0
        /\ \A k \in 1 .. Len(q) - (count + 1) + 1 :
              SubSeq(q, count + 1, Len(q))[k] = q[count + 1 + k - 1]
    BY <2>1, <2>2, SubSeqProperties
  <2> QED
    BY <1>2, <1>4, <2>1, <2>3
<1>6. \A a \in now : \E k \in 1 .. Len(q) : k <= count /\ a = q[k]
  BY <1>2
<1>7. now \intersect p = {}
  <2>1. \A k \in 1 .. Len(q) : \A a \in p : q[k].request # a.request
    BY DEF Consistent, Single
  <2> HIDE DEF now, count
  <2> QED
    BY <1>6, <2>1
<1>8. Cardinality(pending') = Cardinality(p) + count /\ IsFiniteSet(pending')
  <2>1. p \intersect now = {}
    BY <1>7
  <2>2. Cardinality(p) \in Nat /\ count \in Nat
    BY <1>1, <1>2, FS_CardinalityType
  <2>3. /\ IsFiniteSet(p \union now)
        /\ Cardinality(p \union now)
             = Cardinality(p) + Cardinality(now) - Cardinality(p \intersect now)
    BY <1>1, <1>3, FS_Union
  <2>4. Cardinality(p \intersect now) = 0
    BY <2>1, FS_EmptySet, Zenon
  <2>5. Cardinality(pending') = Cardinality(p \union now) /\ IsFiniteSet(pending')
    BY <1>4, <2>3, Zenon
  <2> HIDE DEF count, now
  <2> QED
    BY <1>3, <2>2, <2>3, <2>4, <2>5
<1> HIDE DEF count, now
<1>9. sent' \in [Requests -> Nat]
  BY <1>1, <1>4
<1>10. /\ Len(q) \in Nat /\ count \in Nat
       /\ \A k \in 1 .. Len(q) : q[k] \in Attempts /\ q[k].request \in Requests
  <2>1. Len(q) \in Nat /\ count \in Nat
    BY <1>1, <1>2
  <2>2. ASSUME NEW k \in 1 .. Len(q) PROVE q[k] \in Attempts
    BY <1>1
  <2> QED
    BY <2>1, <2>2 DEF Attempts
\* Where the attempts were, and how often their requests had been sent.
<1>11. ASSUME NEW k \in 1 .. Len(queue')
       PROVE  /\ count + k \in 1 .. Len(q) /\ queue'[k] = q[count + k]
              /\ sent'[queue'[k].request] = sent[queue'[k].request]
  <2>1. count + k \in 1 .. Len(q) /\ queue'[k] = q[count + k]
    BY <1>5
  <2>2. q[count + k].request \notin RequestsOf(now)
    <3>1. \A j \in 1 .. Len(q) : j <= count => q[j].request # q[count + k].request
      BY <1>1, <1>2, <2>1 DEF Consistent, Single
    <3> QED
      BY <1>6, <3>1 DEF RequestsOf
  <2>3. q[count + k].request \in Requests
    BY <1>10, <2>1
  <2> QED
    BY <1>4, <2>1, <2>2, <2>3
<1>12. ASSUME NEW a \in p \union v \union d
       PROVE  /\ a.request \notin RequestsOf(now)
              /\ sent'[a.request] = sent[a.request]
  <2>1. a.request \notin RequestsOf(now)
    <3>1. \A k \in 1 .. Len(q) : q[k].request # a.request
      BY DEF Consistent, Single
    <3> QED
      BY <1>6, <3>1 DEF RequestsOf
  <2>2. a.request \in Requests
    BY <1>1 DEF Attempts
  <2> QED
    BY <1>4, <2>1, <2>2
<1>13. ASSUME NEW a \in now
       PROVE  /\ \E k \in 1 .. Len(q) : k <= count /\ a = q[k]
              /\ Retries[a.request] >= 0 => sent'[a.request] = sent[a.request] + 1
  BY <1>1, <1>3, <1>4, <1>6 DEF RequestsOf, Attempts
<1>14. \A j, k \in 1 .. Len(q) : q[j].request = q[k].request => j = k
  BY DEF Consistent, Single
<1>15. Single(queue', pending', v, d)
  <2>1. ASSUME NEW j \in 1 .. Len(queue'), NEW k \in 1 .. Len(queue'),
               queue'[j].request = queue'[k].request
        PROVE  j = k
    <3>1. /\ count + j \in 1 .. Len(q) /\ queue'[j] = q[count + j]
          /\ count + k \in 1 .. Len(q) /\ queue'[k] = q[count + k]
      BY <1>11
    <3>2. count + j = count + k
      BY <1>14, <2>1, <3>1
    <3> QED
      BY <1>5, <1>10, <3>2
  <2>2. \A a \in p \union v \union d : \A b \in now : a.request # b.request
    BY <1>12 DEF RequestsOf
  <2>3. \A a, b \in now : a.request = b.request => a = b
    BY <1>6, <1>14
  <2>4. \A a, b \in pending' : a.request = b.request => a = b
    <3>1. \A a, b \in p : a.request = b.request => a = b
      BY DEF Consistent, Single
    <3> QED
      BY <1>4, <2>2, <2>3, <3>1
  <2>5. \A k \in 1 .. Len(queue') : \A a \in p \union v \union d :
          queue'[k].request # a.request
    <3>1. \A k \in 1 .. Len(q) : \A a \in p \union v \union d :
            q[k].request # a.request
      BY DEF Consistent, Single
    <3> QED
      BY <1>11, <3>1
  <2>6. ASSUME NEW k \in 1 .. Len(queue'), NEW a \in now
        PROVE  queue'[k].request # a.request
    <3>1. PICK j \in 1 .. Len(q) : j <= count /\ a = q[j]
      BY <1>6
    <3>2. count + k \in 1 .. Len(q) /\ queue'[k] = q[count + k] /\ count + k # j
      BY <1>10, <1>11, <3>1
    <3> QED
      BY <1>14, <3>1, <3>2
  <2>7. \A a \in pending' : \A b \in v \union d : a.request # b.request
    <3>1. \A a \in p : \A b \in v \union d : a.request # b.request
      BY DEF Consistent, Single
    <3> QED
      BY <1>4, <2>2, <3>1
  <2>8. /\ \A a, b \in v : a.request = b.request => a = b
        /\ \A a, b \in d : a.request = b.request => a = b
        /\ \A a \in v : \A b \in d : a.request # b.request
    BY DEF Consistent, Single
  <2>9. \A k \in 1 .. Len(queue') : \A a \in pending' \union v \union d :
          queue'[k].request # a.request
    BY <1>4, <2>5, <2>6
  <2> QED
    BY <2>1, <2>4, <2>7, <2>8, <2>9 DEF Single
<1>16. Unanswered(queue', pending', v, d, i, ans)
  <2>1. \A k \in 1 .. Len(queue') : /\ queue'[k].request \in i
                                    /\ ans[queue'[k].request] = <<>>
    <3>1. \A k \in 1 .. Len(q) : q[k].request \in i /\ ans[q[k].request] = <<>>
      BY DEF Consistent, Unanswered
    <3> QED
      BY <1>11, <3>1
  <2>2. \A a \in now : a.request \in i /\ ans[a.request] = <<>>
    <3>1. \A k \in 1 .. Len(q) : q[k].request \in i /\ ans[q[k].request] = <<>>
      BY DEF Consistent, Unanswered
    <3> QED
      BY <1>6, <3>1
  <2>3. /\ \A a \in p \union v \union d : a.request \in i /\ ans[a.request] = <<>>
        /\ \A r \in Requests : Len(ans[r]) <= 1 /\ (ans[r] # <<>> => r \in i)
    BY DEF Consistent, Unanswered
  <2>4. \A a \in pending' \union v \union d : a.request \in i /\ ans[a.request] = <<>>
    BY <1>4, <2>2, <2>3
  <2> QED
    BY <2>1, <2>3, <2>4 DEF Unanswered
<1>17. Counted(queue', pending', v, d, i, sent')
  <2>1. ASSUME NEW k \in 1 .. Len(queue') PROVE Within(queue'[k], sent', 0)
    <3>1. /\ count + k \in 1 .. Len(q) /\ queue'[k] = q[count + k]
          /\ sent'[queue'[k].request] = sent[queue'[k].request]
      BY <1>11
    <3>2. \A j \in 1 .. Len(q) : Within(q[j], sent, 0)
      BY DEF Consistent, Counted
    <3>3. Within(queue'[k], sent, 0)
      BY <3>1, <3>2
    <3> QED
      BY <3>1, <3>3 DEF Within
  <2>2. \A a \in p \union v \union d : Within(a, sent', 1)
    <3>1. \A a \in p \union v \union d : Within(a, sent, 1)
      BY DEF Consistent, Counted
    <3> QED
      BY <1>12, <3>1 DEF Within
  <2>3. ASSUME NEW a \in now PROVE Within(a, sent', 1)
    <3>1. Within(a, sent, 0)
      <4>1. \A k \in 1 .. Len(q) : Within(q[k], sent, 0)
        BY DEF Consistent, Counted
      <4> QED
        BY <1>6, <4>1
    <3>2. /\ a.request \in Requests /\ a.retries \in Int /\ a.validationRetries \in Nat
          /\ sent[a.request] \in Nat
      BY <1>1, <1>3 DEF Attempts
    <3>3. Retries[a.request] \in Int /\ ValidationRetries \in Nat
      BY <3>2
    <3>4. Retries[a.request] >= 0 => sent'[a.request] = sent[a.request] + 1
      BY <1>13
    <3> QED
      BY <3>1, <3>2, <3>3, <3>4 DEF Within
  <2>4. ASSUME NEW r \in Requests
        PROVE  /\ r \notin i => sent'[r] = 0
               /\ Retries[r] >= 0 => sent'[r] <= 1 + Retries[r] + ValidationRetries
    <3>1. CASE r \in RequestsOf(now)
      <4>1. PICK a \in now : a.request = r
        BY <3>1 DEF RequestsOf
      <4>2. a.retries \in Int /\ a.validationRetries \in Nat /\ sent'[r] \in Nat
        BY <1>3, <1>9 DEF Attempts
      <4>3. r \in i
        BY <1>13, <4>1 DEF Consistent, Unanswered
      <4> QED
        BY <2>3, <4>1, <4>2, <4>3 DEF Within
    <3>2. CASE r \notin RequestsOf(now)
      <4>1. sent'[r] = sent[r]
        BY <1>4, <3>2
      <4> QED
        BY <4>1 DEF Consistent, Counted
    <3> QED
      BY <3>1, <3>2
  <2> QED
    BY <1>4, <2>1, <2>2, <2>3, <2>4 DEF Consistent, Counted
<1>18. WindowUsed' /\ Cardinality(pending') <= Window
  <2>1. Cardinality(p) \in Nat
    BY <1>1, FS_CardinalityType
  <2>2. Cardinality(pending') <= Window
    BY <1>2, <1>8, <1>10, <2>1
  <2>3. queue' # <<>> => Cardinality(pending') = Window
    BY <1>2, <1>5, <1>8, <1>10, <2>1
  <2> QED
    BY <2>2, <2>3 DEF WindowUsed
<1>19. RequestsIn(queue') \union RequestsOf(pending') = RequestsIn(q) \union RequestsOf(p)
  <2>1. DOMAIN queue' = 1 .. Len(queue') /\ DOMAIN q = 1 .. Len(q)
    BY <1>1, <1>5
  <2>2. RequestsIn(queue') \subseteq RequestsIn(q)
    BY <1>11, <2>1 DEF RequestsIn
  <2>3. RequestsOf(pending') \subseteq RequestsIn(q) \union RequestsOf(p)
    <3>1. RequestsOf(now) \subseteq RequestsIn(q)
      BY <1>13, <2>1 DEF RequestsIn, RequestsOf
    <3> QED
      BY <1>4, <3>1 DEF RequestsOf
  <2>4. RequestsOf(p) \subseteq RequestsOf(pending')
    BY <1>4 DEF RequestsOf
  <2>5. ASSUME NEW k \in 1 .. Len(q)
        PROVE  q[k].request \in RequestsIn(queue') \union RequestsOf(pending')
    <3>1. CASE k <= count
      <4>1. q[k] \in pending'
        BY <1>4, <1>10, <3>1 DEF now
      <4> QED
        BY <4>1 DEF RequestsOf
    <3>2. CASE k > count
      <4>1. k - count \in 1 .. Len(queue') /\ queue'[k - count] = q[k]
        BY <1>5, <1>10, <3>2
      <4> QED
        BY <2>1, <4>1 DEF RequestsIn
    <3> QED
      BY <1>10, <3>1, <3>2
  <2>6. RequestsIn(q) \subseteq RequestsIn(queue') \union RequestsOf(pending')
    BY <2>1, <2>5 DEF RequestsIn
  <2> QED
    BY <2>2, <2>3, <2>4, <2>6
<1>20. Typed(queue', pending', v, d, i, ans, sent')
  BY <1>1, <1>3, <1>4, <1>5, <1>8, <1>9 DEF Typed
<1>21. Held(queue', pending', v, d) = Held(q, p, v, d)
  BY <1>19 DEF Held, RequestsOf
<1> QED
  BY <1>15, <1>16, <1>17, <1>18, <1>20, <1>21 DEF Consistent

-----------------------------------------------------------------------------
(* What a handler does before it enters processQueue. *)

Absent(r, q, p, v, d) ==
  /\ \A k \in 1 .. Len(q) : q[k].request # r
  /\ \A a \in p \union v \union d : a.request # r

\* Everything is in order, and attempt a, just taken from its place, may be put
\* elsewhere or answered.
Free(a, q, p, v, d, i, ans, s) ==
  /\ Consistent(q, p, v, d, i, ans, s)
  /\ a \in Attempts
  /\ a.request \in Requests
  /\ a.request \in i
  /\ ans[a.request] = <<>>
  /\ Within(a, s, 1)
  /\ Absent(a.request, q, p, v, d)

\* T is S without r, which is in S.
Loses(S, r, T) == r \in S /\ T = S \ {r}

\* T is S and r.
Gains(S, r, T) == T = S \union {r}

\* An attempt is taken from the one place that holds it.
LEMMA Take ==
  ASSUME NEW q, NEW p, NEW v, NEW d, NEW i, NEW ans, NEW s,
         Consistent(q, p, v, d, i, ans, s),
         NEW a, a \in p \/ a \in v \/ a \in d
  PROVE  /\ a \in p => /\ Free(a, q, p \ {a}, v, d, i, ans, s)
                      /\ Loses(Held(q, p, v, d), a.request, Held(q, p \ {a}, v, d))
         /\ a \in v => /\ Free(a, q, p, v \ {a}, d, i, ans, s)
                      /\ Loses(Held(q, p, v, d), a.request, Held(q, p, v \ {a}, d))
         /\ a \in d => /\ Free(a, q, p, v, d \ {a}, i, ans, s)
                      /\ Loses(Held(q, p, v, d), a.request, Held(q, p, v, d \ {a}))
                      /\ a.validationRetries > 0
<1> USE DEF Consistent
<1>1. IsFiniteSet(p \ {a}) /\ Cardinality(p \ {a}) <= Window
  <2>1. IsFiniteSet(p) /\ Cardinality(p) \in Nat /\ Cardinality(p) <= Window
    BY FS_CardinalityType DEF Typed
  <2>2. /\ IsFiniteSet(p \ {a})
        /\ Cardinality(p \ {a}) = IF a \in p THEN Cardinality(p) - 1 ELSE Cardinality(p)
    BY <2>1, FS_RemoveElement
  <2> QED
    BY <2>1, <2>2
<1>2. Typed(q, p \ {a}, v \ {a}, d \ {a}, i, ans, s)
  BY <1>1 DEF Typed
<1>3. Single(q, p \ {a}, v \ {a}, d \ {a})
  BY DEF Single
<1>4. Unanswered(q, p \ {a}, v \ {a}, d \ {a}, i, ans)
  BY DEF Unanswered
<1>5. Counted(q, p \ {a}, v \ {a}, d \ {a}, i, s)
  BY DEF Counted
<1>6. Absent(a.request, q, p \ {a}, v \ {a}, d \ {a})
  BY DEF Absent, Single
<1>7. /\ a \in Attempts /\ a.request \in i /\ ans[a.request] = <<>>
      /\ a.request \in Requests /\ Within(a, s, 1)
  BY DEF Typed, Unanswered, Counted, Attempts
<1>8. Free(a, q, p \ {a}, v \ {a}, d \ {a}, i, ans, s)
  BY <1>1, <1>2, <1>3, <1>4, <1>5, <1>6, <1>7 DEF Free
<1>9. Loses(Held(q, p, v, d), a.request, Held(q, p \ {a}, v \ {a}, d \ {a}))
  <2> DEFINE rest == (p \ {a}) \union (v \ {a}) \union (d \ {a})
  <2>1. p \union v \union d = rest \union {a}
    OBVIOUS
  <2>2. RequestsOf(p \union v \union d) = RequestsOf(rest) \union {a.request}
    BY <2>1 DEF RequestsOf
  <2>3. a.request \notin RequestsOf(rest)
    BY <1>6 DEF Absent, RequestsOf
  <2>4. a.request \notin RequestsIn(q)
    <3>1. DOMAIN q = 1 .. Len(q)
      BY DEF Typed
    <3> QED
      BY <1>6, <3>1 DEF Absent, RequestsIn
  <2> QED
    BY <2>2, <2>3, <2>4 DEF Held, Loses
<1>10. CASE a \in p
  <2>1. v \ {a} = v /\ d \ {a} = d /\ a \notin v /\ a \notin d
    BY <1>10 DEF Single
  <2> QED
    BY <1>8, <1>9, <2>1, Zenon
<1>11. CASE a \in v
  <2>1. p \ {a} = p /\ d \ {a} = d /\ a \notin p /\ a \notin d
    BY <1>11 DEF Single
  <2> QED
    BY <1>8, <1>9, <2>1, Zenon
<1>12. CASE a \in d
  <2>1. p \ {a} = p /\ v \ {a} = v /\ a \notin p /\ a \notin v /\ a.validationRetries > 0
    BY <1>12 DEF Single, Counted
  <2> QED
    BY <1>8, <1>9, <2>1, Zenon
<1> QED
  BY <1>10, <1>11, <1>12

\* An attempt of a request that has none is queued.
LEMMA Queue ==
  ASSUME NEW a, NEW q, NEW p, NEW v, NEW d, NEW i, NEW ans, NEW s,
         Free(a, q, p, v, d, i, ans, s), NEW b \in Attempts,
         b.request = a.request, Within(b, s, 0)
  PROVE  /\ Consistent(Append(q, b), p, v, d, i, ans, s)
         /\ Gains(Held(q, p, v, d), a.request, Held(Append(q, b), p, v, d))
<1> USE DEF Free, Consistent
<1> DEFINE qa == Append(q, b)
<1>1. /\ qa \in Seq(Attempts) /\ Len(qa) = Len(q) + 1 /\ Len(q) \in Nat
      /\ \A k \in 1 .. Len(q) : qa[k] = q[k]
      /\ qa[Len(q) + 1] = b
  BY AppendProperties DEF Typed
<1> HIDE DEF qa
<1>2. \A k \in 1 .. Len(qa) : \/ k \in 1 .. Len(q) /\ qa[k] = q[k]
                              \/ k = Len(q) + 1 /\ qa[k] = b
  BY <1>1
<1>3. Typed(qa, p, v, d, i, ans, s)
  BY <1>1 DEF Typed
<1>4. Single(qa, p, v, d)
  <2>1. \A k \in 1 .. Len(q) : q[k].request # b.request
    BY DEF Absent
  <2>2. ASSUME NEW j \in 1 .. Len(qa), NEW k \in 1 .. Len(qa),
               qa[j].request = qa[k].request
        PROVE  j = k
    <3>1. CASE j \in 1 .. Len(q) /\ k \in 1 .. Len(q)
      BY <1>1, <2>2, <3>1 DEF Single
    <3> QED
      BY <1>1, <1>2, <2>1, <2>2, <3>1
  <2>3. \A k \in 1 .. Len(qa) : \A c \in p \union v \union d :
          qa[k].request # c.request
    BY <1>2 DEF Single, Absent
  <2> QED
    BY <2>2, <2>3 DEF Single
<1>5. Unanswered(qa, p, v, d, i, ans)
  BY <1>2 DEF Unanswered
<1>6. Counted(qa, p, v, d, i, s)
  BY <1>2 DEF Counted
<1>7. RequestsIn(qa) = RequestsIn(q) \union {a.request}
  <2>1. DOMAIN qa = 1 .. Len(q) + 1 /\ DOMAIN q = 1 .. Len(q)
    BY <1>1 DEF Typed
  <2>2. RequestsIn(qa) \subseteq RequestsIn(q) \union {a.request}
    <3>1. \A k \in DOMAIN qa :
            qa[k].request \in {q[j].request : j \in DOMAIN q} \union {a.request}
      BY <1>1, <1>2, <2>1
    <3> QED
      BY <3>1 DEF RequestsIn
  <2>3. RequestsIn(q) \union {a.request} \subseteq RequestsIn(qa)
    <3>1. /\ \A k \in DOMAIN q : k \in DOMAIN qa /\ qa[k].request = q[k].request
          /\ Len(q) + 1 \in DOMAIN qa /\ qa[Len(q) + 1].request = a.request
      BY <1>1, <2>1
    <3> QED
      BY <3>1 DEF RequestsIn
  <2> QED
    BY <2>2, <2>3
<1> QED
  BY <1>3, <1>4, <1>5, <1>6, <1>7 DEF qa, Held, Gains

\* The validator, or the scheduler, gets an attempt of a request that has none.
LEMMA Hand ==
  ASSUME NEW a, NEW q, NEW p, NEW v, NEW d, NEW i, NEW ans, NEW s,
         Free(a, q, p, v, d, i, ans, s)
  PROVE  /\ Consistent(q, p, v \union {a}, d, i, ans, s)
         /\ a.validationRetries > 0 => Consistent(q, p, v, d \union {a}, i, ans, s)
         /\ Gains(Held(q, p, v, d), a.request, Held(q, p, v \union {a}, d))
         /\ Gains(Held(q, p, v, d), a.request, Held(q, p, v, d \union {a}))
<1> USE DEF Free, Consistent
<1>1. Consistent(q, p, v \union {a}, d, i, ans, s)
  <2>1. Typed(q, p, v \union {a}, d, i, ans, s)
    BY DEF Typed
  <2>2. Single(q, p, v \union {a}, d)
    BY DEF Single, Absent
  <2>3. Unanswered(q, p, v \union {a}, d, i, ans)
    BY DEF Unanswered
  <2>4. Counted(q, p, v \union {a}, d, i, s)
    BY DEF Counted
  <2> QED
    BY <2>1, <2>2, <2>3, <2>4
<1>2. ASSUME a.validationRetries > 0 PROVE Consistent(q, p, v, d \union {a}, i, ans, s)
  <2>1. Typed(q, p, v, d \union {a}, i, ans, s)
    BY DEF Typed
  <2>2. Single(q, p, v, d \union {a})
    BY DEF Single, Absent
  <2>3. Unanswered(q, p, v, d \union {a}, i, ans)
    BY DEF Unanswered
  <2>4. Counted(q, p, v, d \union {a}, i, s)
    BY <1>2 DEF Counted
  <2> QED
    BY <2>1, <2>2, <2>3, <2>4
<1>3. /\ Gains(Held(q, p, v, d), a.request, Held(q, p, v \union {a}, d))
      /\ Gains(Held(q, p, v, d), a.request, Held(q, p, v, d \union {a}))
  BY DEF Held, RequestsOf, Gains
<1> QED
  BY <1>1, <1>2, <1>3

\* What RunCallback makes of the answers.
Told(ans, r, outcome) == [ans EXCEPT ![r] = Append(@, outcome)]

\* The callback of a request that has no attempt runs.
LEMMA Close ==
  ASSUME NEW a, NEW q, NEW p, NEW v, NEW d, NEW i, NEW ans, NEW s,
         Free(a, q, p, v, d, i, ans, s), NEW outcome \in Outcomes
  PROVE  /\ Consistent(q, p, v, d, i, Told(ans, a.request, outcome), s)
         /\ Told(ans, a.request, outcome) = [ans EXCEPT ![a.request] = <<outcome>>]
<1> USE DEF Free, Consistent
<1> DEFINE r    == a.request
           told == Told(ans, r, outcome)
<1>1. Append(<<>>, outcome) = <<outcome>>
  OBVIOUS
<1>2. /\ told \in [Requests -> Seq(Outcomes)] /\ told[r] = <<outcome>>
      /\ \A x \in Requests : x # r => told[x] = ans[x]
  BY <1>1 DEF Typed, Told
<1>3. told = [ans EXCEPT ![r] = <<outcome>>]
  BY <1>1 DEF Told
<1> HIDE DEF told, r
<1>4. Typed(q, p, v, d, i, told, s)
  BY <1>2 DEF Typed
<1>5. Unanswered(q, p, v, d, i, told)
  <2>1. \A x \in i : x # r /\ ans[x] = <<>> => told[x] = <<>>
    BY <1>2 DEF Typed
  <2>2. ASSUME NEW x \in Requests
        PROVE  Len(told[x]) <= 1 /\ (told[x] # <<>> => x \in i)
    <3>1. Len(<<outcome>>) = 1
      OBVIOUS
    <3>2. CASE x = r
      <4>1. told[x] = <<outcome>> /\ x \in i
        BY <1>2, <3>2 DEF r
      <4>2. Len(told[x]) = 1
        BY <3>1, <4>1, Zenon
      <4> QED
        BY <4>1, <4>2
    <3>3. CASE x # r
      BY <1>2, <3>3 DEF Unanswered
    <3> QED
      BY <3>2, <3>3
  <2>3. \A k \in 1 .. Len(q) : q[k].request \in i /\ told[q[k].request] = <<>>
    BY <2>1 DEF Unanswered, Absent, r
  <2>4. \A b \in p \union v \union d : b.request \in i /\ told[b.request] = <<>>
    BY <2>1 DEF Unanswered, Absent, r
  <2> QED
    BY <2>2, <2>3, <2>4 DEF Unanswered
<1> QED
  BY <1>3, <1>4, <1>5 DEF told, r

-----------------------------------------------------------------------------
(* The handlers: each keeps the invariant, and does to its caller what     *)
(* Exchanges allows.                                                       *)

\* What a step may show the caller of request r.
Shows(r) ==
  Caller!Open(r) \/ Caller!Answer(r) \/ Caller!Abandon(r) \/ UNCHANGED Caller!vars

LEMMA OpenIsHeld == /\ Open = Held(queue, pending, validating, delayed)
                    /\ Open' = Held(queue', pending', validating', delayed')
BY DEF Open, Queued, Held

LEMMA InitKeeps == Init => IInv /\ Caller!Init
<1> SUFFICES ASSUME Init PROVE IInv /\ Caller!Init
  OBVIOUS
<1> USE DEF Init
<1>1. /\ Len(queue) = 0 /\ queue \in Seq(Attempts)
      /\ IsFiniteSet(pending) /\ Cardinality(pending) = 0
  BY FS_EmptySet
<1>2. Typed(queue, pending, validating, delayed, issued, answers, sent)
  BY <1>1 DEF Typed
<1>3. /\ Single(queue, pending, validating, delayed)
      /\ Unanswered(queue, pending, validating, delayed, issued, answers)
      /\ Counted(queue, pending, validating, delayed, issued, sent)
  BY <1>1 DEF Single, Unanswered, Counted
<1>4. WindowUsed /\ Cardinality(pending) <= Window
  BY <1>1 DEF WindowUsed
<1>5. Open = {}
  BY <1>1 DEF Open, Queued, RequestsIn, RequestsOf
<1> QED
  BY <1>1, <1>2, <1>3, <1>4, <1>5 DEF IInv, Consistent, Caller!Init

LEMMA ExpressInterestKeeps ==
  ASSUME IInv, NEW r \in Requests, ExpressInterest(r)
  PROVE  IInv' /\ Shows(r)
<1> DEFINE a == [ request |-> r, nonce |-> 0, retries |-> Retries[r],
                  validationRetries |-> ValidationRetries ]
           made == issued \union {r}
<1>1. /\ r \notin issued /\ issued' = made
      /\ ProcessQueue(Append(queue, a), pending)
      /\ UNCHANGED <<validates, validating, delayed, answers>>
  BY DEF ExpressInterest
<1>2. a \in Attempts /\ a.request = r /\ a.retries = Retries[r]
      /\ a.validationRetries = ValidationRetries
  BY DEF Attempts
<1> HIDE DEF a
<1>3. Absent(r, queue, pending, validating, delayed)
  BY <1>1 DEF IInv, Consistent, Unanswered, Absent
<1>4. answers[r] = <<>> /\ sent[r] = 0
  BY <1>1 DEF IInv, Consistent, Unanswered, Counted
<1>5. Consistent(queue, pending, validating, delayed, made, answers, sent)
  <2>1. Typed(queue, pending, validating, delayed, made, answers, sent)
    BY DEF IInv, Consistent, Typed
  <2>2. Unanswered(queue, pending, validating, delayed, made, answers)
    BY DEF IInv, Consistent, Unanswered
  <2>3. Counted(queue, pending, validating, delayed, made, sent)
    BY DEF IInv, Consistent, Counted
  <2> QED
    BY <2>1, <2>2, <2>3 DEF IInv, Consistent
<1>6. Within(a, sent, 0)
  BY <1>2, <1>4 DEF Within
<1>7. Free(a, queue, pending, validating, delayed, made, answers, sent)
  BY <1>2, <1>3, <1>4, <1>5, <1>6 DEF Free, Within
<1>8. /\ Consistent(Append(queue, a), pending, validating, delayed, made, answers, sent)
      /\ Gains(Held(queue, pending, validating, delayed), r,
               Held(Append(queue, a), pending, validating, delayed))
  BY <1>2, <1>6, <1>7, Queue
<1>9. /\ Consistent(queue', pending', validating, delayed, made, answers, sent')
      /\ WindowUsed'
      /\ Gains(Held(queue, pending, validating, delayed), r,
               Held(queue', pending', validating, delayed))
  BY <1>1, <1>8, ProcessQueueKeeps
<1>10. IInv'
  BY <1>1, <1>9 DEF IInv
<1>11. Open' = Open \union {r}
  BY <1>1, <1>9, OpenIsHeld DEF Gains
<1> QED
  BY <1>1, <1>10, <1>11 DEF Shows, Caller!Open

\* An answer arrives in the window and goes to the caller.
LEMMA AnsweredKeeps ==
  ASSUME IInv, NEW a \in pending, NEW outcome \in Outcomes,
         ProcessQueue(queue, pending \ {a}),
         RunCallback(a.request, outcome),
         UNCHANGED <<validates, validating, delayed, issued>>
  PROVE  IInv' /\ Shows(a.request)
<1> DEFINE told == Told(answers, a.request, outcome)
<1>1. answers' = told
  BY DEF RunCallback, Told
<1>2. Consistent(queue, pending, validating, delayed, issued, answers, sent)
  BY DEF IInv
<1>3. Free(a, queue, pending \ {a}, validating, delayed, issued, answers, sent)
  BY <1>2, Take
<1>4. Loses(Held(queue, pending, validating, delayed), a.request,
            Held(queue, pending \ {a}, validating, delayed))
  BY <1>2, Take
<1>5. /\ Consistent(queue, pending \ {a}, validating, delayed, issued, told, sent)
      /\ told = [answers EXCEPT ![a.request] = <<outcome>>]
  BY <1>3, Close
<1> HIDE DEF told
<1>6. /\ Consistent(queue', pending', validating, delayed, issued, told, sent')
      /\ WindowUsed'
  BY <1>5, ProcessQueueKeeps
<1>7. Held(queue', pending', validating, delayed)
        = Held(queue, pending \ {a}, validating, delayed)
  BY <1>5, ProcessQueueKeeps
<1>8. IInv'
  BY <1>1, <1>6 DEF IInv
<1>9. a.request \in Open /\ Open' = Open \ {a.request}
  BY <1>3, <1>4, <1>7, OpenIsHeld DEF Loses, Gains
<1> QED
  BY <1>1, <1>3, <1>5, <1>8, <1>9 DEF Free, Shows, Caller!Answer

LEMMA OnDataKeeps ==
  ASSUME IInv, NEW a \in pending, OnData(a)
  PROVE  IInv' /\ Shows(a.request)
<1>1. /\ ProcessQueue(queue, pending \ {a})
      /\ UNCHANGED <<validates, delayed, issued>>
  BY DEF OnData
<1>2. CASE ~validates
  BY <1>1, <1>2, AnsweredKeeps DEF OnData, Outcomes
<1>3. CASE validates
  <2> DEFINE given == validating \union {a}
  <2>1. validating' = given /\ answers' = answers
    BY <1>3 DEF OnData
  <2>2. Consistent(queue, pending, validating, delayed, issued, answers, sent)
    BY DEF IInv
  <2>3. /\ Free(a, queue, pending \ {a}, validating, delayed, issued, answers, sent)
        /\ Loses(Held(queue, pending, validating, delayed), a.request,
                 Held(queue, pending \ {a}, validating, delayed))
    BY <2>2, Take
  <2>4. /\ Consistent(queue, pending \ {a}, given, delayed, issued, answers, sent)
        /\ Gains(Held(queue, pending \ {a}, validating, delayed), a.request,
                 Held(queue, pending \ {a}, given, delayed))
    BY <2>3, Hand
  <2> HIDE DEF given
  <2>5. /\ Consistent(queue', pending', given, delayed, issued, answers, sent')
        /\ WindowUsed'
        /\ Held(queue', pending', given, delayed)
             = Held(queue, pending \ {a}, given, delayed)
    BY <1>1, <2>4, ProcessQueueKeeps
  <2>6. IInv'
    BY <1>1, <1>3, <2>1, <2>5 DEF IInv
  <2>7. Open' = Open
    BY <1>1, <2>1, <2>3, <2>4, <2>5, OpenIsHeld DEF Loses, Gains
  <2> QED
    BY <1>1, <2>1, <2>6, <2>7 DEF Shows, Caller!vars
<1> QED
  BY <1>2, <1>3

LEMMA OnDataValidatedKeeps ==
  ASSUME IInv, NEW a \in validating, OnDataValidated(a)
  PROVE  IInv' /\ Shows(a.request)
<1> DEFINE left == validating \ {a}
           told == Told(answers, a.request, "data")
<1>1. /\ validating' = left /\ answers' = told
      /\ UNCHANGED <<validates, queue, pending, delayed, issued, sent>>
  BY DEF OnDataValidated, RunCallback, Told
<1>2. Consistent(queue, pending, validating, delayed, issued, answers, sent)
  BY DEF IInv
<1>3. /\ Free(a, queue, pending, left, delayed, issued, answers, sent)
      /\ Loses(Held(queue, pending, validating, delayed), a.request,
               Held(queue, pending, left, delayed))
  BY <1>2, Take
<1>4. /\ Consistent(queue, pending, left, delayed, issued, told, sent)
      /\ told = [answers EXCEPT ![a.request] = <<"data">>]
  <2>1. "data" \in Outcomes
    BY DEF Outcomes
  <2> HIDE DEF left
  <2> QED
    BY <1>3, <2>1, Close
<1>5. left # {} => validates
  BY DEF IInv
<1> HIDE DEF left, told
<1>6. IInv'
  BY <1>1, <1>4, <1>5 DEF IInv, WindowUsed
<1>7. a.request \in Open /\ Open' = Open \ {a.request}
  BY <1>1, <1>3, OpenIsHeld DEF Loses, Gains
<1> QED
  BY <1>1, <1>3, <1>4, <1>6, <1>7 DEF Free, Shows, Caller!Answer, Outcomes

LEMMA OnValidationFailedKeeps ==
  ASSUME IInv, NEW a \in validating, OnValidationFailed(a)
  PROVE  IInv' /\ Shows(a.request)
<1> DEFINE left == validating \ {a}
<1>1. /\ validating' = left
      /\ UNCHANGED <<validates, queue, pending, issued, answers, sent>>
  BY DEF OnValidationFailed
<1>2. Consistent(queue, pending, validating, delayed, issued, answers, sent)
  BY DEF IInv
<1>3. /\ Free(a, queue, pending, left, delayed, issued, answers, sent)
      /\ Loses(Held(queue, pending, validating, delayed), a.request,
               Held(queue, pending, left, delayed))
  BY <1>2, Take
<1>4. validates /\ (left # {} => validates)
  BY DEF IInv
<1> HIDE DEF left
<1>5. CASE a.validationRetries > 0
  <2> DEFINE due == delayed \union {a}
  <2>1. delayed' = due
    BY <1>5 DEF OnValidationFailed
  <2>2. /\ Consistent(queue, pending, left, due, issued, answers, sent)
        /\ Gains(Held(queue, pending, left, delayed), a.request,
                 Held(queue, pending, left, due))
    BY <1>3, <1>5, Hand
  <2> HIDE DEF due
  <2>3. IInv'
    BY <1>1, <1>4, <2>1, <2>2 DEF IInv, WindowUsed
  <2>4. Open' = Open
    BY <1>1, <1>3, <2>1, <2>2, OpenIsHeld DEF Loses, Gains
  <2> QED
    BY <1>1, <2>3, <2>4 DEF Shows, Caller!vars
<1>6. CASE ~(a.validationRetries > 0)
  <2>1. delayed' = delayed
    BY <1>6 DEF OnValidationFailed
  <2>2. IInv'
    BY <1>1, <1>3, <1>4, <2>1 DEF IInv, WindowUsed, Free
  <2>3. a.request \in Open /\ Open' = Open \ {a.request}
    BY <1>1, <1>3, <2>1, OpenIsHeld DEF Loses, Gains
  <2> QED
    BY <1>1, <1>4, <2>2, <2>3 DEF Shows, Caller!Abandon
<1> QED
  BY <1>5, <1>6

LEMMA OnNackKeeps ==
  ASSUME IInv, NEW a \in pending, OnNack(a)
  PROVE  IInv' /\ Shows(a.request)
<1>1. /\ ProcessQueue(queue, pending \ {a}) /\ RunCallback(a.request, "nack")
      /\ UNCHANGED <<validates, validating, delayed, issued>>
  BY DEF OnNack
<1>2. "nack" \in Outcomes
  BY DEF Outcomes
<1> QED
  BY <1>1, <1>2, AnsweredKeeps

\* A request whose attempt a was taken away is queued again, as attempt b.
LEMMA RequeueKeeps ==
  ASSUME NEW a, NEW p, NEW d,
         Free(a, queue, p, validating, d, issued, answers, sent),
         NEW b \in Attempts, b.request = a.request, Within(b, sent, 0),
         Requeue(b, p)
  PROVE  /\ Consistent(queue', pending', validating, d, issued, answers, sent')
         /\ WindowUsed'
         /\ Gains(Held(queue, p, validating, d), a.request,
                  Held(queue', pending', validating, d))
<1> DEFINE c  == [b EXCEPT !.nonce = 1 - @]
           qc == Append(queue, c)
<1>1. c \in Attempts /\ c.request = a.request /\ Within(c, sent, 0)
  BY DEF Attempts, Within
<1>2. ProcessQueue(qc, p)
  BY DEF Requeue
<1> HIDE DEF c
<1>3. /\ Consistent(qc, p, validating, d, issued, answers, sent)
      /\ Gains(Held(queue, p, validating, d), a.request, Held(qc, p, validating, d))
  BY <1>1, Queue
<1> HIDE DEF qc
<1>4. /\ Consistent(queue', pending', validating, d, issued, answers, sent')
      /\ WindowUsed'
      /\ Held(queue', pending', validating, d) = Held(qc, p, validating, d)
  BY <1>2, <1>3, ProcessQueueKeeps
<1> QED
  BY <1>3, <1>4 DEF Gains

LEMMA OnTimeoutKeeps ==
  ASSUME IInv, NEW a \in pending, OnTimeout(a)
  PROVE  IInv' /\ Shows(a.request)
<1>1. UNCHANGED <<validates, validating, delayed, issued>>
  BY DEF OnTimeout
<1>2. CASE a.retries = 0
  <2>1. ProcessQueue(queue, pending \ {a}) /\ RunCallback(a.request, "timeout")
    BY <1>2 DEF OnTimeout
  <2>2. "timeout" \in Outcomes
    BY DEF Outcomes
  <2> QED
    BY <1>1, <2>1, <2>2, AnsweredKeeps
<1>3. CASE a.retries # 0
  <2> DEFINE b == [a EXCEPT !.retries = OneLess(@)]
  <2>1. Requeue(b, pending \ {a}) /\ answers' = answers
    BY <1>3 DEF OnTimeout
  <2>2. Consistent(queue, pending, validating, delayed, issued, answers, sent)
    BY DEF IInv
  <2>3. /\ Free(a, queue, pending \ {a}, validating, delayed, issued, answers, sent)
        /\ Loses(Held(queue, pending, validating, delayed), a.request,
                 Held(queue, pending \ {a}, validating, delayed))
    BY <2>2, Take
  <2>4. /\ a \in Attempts /\ a.request \in Requests /\ Within(a, sent, 1)
        /\ sent[a.request] \in Nat
    BY <2>2, <2>3 DEF Free, Consistent, Typed
  <2>5. /\ b \in Attempts /\ b.request = a.request
        /\ b.retries = OneLess(a.retries) /\ b.validationRetries = a.validationRetries
    BY <2>4 DEF Attempts, OneLess
  <2> HIDE DEF b
  <2>6. Within(b, sent, 0)
    <3>1. /\ Retries[a.request] \in Int /\ ValidationRetries \in Nat
          /\ a.retries \in Int /\ a.validationRetries \in Nat
      BY <2>4 DEF Attempts
    <3> QED
      BY <1>3, <2>4, <2>5, <3>1 DEF Within, OneLess
  <2>7. /\ Consistent(queue', pending', validating, delayed, issued, answers, sent')
        /\ WindowUsed'
        /\ Gains(Held(queue, pending \ {a}, validating, delayed), a.request,
                 Held(queue', pending', validating, delayed))
    BY <2>1, <2>3, <2>5, <2>6, RequeueKeeps
  <2>8. IInv'
    BY <1>1, <2>1, <2>7 DEF IInv
  <2>9. Open' = Open
    BY <1>1, <2>3, <2>7, OpenIsHeld DEF Loses, Gains
  <2> QED
    BY <1>1, <2>1, <2>8, <2>9 DEF Shows, Caller!vars
<1> QED
  BY <1>2, <1>3

LEMMA RetryAfterValidationFailKeeps ==
  ASSUME IInv, NEW a \in delayed, RetryAfterValidationFail(a)
  PROVE  IInv' /\ Shows(a.request)
<1> DEFINE left == delayed \ {a}
           b    == [a EXCEPT !.validationRetries = @ - 1]
<1>1. /\ delayed' = left /\ Requeue(b, pending)
      /\ UNCHANGED <<validates, validating, issued, answers>>
  BY DEF RetryAfterValidationFail
<1>2. Consistent(queue, pending, validating, delayed, issued, answers, sent)
  BY DEF IInv
<1>3. /\ Free(a, queue, pending, validating, left, issued, answers, sent)
      /\ Loses(Held(queue, pending, validating, delayed), a.request,
               Held(queue, pending, validating, left))
      /\ a.validationRetries > 0
  BY <1>2, Take
<1>4. /\ a \in Attempts /\ a.request \in Requests /\ Within(a, sent, 1)
      /\ sent[a.request] \in Nat
  BY <1>2, <1>3 DEF Free, Consistent, Typed
<1>5. /\ b \in Attempts /\ b.request = a.request
      /\ b.retries = a.retries /\ b.validationRetries = a.validationRetries - 1
  BY <1>3, <1>4 DEF Attempts
<1> HIDE DEF b, left
<1>6. Within(b, sent, 0)
  <2>1. /\ Retries[a.request] \in Int /\ ValidationRetries \in Nat
        /\ a.retries \in Int /\ a.validationRetries \in Nat
    BY <1>4 DEF Attempts
  <2> QED
    BY <1>4, <1>5, <2>1 DEF Within
<1>7. /\ Consistent(queue', pending', validating, left, issued, answers, sent')
      /\ WindowUsed'
      /\ Gains(Held(queue, pending, validating, left), a.request,
               Held(queue', pending', validating, left))
  BY <1>1, <1>3, <1>5, <1>6, RequeueKeeps
<1>8. IInv'
  BY <1>1, <1>7 DEF IInv
<1>9. Open' = Open
  BY <1>1, <1>3, <1>7, OpenIsHeld DEF Loses, Gains
<1> QED
  BY <1>1, <1>8, <1>9 DEF Shows, Caller!vars

-----------------------------------------------------------------------------
LEMMA StepKeeps ==
  ASSUME IInv, [Next]_vars
  PROVE  IInv' /\ [Caller!Next]_(Caller!vars)
<1>1. CASE UNCHANGED vars
  <2>1. IInv'
    BY <1>1 DEF vars, IInv, WindowUsed
  <2>2. UNCHANGED Caller!vars
    BY <1>1 DEF vars, Caller!vars, Open, Queued
  <2> QED
    BY <2>1, <2>2
<1>2. ASSUME NEW r \in Requests, IInv', Shows(r)
      PROVE  IInv' /\ [Caller!Next]_(Caller!vars)
  BY <1>2 DEF Shows, Caller!Next
<1>3. \A a \in pending \union validating \union delayed : a.request \in Requests
  BY DEF IInv, Consistent, Typed, Attempts
<1>4. ASSUME NEW r \in Requests, ExpressInterest(r)
      PROVE  IInv' /\ Shows(r)
  BY <1>4, ExpressInterestKeeps
<1>5. ASSUME NEW a \in pending, OnData(a) \/ OnNack(a) \/ OnTimeout(a)
      PROVE  a.request \in Requests /\ IInv' /\ Shows(a.request)
  BY <1>3, <1>5, OnDataKeeps, OnNackKeeps, OnTimeoutKeeps
<1>6. ASSUME NEW a \in validating, OnDataValidated(a) \/ OnValidationFailed(a)
      PROVE  a.request \in Requests /\ IInv' /\ Shows(a.request)
  BY <1>3, <1>6, OnDataValidatedKeeps, OnValidationFailedKeeps
<1>7. ASSUME NEW a \in delayed, RetryAfterValidationFail(a)
      PROVE  a.request \in Requests /\ IInv' /\ Shows(a.request)
  BY <1>3, <1>7, RetryAfterValidationFailKeeps
<1> QED
  BY <1>1, <1>2, <1>4, <1>5, <1>6, <1>7 DEF Next

LEMMA Invariance == Spec => []IInv
<1>1. Init => IInv
  BY InitKeeps
<1>2. IInv /\ [Next]_vars => IInv'
  BY StepKeeps
<1> QED
  BY <1>1, <1>2, PTL DEF Spec

\* Every variable of Fetcher keeps its type.
THEOREM TypeCorrect == Spec => []TypeOK
BY Invariance, InvariantImplies, PTL

\* No request ever has two attempts, an attempt after its answer, or two answers:
\* each handler takes an attempt from its one place before it puts it in another
\* or runs the callback.
THEOREM AlwaysOneAttempt == Spec => []OneAttempt
BY Invariance, InvariantImplies, PTL

\* The window is never exceeded, nor left open while an attempt waits: processQueue
\* runs at the end of every handler that frees a place or queues an attempt.
THEOREM AlwaysWindowUsed == Spec => []WindowUsed
<1>1. IInv => WindowUsed
  BY DEF IInv
<1> QED
  BY <1>1, Invariance, PTL

\* However its timeouts and failed validations alternate, a request is sent once
\* and once more for each retry it was given.
THEOREM AlwaysSentBounded == Spec => []SentBounded
BY Invariance, InvariantImplies, PTL

\* For its caller, the fetcher is Exchanges.
THEOREM Refinement == Spec => ImplementsExchanges
<1>1. Init => Caller!Init
  BY InitKeeps
<1>2. IInv /\ [Next]_vars => [Caller!Next]_(Caller!vars)
  BY StepKeeps
<1> QED
  BY <1>1, <1>2, Invariance, PTL DEF Spec, ImplementsExchanges, Caller!Spec
=============================================================================
