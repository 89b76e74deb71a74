------------------------------ MODULE Fetcher -------------------------------
(***************************************************************************)
(* Fetcher (fetcher.cpp): Interests for data, at most m_windowSize of them *)
(* pending at a time and the others in a queue, with retries after a       *)
(* timeout and after data that fails validation.                           *)
(*                                                                         *)
(* A request is one call of the public expressInterest. An attempt is a    *)
(* QueuedInterest; its id, used only as the key of m_pendingInterests, is  *)
(* left out, since no two attempts of a request exist at once (OneAttempt  *)
(* in FetcherProps). The application's callback is the last thing a        *)
(* handler does, so that a call it makes back into the fetcher is a step   *)
(* of its own. The face, the validator and the scheduler are external.     *)
(***************************************************************************)
EXTENDS Integers, Sequences, FiniteSets

CONSTANTS
  Requests,           \* calls of the public expressInterest
  Window,             \* m_windowSize
  Retries,            \* nRetries of each call; below 0 it retries for ever
  ValidationRetries   \* m_securityOptions.nRetriesOnValidationFail

ASSUME FetcherAssumption ==
  /\ Window \in Nat \ {0}
  /\ Retries \in [Requests -> Int]
  /\ ValidationRetries \in Nat

VARIABLES
  validates,    \* m_securityOptions.validator is set
  queue,        \* m_interestQueue
  pending,      \* m_pendingInterests
  validating,   \* attempts whose data the validator has
  delayed,      \* attempts to be repeated by the scheduler
  issued,       \* history: requests made
  answers,      \* history: callbacks run for each request
  sent          \* history: Interests sent for each request that retries finitely often

vars == <<validates, queue, pending, validating, delayed, issued, answers, sent>>

Outcomes == {"data", "nack", "timeout"}

\* The nonce stands for an Interest's own: it differs from that of the attempt before.
Attempts ==
  [request : Requests, nonce : {0, 1}, retries : Int, validationRetries : Nat]

RequestsOf(S) == {a.request : a \in S}

RequestsIn(q) == {q[i].request : i \in DOMAIN q}

Queued == RequestsIn(queue)

Open == Queued \union RequestsOf(pending \union validating \union delayed)

TypeOK ==
  /\ validates \in BOOLEAN
  /\ queue \in Seq(Attempts)
  /\ pending \subseteq Attempts /\ IsFiniteSet(pending)
  /\ validating \subseteq Attempts
  /\ delayed \subseteq Attempts
  /\ issued \subseteq Requests
  /\ answers \in [Requests -> Seq(Outcomes)]
  /\ sent \in [Requests -> Nat]

Init ==
  /\ validates \in BOOLEAN
  /\ queue = <<>>
  /\ pending = {}
  /\ validating = {}
  /\ delayed = {}
  /\ issued = {}
  /\ answers = [r \in Requests |-> <<>>]
  /\ sent = [r \in Requests |-> 0]

-----------------------------------------------------------------------------
Smaller(i, j) == IF i < j THEN i ELSE j

\* Faulty variant: the comparison with the window is off by one.
SendableOneMore(q, p) ==
  IF Cardinality(p) <= Window THEN Smaller(Len(q), Window + 1 - Cardinality(p)) ELSE 0

\* How many of the attempts in queue q the loop of processQueue sends when those
\* in p are pending.
Sendable(q, p) ==
  IF Cardinality(p) < Window THEN Smaller(Len(q), Window - Cardinality(p)) ELSE 0

\* processQueue, entered with queue q and the pending attempts p.
ProcessQueue(q, p) ==
  LET count == Sendable(q, p)
      now   == {q[i] : i \in 1 .. count}
  IN  /\ queue' = SubSeq(q, count + 1, Len(q))
      /\ pending' = p \union now
      /\ sent' = [r \in Requests |->
                   IF r \in RequestsOf(now) /\ Retries[r] >= 0
                     THEN sent[r] + 1 ELSE sent[r]]

\* Faulty variant: a repeated attempt goes to the head of the queue.
RequeueFirst(a, p) == ProcessQueue(<<[a EXCEPT !.nonce = 1 - @]>> \o queue, p)

\* expressInterest(QueuedInterest): an attempt is repeated with another nonce,
\* behind all others.
Requeue(a, p) == ProcessQueue(Append(queue, [a EXCEPT !.nonce = 1 - @]), p)

RunCallback(r, outcome) ==
  answers' = [answers EXCEPT ![r] = Append(@, outcome)]

-----------------------------------------------------------------------------
\* The public expressInterest.
ExpressInterest(r) ==
  /\ r \notin issued
  /\ issued' = issued \union {r}
  /\ ProcessQueue(Append(queue, [ request           |-> r,
                                  nonce             |-> 0,
                                  retries           |-> Retries[r],
                                  validationRetries |-> ValidationRetries ]),
                  pending)
  /\ UNCHANGED <<validates, validating, delayed, answers>>

OnData(a) ==
  /\ a \in pending
  /\ ProcessQueue(queue, pending \ {a})
  /\ IF validates
       THEN validating' = validating \union {a} /\ UNCHANGED answers
       ELSE RunCallback(a.request, "data") /\ UNCHANGED validating
  /\ UNCHANGED <<validates, delayed, issued>>

OnDataValidated(a) ==
  /\ a \in validating
  /\ validating' = validating \ {a}
  /\ RunCallback(a.request, "data")
  /\ UNCHANGED <<validates, queue, pending, delayed, issued, sent>>

\* Faulty variant: a retry more than is left.
OnValidationFailedOneMore(a) ==
  /\ a \in validating
  /\ validating' = validating \ {a}
  /\ IF a.validationRetries >= 0 THEN delayed' = delayed \union {a}
                                 ELSE UNCHANGED delayed
  /\ UNCHANGED <<validates, queue, pending, issued, answers, sent>>

\* Without retries left nothing follows: the call of afterValidationFailed is
\* behind the return statement.
OnValidationFailed(a) ==
  /\ a \in validating
  /\ validating' = validating \ {a}
  /\ IF a.validationRetries > 0 THEN delayed' = delayed \union {a}
                                ELSE UNCHANGED delayed
  /\ UNCHANGED <<validates, queue, pending, issued, answers, sent>>

\* Faulty variant: the retry is not counted.
RetryUncounted(a) ==
  /\ a \in delayed
  /\ delayed' = delayed \ {a}
  /\ Requeue(a, pending)
  /\ UNCHANGED <<validates, validating, issued, answers>>

\* The scheduler runs a retry, millisBeforeRetryOnValidationFail later.
RetryAfterValidationFail(a) ==
  /\ a \in delayed
  /\ delayed' = delayed \ {a}
  /\ Requeue([a EXCEPT !.validationRetries = @ - 1], pending)
  /\ UNCHANGED <<validates, validating, issued, answers>>

\* Faulty variant: the place in the window is not filled again.
OnNackIdle(a) ==
  /\ a \in pending
  /\ pending' = pending \ {a}
  /\ RunCallback(a.request, "nack")
  /\ UNCHANGED <<validates, queue, sent, validating, delayed, issued>>

OnNack(a) ==
  /\ a \in pending
  /\ ProcessQueue(queue, pending \ {a})
  /\ RunCallback(a.request, "nack")
  /\ UNCHANGED <<validates, validating, delayed, issued>>

\* A count below 0 never gets to 0 (int, 2^31 timeouts away from wrapping).
OneLess(retries) == IF retries < 0 THEN retries ELSE retries - 1

\* Faulty variant: the attempt that timed out stays in the window.
OnTimeoutKept(a) ==
  /\ a \in pending
  /\ IF a.retries = 0
       THEN /\ ProcessQueue(queue, pending)
            /\ RunCallback(a.request, "timeout")
       ELSE /\ Requeue([a EXCEPT !.retries = OneLess(@)], pending)
            /\ UNCHANGED answers
  /\ UNCHANGED <<validates, validating, delayed, issued>>

\* Faulty variant: the caller hears of every timeout.
OnTimeoutReported(a) ==
  /\ a \in pending
  /\ RunCallback(a.request, "timeout")
  /\ IF a.retries = 0
       THEN ProcessQueue(queue, pending \ {a})
       ELSE Requeue([a EXCEPT !.retries = OneLess(@)], pending \ {a})
  /\ UNCHANGED <<validates, validating, delayed, issued>>

OnTimeout(a) ==
  /\ a \in pending
  /\ IF a.retries = 0
       THEN /\ ProcessQueue(queue, pending \ {a})
            /\ RunCallback(a.request, "timeout")
       ELSE /\ Requeue([a EXCEPT !.retries = OneLess(@)], pending \ {a})
            /\ UNCHANGED answers
  /\ UNCHANGED <<validates, validating, delayed, issued>>

Next ==
  \/ \E r \in Requests : ExpressInterest(r)
  \/ \E a \in pending : OnData(a) \/ OnNack(a) \/ OnTimeout(a)
  \/ \E a \in validating : OnDataValidated(a) \/ OnValidationFailed(a)
  \/ \E a \in delayed : RetryAfterValidationFail(a)

Spec == Init /\ [][Next]_vars

-----------------------------------------------------------------------------
Completes(r) ==
  \E a \in pending : a.request = r /\ (OnData(a) \/ OnNack(a) \/ OnTimeout(a))

Validates(r) ==
  \E a \in validating : a.request = r /\ (OnDataValidated(a) \/ OnValidationFailed(a))

Repeats(r) == \E a \in delayed : a.request = r /\ RetryAfterValidationFail(a)

\* A pending Interest is answered or times out, the validator calls back, the
\* scheduler runs what is due; nothing obliges anyone to make a request.
FairSpec ==
  /\ Spec
  /\ \A r \in Requests : WF_vars(Completes(r)) /\ WF_vars(Validates(r))
                                               /\ WF_vars(Repeats(r))
=============================================================================
