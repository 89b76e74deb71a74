---------------------------- MODULE FetcherProps ----------------------------
(***************************************************************************)
(* What Fetcher is required to do.                                         *)
(***************************************************************************)
EXTENDS Fetcher

Answered == {r \in Requests : answers[r] # <<>>}

\* A request that was made is in one place only: one attempt of it is queued,
\* pending, validated or delayed, or none is. It has no attempt once it was
\* answered, and is answered once at most. So no retry runs beside the attempt it
\* replaces (fetcher.cpp:113-131) or after an answer.
OneAttempt ==
  /\ \A i, j \in DOMAIN queue : queue[i].request = queue[j].request => i = j
  /\ \A S \in {pending, validating, delayed} :
       \A a, b \in S : a.request = b.request => a = b
  /\ Queued \intersect RequestsOf(pending \union validating \union delayed) = {}
  /\ RequestsOf(pending) \intersect RequestsOf(validating \union delayed) = {}
  /\ RequestsOf(validating) \intersect RequestsOf(delayed) = {}
  /\ Answered \intersect Open = {}
  /\ Answered \union Open \subseteq issued
  /\ \A r \in Requests : Len(answers[r]) <= 1

\* The window is never exceeded, and never left open while an attempt waits: every
\* handler that frees a place fills it again (fetcher.cpp:68).
WindowUsed ==
  /\ Cardinality(pending) <= Window
  /\ queue # <<>> => Cardinality(pending) = Window

\* The two kinds of retries together: however timeouts and failed validations
\* alternate, a request is sent once and once more for each retry it may make.
SentBounded ==
  \A r \in Requests : Retries[r] >= 0 => sent[r] <= 1 + Retries[r] + ValidationRetries

\* An attempt does not wait for ever, even if requests that retry without end
\* fill the window: they go behind it in the queue.
NoStarvation ==
  \A r \in Requests : r \in Queued ~> r \in RequestsOf(pending)

\* A request that retries finitely often comes to its end.
Settles ==
  \A r \in Requests : Retries[r] >= 0 => (r \in issued ~> r \in issued \ Open)

\* Data that failed validation for the last time is reported to the caller, as
\* svsync-base.hpp:137 says of onValidationFailed.
FailureIsReported ==
  [][\A a \in validating :
       OnValidationFailed(a) /\ a.validationRetries = 0
         => answers'[a.request] # <<>>]_vars

\* For its caller the fetcher is Exchanges: one answer per request at most, and
\* without a validator no request goes unanswered.
Caller == INSTANCE Exchanges WITH open <- Open

ImplementsExchanges == Caller!Spec
=============================================================================
