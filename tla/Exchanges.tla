----------------------------- MODULE Exchanges ------------------------------
(***************************************************************************)
(* What a fetcher promises its caller: a request is open from its call to  *)
(* its one answer, and nothing but a validator ends it without an answer.  *)
(***************************************************************************)
EXTENDS Sequences

CONSTANTS Requests, Outcomes

VARIABLES
  validates,   \* is there a validator?
  issued,      \* requests made
  open,        \* requests whose answer is still to come
  answers      \* callbacks run for each request

vars == <<validates, issued, open, answers>>

Init ==
  /\ validates \in BOOLEAN
  /\ issued = {}
  /\ open = {}
  /\ answers = [r \in Requests |-> <<>>]

Open(r) ==
  /\ r \in Requests \ issued
  /\ issued' = issued \union {r}
  /\ open' = open \union {r}
  /\ UNCHANGED <<validates, answers>>

Answer(r) ==
  /\ r \in open
  /\ answers[r] = <<>>
  /\ \E o \in Outcomes : answers' = [answers EXCEPT ![r] = <<o>>]
  /\ open' = open \ {r}
  /\ UNCHANGED <<validates, issued>>

Abandon(r) ==
  /\ validates
  /\ r \in open
  /\ open' = open \ {r}
  /\ UNCHANGED <<validates, issued, answers>>

Next == \E r \in Requests : Open(r) \/ Answer(r) \/ Abandon(r)

Spec == Init /\ [][Next]_vars
=============================================================================
