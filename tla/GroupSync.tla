------------------------------ MODULE GroupSync -----------------------------
(***************************************************************************)
(* What State Vector Sync promises its application, without messages,      *)
(* timers or suppression: every node holds a view of how far each producer *)
(* has published, the view moves forward and never past what was           *)
(* published, and the application is told of exactly the news in it.       *)
(***************************************************************************)
EXTENDS Naturals

CONSTANTS
  Nodes,
  Producers,   \* the nodes that publish
  MaxSeq       \* bound: sequence numbers published per node

VARIABLES
  known,      \* known[n][m]: how far node n believes node m has published
  told,       \* told[n][m]: how much of node m node n's application was told of
  published   \* published[m]: how far node m has ever published

vars == <<known, told, published>>

Nothing == [m \in Nodes |-> 0]

Init ==
  /\ known = [n \in Nodes |-> Nothing]
  /\ told = [n \in Nodes |-> Nothing]
  /\ published = Nothing

\* The views node n may move to by learning: nothing is forgotten, and nothing
\* is known that was never published.
News(n) == {w \in [Nodes -> 0 .. MaxSeq] :
              \A m \in Nodes : known[n][m] <= w[m] /\ w[m] <= published[m]}

\* The application of node n is told of the news in w.
Tell(n, w) ==
  told' = [told EXCEPT ![n] =
             [m \in Nodes |-> told[n][m] + (w[m] - known[n][m])]]

Learn(n) ==
  \E w \in News(n) :
    /\ known' = [known EXCEPT ![n] = w]
    /\ Tell(n, w)
    /\ UNCHANGED published

\* Node n publishes, possibly on learning news: the next number after the
\* ones it believes it has published.
Advance(n) ==
  \E w \in News(n) :
    /\ n \in Producers
    /\ w[n] < MaxSeq
    /\ known' = [known EXCEPT ![n] = [w EXCEPT ![n] = w[n] + 1]]
    /\ Tell(n, w)
    /\ published' = [published EXCEPT ![n] = IF @ < w[n] + 1 THEN w[n] + 1 ELSE @]

\* Node n restarts with no memory.
Forget(n) ==
  /\ known' = [known EXCEPT ![n] = Nothing]
  /\ told' = [told EXCEPT ![n] = Nothing]
  /\ UNCHANGED published

Next == \E n \in Nodes : Learn(n) \/ Advance(n) \/ Forget(n)

Spec == Init /\ [][Next]_vars
=============================================================================
