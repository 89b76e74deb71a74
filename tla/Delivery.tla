------------------------------ MODULE Delivery ------------------------------
(***************************************************************************)
(* What SVSPubSub promises the application that subscribes: its callback   *)
(* runs for publications that were announced and that it asked for, and    *)
(* once for each.                                                          *)
(***************************************************************************)
EXTENDS Naturals

CONSTANTS
  Subs,     \* subscriptions
  MaxSeq,   \* sequence numbers are 1 .. MaxSeq
  AsksFor   \* the numbers whose publications each subscription is about

VARIABLES
  known,      \* the highest number announced
  delivered   \* callbacks run for each subscription and number

Init ==
  /\ known = 0
  /\ delivered = [s \in Subs |-> [p \in 1 .. MaxSeq |-> 0]]

Announce ==
  /\ \E seq \in known + 1 .. MaxSeq : known' = seq
  /\ UNCHANGED delivered

\* The callbacks of some subscriptions run for publication p.
Deliver(p) ==
  /\ p <= known
  /\ \E S \in SUBSET {s \in Subs : p \in AsksFor[s] /\ delivered[s][p] = 0} :
       delivered' = [s \in Subs |->
                      [delivered[s] EXCEPT ![p] = IF s \in S THEN 1 ELSE @]]
  /\ UNCHANGED known

Next == Announce \/ \E p \in 1 .. MaxSeq : Deliver(p)

Spec == Init /\ [][Next]_<<known, delivered>>
=============================================================================
