--------------------------- MODULE SyncTimerProps ---------------------------
(***************************************************************************)
(* What the control of the period is required to do.                       *)
(***************************************************************************)
EXTENDS SyncTimer

TypeOK ==
  /\ mode \in Modes
  /\ {period, minPeriod, suppression, activity, entries, now, own, taken, signals} \subseteq Nat
  /\ adjusted \in BOOLEAN
  /\ call \in [Threads -> Calls \union {NoCall}]
  /\ feedback \in [delay : Nat, jitter : Nat, samples : Nat]
  /\ pending \in Seq([seq : Numbers, at : Nat])
  /\ Len(pending) <= Remembered
  /\ sentAt \in [Numbers -> SUBSET Nat]
  /\ measured \in [seq : Numbers, from : Nat] \union {NoEcho}

\* The least value the minimum takes: a configured minimum above 5 s is cut.
LeastPeriod == IF mode = "adaptive" THEN MinPeriod ELSE Smaller(ConfiguredMin, 5000)

\* The period is never above the maximum, though the floor may be, nor below the least
\* minimum, though another thread may have raised or lowered the minimum since
\* the floor was computed (core.cpp:540, 595, 1058).
PeriodInBounds == LeastPeriod <= period /\ period <= MaxPeriod

\* A reply to an older vector, at most m_maxSuppressionTime away, is due before
\* any period that sampleSyncDelay may draw, 10% shorter at most
\* (core.cpp:641, 767-778).
ReplyIsSooner == 10 * suppression < 9 * period

\* A delay is measured between sending a number and its echo, although an echo may be
\* late, may answer several numbers at once, the queue forgets the oldest, and the
\* entry may be set back (core.cpp:957, 974-1004). The numbers of an earlier run are
\* excepted: their echo takes the numbers of this run that are not larger out of the
\* queue, and is measured from the sending of one of those, never of a later one.
EchoMatched ==
  measured # NoEcho =>
    /\ measured.seq > Earlier => measured.from \in sentAt[measured.seq]
    /\ \E i \in 1 .. measured.seq : measured.from \in sentAt[i]

\* In the network-aware mode a thread never leaves the period further from its
\* target than the one it read, whichever of the signals it handles, except
\* to bring it within the limits of the floor (core.cpp:600-628).
TowardsTarget ==
  [][\A th \in Threads :
       /\ mode = "network-aware"
       /\ ~ adjusted
       /\ call[th] # NoCall
       /\ call'[th] = NoCall
       => LET target == FeedbackTarget(call[th].floor)
          IN  Distance(period', target) <= Distance(call[th].current, target)]_vars

\* A quiet group relaxes: in the adaptive mode the period grows to the maximum once
\* only identical vectors arrive, though a thread's last write may have undone
\* the steps of the other (core.cpp:583-593).
Relaxes == <>[](mode = "adaptive" => period = MaxPeriod)
=============================================================================
