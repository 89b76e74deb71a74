------------------------------ MODULE SyncTimer -----------------------------
(***************************************************************************)
(* The length of the period between Sync Interests (core.cpp): the signals *)
(* that lengthen or shorten it, the floor that grows with the state        *)
(* vector, and, in the network-aware mode, the delay that is measured from *)
(* the echo of this node's own sequence numbers.                           *)
(*                                                                         *)
(* updateSyncInterval runs in an application thread and in that of the     *)
(* event loop, and only the size of the vector is read under a lock:       *)
(* each run is a step that reads and one that writes. Times are            *)
(* whole milliseconds, rounded as llround does where the code computes     *)
(* with doubles; the activity score is in thousandths. Echoes may be of    *)
(* numbers up to Earlier, which a run before a restart announced.          *)
(***************************************************************************)
EXTENDS Integers, Sequences

CONSTANTS
  Modes,          \* m_timerMode: subset of {"adaptive", "network-aware"}
  FullVectors,    \* m_stateVectorStrategy is Full?
  FixedIntervals, \* values of NDN_SVS_FIXED_INTERVAL_MS, by mode
  ConfiguredMin,  \* NDN_SVS_NETWORK_AWARE_MIN_INTERVAL_MS
  DiameterMs,     \* NDN_SVS_NETWORK_DIAMETER_MS
  DiameterHops,   \* NDN_SVS_NETWORK_DIAMETER_HOPS
  LossPct,        \* NDN_SVS_LINK_LOSS_PCT, at most 95
  Remembered,     \* 32: numbers kept in m_pendingFeedbackSeqs
  Sizes,          \* sizes the state vector takes
  MaxSignals,     \* bound: signals, without Idle in the adaptive mode
  MaxSeq,         \* bound: sequence numbers of this node
  Earlier,        \* the last number that an earlier run of this node announced
  MaxTicks,       \* bound: the clock
  TickMs          \* milliseconds in a tick of the clock

MinPeriod == 1000     \* the initial m_minPeriodicSyncTime
MaxPeriod == 30000    \* m_maxPeriodicSyncTime

ASSUME TimerAssumption ==
  /\ Modes \subseteq {"adaptive", "network-aware"}
  /\ FullVectors \in BOOLEAN
  /\ FixedIntervals \in [Modes -> SUBSET Nat]
  /\ {ConfiguredMin, DiameterMs, DiameterHops} \subseteq Nat
  /\ LossPct \in 0 .. 95
  /\ Remembered \in Nat \ {0}
  /\ Sizes \subseteq Nat
  /\ {MaxSignals, MaxSeq, MaxTicks, TickMs} \subseteq Nat
  /\ Earlier \in 0 .. MaxSeq

VARIABLES
  mode,         \* m_timerMode
  period,       \* m_periodicSyncTime
  minPeriod,    \* m_minPeriodicSyncTime
  suppression,  \* m_maxSuppressionTime
  adjusted,     \* the last adjustment was less than 220 ms ago
  activity,     \* m_activityScore
  entries,      \* the size of m_vv
  call,         \* the call of updateSyncInterval a thread is in
  feedback,     \* m_feedbackDelayMs, m_feedbackJitterMs, m_feedbackSamples
  pending,      \* m_pendingFeedbackSeqs
  now,          \* the clock, in ticks
  own,          \* this node's entry in m_vv
  taken,        \* newSeq of the thread that publishes, 0 when it does not
  sentAt,       \* history: when a number was sent
  measured,     \* history: what the last delay was measured from
  signals       \* counts signals, up to MaxSignals

timerVars == <<period, minPeriod, suppression, adjusted, activity>>
feedbackVars == <<feedback, pending, sentAt, measured>>
vars == <<mode, timerVars, entries, call, feedbackVars, now, own, taken, signals>>

Larger(i, j) == IF i < j THEN j ELSE i

Smaller(i, j) == IF i < j THEN i ELSE j

\* Faulty variant: the lower limit is applied last.
ClampLowLast(v, low, high) == Larger(Smaller(v, high), low)

\* std::clamp; with low > high, which is undefined, what libstdc++ returns.
Clamp(v, low, high) == Smaller(Larger(v, low), high)

\* llround of a quotient that is not negative.
Rounded(n, d) == (n + d \div 2) \div d

Distance(i, j) == IF i < j THEN j - i ELSE i - j

Numbers == 1 .. MaxSeq
Signals == {"LocalUpdate", "RepairNeeded", "RemoteUpdate", "Idle"}
Threads == {"app", "loop"}
NoCall == [signal |-> "none"]
NoEcho == [seq |-> 0]
Calls == [signal : Signals, current : Nat, floor : Nat]

Delay(fb) == Larger(40, fb.delay)

Jitter(fb) == Larger(15, fb.jitter)

\* Faulty variant: no upper limit.
SuppressionUnclamped(fb) == Rounded(10 * Delay(fb) + 14 * Jitter(fb) + 6 * LossPct, 10)

\* refreshNetworkAwareTimerState: the two bounds that follow the feedback.
SuppressionTime(fb) ==
  Clamp(Rounded(10 * Delay(fb) + 14 * Jitter(fb) + 6 * LossPct, 10), 40, 1200)

AwareMin(fb) ==
  Clamp(Rounded(22 * Delay(fb) + 18 * Jitter(fb) + 1600 + 12 * LossPct, 10),
        ConfiguredMin, 5000)

\* What the constructor estimates from the configured diameter.
EstimatedFeedback ==
  LET delay == Clamp(Rounded(DiameterMs * (1300 + 14 * LossPct), 1000)
                       + DiameterHops * 12 + 60, 40, 1800)
  IN  [ delay   |-> delay,
        jitter  |-> Larger(20, Rounded(delay * (1800 + 25 * LossPct), 10000)),
        samples |-> 0 ]

Init ==
  LET minimum(md) == IF md = "adaptive" THEN MinPeriod ELSE AwareMin(EstimatedFeedback)
  IN  /\ mode \in Modes
      /\ minPeriod = minimum(mode)
      /\ \E i \in FixedIntervals[mode] : period = Clamp(i, minPeriod, MaxPeriod)
      /\ feedback = IF mode = "adaptive" THEN [delay |-> 0, jitter |-> 0, samples |-> 0]
                                         ELSE EstimatedFeedback
      /\ suppression = IF mode = "adaptive" THEN 500 ELSE SuppressionTime(feedback)
      /\ adjusted = FALSE
      /\ activity = 0
      /\ entries \in Sizes
      /\ call = [th \in Threads |-> NoCall]
      /\ pending = <<>>
      /\ now = 1
      /\ own = 0
      /\ taken = 0
      /\ sentAt = [i \in Numbers |-> {}]
      /\ measured = NoEcho
      /\ signals = 0

-----------------------------------------------------------------------------
(* updateSyncInterval. *)

Floor(size) ==
  CASE FullVectors -> Larger(minPeriod, 1400 + size * 18)
    [] ~ FullVectors /\ size > 0 -> Larger(minPeriod, 650 + Smaller(size, 64) * 9)
    [] OTHER -> minPeriod

\* A thread has read the period and computed the floor.
Begin(th, signal, size) ==
  /\ call[th] = NoCall
  /\ call' = [call EXCEPT ![th] =
               [signal |-> signal, current |-> period, floor |-> Floor(size)]]

\* Within 220 ms of an adjustment only a repair shortens the period.
Nudged(c) ==
  IF c.signal = "RepairNeeded" /\ c.current > c.floor
    THEN c.floor + (c.current - c.floor) \div 2
    ELSE period

NextActivity(signal) ==
  CASE signal = "LocalUpdate"  -> Smaller(1000, Rounded(activity * 85, 100) + 180)
    [] signal = "RepairNeeded" -> Smaller(1000, Rounded(activity * 75, 100) + 300)
    [] signal = "RemoteUpdate" -> Smaller(1000, Rounded(activity * 80, 100) + 80)
    [] signal = "Idle"         -> Rounded(activity * 65, 100)

\* Faulty variant: a quiet group leaves the period where it is.
AdaptiveStepStill(c) ==
  IF c.signal \in {"RemoteUpdate", "Idle"}
    THEN c.current
    ELSE Larger(c.floor, c.current - Larger(200, c.current \div 8))

AdaptiveStep(c) ==
  CASE c.signal = "LocalUpdate" ->
         Larger(c.floor, c.current - Larger(200, c.current \div 8))
    [] c.signal = "RepairNeeded" ->
         Larger(c.floor, c.current - Larger(350, c.current \div 4))
    [] c.signal = "RemoteUpdate" ->
         Smaller(MaxPeriod, c.current + Larger(100, c.current \div 16))
    [] c.signal = "Idle" ->
         Smaller(MaxPeriod, c.current + Larger(400, c.current \div 5))

\* The floor rises by up to 250 ms with the activity.
AdaptivePeriod(c) ==
  LET weightedFloor == c.floor + Rounded(NextActivity(c.signal) * 250, 1000)
  IN  Smaller(MaxPeriod, Larger(minPeriod, Larger(weightedFloor, AdaptiveStep(c))))

FeedbackTarget(floor) ==
  Clamp(Rounded(30 * Delay(feedback) + 22 * Jitter(feedback) + 3200 + 22 * LossPct, 10),
        floor, MaxPeriod)

\* In percent, with NDN_SVS_NETWORK_AWARE_EVENT_ALPHA on.
Alpha(signal) ==
  CASE signal = "RepairNeeded" -> 16
    [] signal = "LocalUpdate"  -> 10
    [] signal = "RemoteUpdate" -> 7
    [] signal = "Idle"         -> 4

\* Faulty variant: the weights are swapped with their signs.
AwarePeriodAway(c) ==
  LET a == Alpha(c.signal)
  IN  Clamp(Rounded((100 + a) * c.current - a * FeedbackTarget(c.floor), 100),
            c.floor, MaxPeriod)

AwarePeriod(c) ==
  LET a == Alpha(c.signal)
  IN  Clamp(Rounded((100 - a) * c.current + a * FeedbackTarget(c.floor), 100),
            c.floor, MaxPeriod)

\* The thread computes with what it read and writes the period.
Finish(th) ==
  LET c == call[th]
  IN  /\ c # NoCall
      /\ IF adjusted
           THEN /\ period' = Nudged(c)
                /\ UNCHANGED <<adjusted, activity>>
           ELSE /\ adjusted' = TRUE
                /\ IF mode = "adaptive"
                     THEN /\ activity' = NextActivity(c.signal)
                          /\ period' = AdaptivePeriod(c)
                     ELSE /\ UNCHANGED activity
                          /\ period' = AwarePeriod(c)
      /\ call' = [call EXCEPT ![th] = NoCall]
      /\ UNCHANGED <<mode, minPeriod, suppression, entries, feedbackVars, now, own, taken,
                     signals>>

\* publishData in an application thread takes the next number.
GetSeqNo ==
  /\ taken = 0
  /\ call["app"] = NoCall
  /\ own < MaxSeq
  /\ taken' = own + 1
  /\ UNCHANGED <<mode, timerVars, entries, call, feedbackVars, now, own, signals>>

\* updateSeqNo: the entry is set whatever it is by then, and set back where a number
\* of an earlier run was merged since GetSeqNo.
UpdateSeqNo ==
  /\ taken > 0
  /\ own' = taken
  /\ taken' = 0
  /\ IF taken > own THEN Begin("app", "LocalUpdate", entries) ELSE UNCHANGED call
  /\ UNCHANGED <<mode, timerVars, entries, feedbackVars, now, signals>>

\* A Sync Interest that was merged: the signal depends on the MergeResult. It may
\* bring a number of an earlier run back.
RemoteSignal(signal) ==
  /\ signals < MaxSignals
  /\ signal \in {"RepairNeeded", "RemoteUpdate"}
  /\ signals' = signals + 1
  /\ own' \in own .. Larger(own, Earlier)
  /\ own' # own => signal = "RepairNeeded"
  /\ \E size \in Sizes : /\ size >= entries
                         /\ entries' = size
                         /\ Begin("loop", signal, size)
  /\ UNCHANGED <<mode, timerVars, feedbackVars, now, taken>>

\* The bound leaves the identical vectors of a quiet group out in the adaptive mode.
IdleSignal ==
  /\ IF mode = "adaptive"
       THEN UNCHANGED signals
       ELSE signals < MaxSignals /\ signals' = signals + 1
  /\ Begin("loop", "Idle", entries)
  /\ UNCHANGED <<mode, timerVars, entries, feedbackVars, now, own, taken>>

\* 220 ms after the last adjustment.
AdjustmentAges ==
  /\ adjusted
  /\ adjusted' = FALSE
  /\ UNCHANGED <<mode, period, minPeriod, suppression, activity, entries, call,
                 feedbackVars, now, own, taken, signals>>

-----------------------------------------------------------------------------
(* The propagation feedback of the network-aware mode. *)

LastSeq == IF pending = <<>> THEN 0 ELSE pending[Len(pending)].seq

\* Faulty variant: nothing is forgotten.
Everything(queue) == queue

\* The numbers the queue has room for: the last ones.
Newest(queue) == SubSeq(queue, Larger(1, Len(queue) - Remembered + 1), Len(queue))

\* recordPropagationFeedbackSend: a number is recorded unless it, or a later one,
\* waits in the queue already, and the oldest is forgotten.
RecordPropagationFeedback ==
  /\ pending' = IF LastSeq >= own
                  THEN pending
                  ELSE Newest(Append(pending, [seq |-> own, at |-> now]))
  /\ sentAt' = [sentAt EXCEPT ![own] = @ \union {now}]

\* sendSyncInterest, with this node's entry in the vector.
Send ==
  /\ mode = "network-aware"
  /\ own > 0
  /\ call["loop"] = NoCall
  /\ RecordPropagationFeedback
  /\ UNCHANGED <<mode, timerVars, entries, call, feedback, measured, now, own, taken,
                 signals>>

NextFeedback(observed) ==
  IF feedback.samples = 0
    THEN [ delay   |-> observed,
           jitter  |-> Larger(15, Rounded(15 * observed, 100)),
           samples |-> 1 ]
    ELSE [ delay   |-> Rounded(82 * feedback.delay + 18 * observed, 100),
           jitter  |-> Larger(10, Rounded(78 * feedback.jitter
                         + 22 * Distance(observed, Larger(1, feedback.delay)), 100)),
           samples |-> feedback.samples + 1 ]

\* refreshNetworkAwareTimerState(true), given the feedback that holds from now on.
Refresh(fb) ==
  /\ suppression' = SuppressionTime(fb)
  /\ minPeriod' = AwareMin(fb)
  /\ period' = Clamp(period, AwareMin(fb), MaxPeriod)

\* Faulty variant: every number waiting is taken for echoed.
EchoedAll(k, echoedSeq) == k = Len(pending)

\* The loop that pops the queue stops after its k-th element.
Echoed(k, echoedSeq) ==
  /\ \A i \in 1 .. k : pending[i].seq <= echoedSeq
  /\ k < Len(pending) => pending[k + 1].seq > echoedSeq

\* The numbers of this node that the others may hold: those it has sent, and those
\* of an earlier run.
Echoes == {i \in Numbers : i <= Earlier \/ sentAt[i] # {}}

\* observePropagationFeedback: the numbers up to the echo leave the queue, and the
\* delay is measured from the last of them. Nothing changes when there is none.
ObservePropagationFeedback(echoedSeq) ==
  \E k \in 1 .. Len(pending) :
    /\ mode = "network-aware"
    /\ call["loop"] = NoCall
    /\ Echoed(k, echoedSeq)
    /\ pending' = SubSeq(pending, k + 1, Len(pending))
    /\ IF now <= pending[k].at
         THEN UNCHANGED <<feedback, measured, timerVars>>
         ELSE /\ feedback' = NextFeedback((now - pending[k].at) * TickMs)
              /\ measured' = [seq |-> echoedSeq, from |-> pending[k].at]
              /\ Refresh(feedback')
              /\ UNCHANGED <<adjusted, activity>>
    /\ UNCHANGED <<mode, entries, call, sentAt, now, own, taken, signals>>

Tick ==
  /\ now < MaxTicks
  /\ now' = now + 1
  /\ UNCHANGED <<mode, timerVars, entries, call, feedbackVars, own, taken, signals>>

-----------------------------------------------------------------------------
Next ==
  \/ GetSeqNo
  \/ UpdateSeqNo
  \/ \E signal \in Signals : RemoteSignal(signal)
  \/ IdleSignal
  \/ \E th \in Threads : Finish(th)
  \/ AdjustmentAges
  \/ Send
  \/ \E i \in Echoes : ObservePropagationFeedback(i)
  \/ Tick

Spec == Init /\ [][Next]_vars

\* The members of a quiet group go on sending what all of them know.
Fairness ==
  /\ WF_vars(IdleSignal)
  /\ \A th \in Threads : WF_vars(Finish(th))
  /\ WF_vars(AdjustmentAges)

FairSpec == Spec /\ Fairness
=============================================================================
