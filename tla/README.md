# A TLA+ model of m-svs, State Vector Sync

m-svs is a C++ library (`ndn-svs/`) in which the members of a group learn, over
a Named Data Network, how far every other member has published. Each node keeps
a *state vector* (name to latest sequence number) and multicasts *Sync
Interests* that carry it, or a slice of it. On top of that layer the library
publishes and fetches data (`SVSync`) and offers publish/subscribe
(`SVSPubSub`). This directory models the sync layer with its timer and its
threads, the fetcher, and publish/subscribe with its mappings, checks them with
TLC and proves their safety with TLAPS.

## 1. Inventory

| Component | State | Operations | Talks to | Hard behaviour |
|---|---|---|---|---|
| Sync protocol core, `core.cpp` `SVSyncCore` | `m_vv`, `m_recordedVv` (suppression), `m_retxEvent` and `m_nextSyncInterest`, `m_initialized`, `m_lastSyncTxUs` | registration, initial send, `onSyncInterest`, `retxSyncInterest`, `updateSeqNo` | other nodes by multicast; the application by `m_onUpdate`, which may call back into `updateSeqNo` | loss and reordering, restarts without memory, three uses of one timer, re-entrant callback |
| Partial state vectors, `buildSyncVector`, `getStateVectorLimit`, `VersionVector::selectSubset` | cursor, last selection, missed rounds, score burst | one slice per Sync Interest, 14 strategies | called by `sendSyncInterest` | budgets that must add up; coverage over many slices |
| Adaptive timer, `updateSyncInterval`, `sampleSyncDelay`, `observePropagationFeedback` | period, activity score, delay and jitter estimates, pending feedback | per signal, per Interest | called by the handlers of the core | clamps, windows, floors that grow with the vector |
| Threads of a node | four mutexes and some atomics | any public call from an application thread | event loop | check-then-act across critical sections |
| `VersionVector` encoding | none | `encode`, decoding constructor | wire | none (a pure round trip) |
| `Fetcher` | queue, pending window, retry counters | express, data, nack, timeout, failed validation | network, validator | window against retries, answers after a retry |
| Data plane, `SVSyncBase`, `SVSync`, `SVSyncShared`, stores | data store | `publishData`, `fetchData`, `onDataInterest` | core, fetcher | order of store, announce and put |
| `MappingProvider` | name mappings | insert, query, fetch | fetcher, pub/sub | all-or-nothing answers, endless retry |
| `SVSPubSub` | subscriptions, fetch map, fetching map, notification list | publish, subscribe, update callback, data, segments | all of the above | duplicate fetches, clean-up on every path |
| Security options, TLV numbers, examples | configuration | - | - | - |

What makes each of them correct:

- *core*: a vector only moves forward, holds nothing that was not published, and
  the application hears of each number once; what is published reaches everyone
  over lossy links; suppression ends; a group in sync is quiet.
- *partial vectors*: a slice uses its whole budget and holds the own entry;
  the reserved parts are there; over time every name is sent.
- *timer*: the period stays between its bounds, moves the right way and relaxes in
  a quiet group; replies are earlier than it; a delay is measured from a sending
  of the number that was echoed.
- *threads*: a run uses no number twice, what it announced is not withdrawn and is in
  the store, no announcement is lost, the mutexes are taken in one order. Numbers
  that a node announced before it was restarted come back by a merge, and for those
  some of this fails (section 4).
- *fetcher*: one outcome per request, retries bounded as configured, the window
  is respected and the queue drains.
- *data plane, mapping, pub/sub*: what is announced can be fetched; each
  subscription gets each matching publication at most once, and once if nothing
  fails; what waits in the queue is being fetched, unless its fetch has failed.

## 2. Modules

| Module | Models |
|---|---|
| `StateVectors` | vectors as functions with 0 for an absent name; `MergeStateVector` (`mergeStateVector`), `SyncVectors` (the slices `buildSyncVector` may return), `Join` (`recordVector`) |
| `SyncCore` | the group: one action per handler of a node, the multicast network, restarts |
| `GroupSync` | the abstract specification: what the application is promised |
| `SyncCoreProps` | invariants, action properties and liveness of `SyncCore`, and the refinement mapping |
| `SyncCoreProofs` | the theorems about `SyncCore` |
| `MCSyncCore` | the TLC instances of `SyncCore` |
| `SubsetSelection` | `selectSubset` as operators: orders, scores, quotas, the strategies |
| `SyncVectorBuilder` | `buildSyncVector` as a state machine of one node |
| `SyncVectorBuilderProps`, `MCSyncVectorBuilder` | its properties and its TLC instances |
| `SubsetSelectionProofs` | lemmas about orders, budgets and strategies, up to what `selectSubset` returns |
| `SyncVectorBuilderProofs` | the theorems about `SyncVectorBuilder` |
| `Fetcher` | the queue, the window and the retries of `Fetcher`, one action per handler |
| `Exchanges` | the abstract specification: what a fetcher promises its caller |
| `FetcherProps`, `FetcherProofs`, `MCFetcher` | properties, theorems and the TLC instance of `Fetcher` |
| `CoreThreads` | one node with application threads beside the event loop: what a thread does under a mutex, or between two, is a step |
| `CoreThreadsProps`, `CoreThreadsProofs`, `MCCoreThreads` | its properties, theorems and TLC instances |
| `SyncTimer` | the period between Sync Interests: signals, floor, clamps, and the measured echo delay |
| `SyncTimerProps`, `SyncTimerProofs`, `MCSyncTimer` | its properties, theorems and TLC instance |
| `PubSub` | a publishing node and a subscribing node of `SVSPubSub`, with the parts of `SVSyncBase` and `MappingProvider` they call |
| `Delivery` | the abstract specification: what `SVSPubSub` promises an application that subscribes |
| `PubSubProps`, `PubSubProofs`, `MCPubSub` | properties, the refinement mapping, theorems and TLC instance of `PubSub` |

`SyncCore` leaves the choice of a slice open: `SyncVectors` is any set of known
names that fills the limit and holds the own entry. `SyncVectorBuilder` takes
the choice apart, and its property `SliceContract` is stated with the same
operator `SyncVectors`: each strategy really delivers what `SyncCore`, and every
theorem about it, assumes, and that is proved (`SlicesKeepContract`). `CoreThreads` takes the handlers of `SyncCore` apart
where a mutex is taken or released, for one node, with the same operators of
`StateVectors` for a merge and a join. `SyncTimer` is about the length of the
periods, which `SyncCore` leaves open. `PubSub` uses what the layers below
promise: numbers are announced in order and may skip some (`GroupSync`), and a
fetch ends in an answer or not at all (`Exchanges`).

### How `SyncCore` corresponds to the code

| Code | Model |
|---|---|
| `m_vv` and the time of its last updates | `vv`, and `fresh`: the names updated less than `m_maxSuppressionTime` ago |
| `m_recordedVv`, null outside suppression | `recordedVv`, `NoVector` |
| `m_retxEvent` and `m_nextSyncInterest` | `timer`: what it was armed for: `local` (1 ms after an update), `soon` (a suppression delay or what is left of the minimum gap), `period`; `due` when it has expired and its handler is still to run |
| `setInterestFilter`, the 100 ms wait, `m_initialized` | `phase`, `OnRegistered`, `InitialEvent` |
| `m_lastSyncTxUs` and `m_minSendInterval` | `txGap`, `GapElapsed` |
| `retxSyncInterest(true, 0)` | `RetxSyncInterest` with its three ways out: `HoldSyncInterest`, `SendSteady`, `SendUnlessCovered` |
| `retxSyncInterest(false, delay)` | an assignment to `timer` |
| `onSyncInterestValidated` | `OnSyncInterest`; with an update callback that publishes, `OnSyncInterestPublishing` |
| `publishData` up to `updateSeqNo` | `Publish` |
| process stop and start | `Restart`: every member is volatile |
| NFD multicast | `net`, one copy per receiver; delivered in any order, `Lose`d, or dropped when a link holds `MaxInFlight` |

`published` and `reported` are history: the highest number ever used, and what
`m_onUpdate` was told.

Abstractions. Time is in the order of events only: a timer may expire at any
moment, with two facts kept: a local update's timer (1 ms, or
`NDN_SVS_LOCAL_UPDATE_DELAY_MS`) expires before the update is as old as
`m_maxSuppressionTime` (40 ms at least), and a suppression delay replaces only a
later expiry. `Limit` is a constant, where `getStateVectorLimit` lets it grow
with the vector: the two only differ in how soon a vector becomes partial. The
signature check, decoding and decompression of an incoming Interest either
succeed or amount to loss. The mapping block is in `PubSub`. A node runs one
handler at a time, as its event loop does; `CoreThreads` has what application
threads do in between.

### How `SyncVectorBuilder` corresponds to the code

`config` is what the constructor fixes: the node's name, the strategy and the
`NDN_SVS_*` variables. `seqNo` and `recency` are `m_vv` and the order of its
timestamps (a tie is one of the orders); `cursor`, `sticky`, `missed` and `burst` are `m_stateVectorCursor`,
`m_lastSelectedNodes`, `m_scoreUnselectedRounds` and
`m_adaptiveScoreBurstRemaining`. `Set` is `VersionVector::set`, by whatever
handler; `BuildFull` and `BuildPartial` are the two ways through
`buildSyncVector`. A name is a number because `std::map` order matters to the
rotation. `Defaults` in the MC module has the values of the constructor. Scores are compared as fractions over
a common denominator instead of doubles, and weights must not all be 0 (the code
falls back on its defaults then). `m_hotspotScore` is never assigned in the code,
so it is 0. Of a shuffled order only the set of names that come first counts:
`lucky` is any set of them.

The loop that all strategies share, "offer the names in some order, add what is
not there yet until the budget or the room is used up", is `AddFrom`, stated as
the set it adds: the first names of the order that qualify (`FirstOf`). An order is
a sequence given by how many names come before each (`Sorted`). So the only
recursion left is that of `AddClusterScore`, whose scores change with each name.

### How `Fetcher` corresponds to the code

| Code | Model |
|---|---|
| `m_interestQueue`, `m_pendingInterests` | `queue`, `pending`; the map's key, `id`, is left out: no two attempts of a request exist at once |
| `QueuedInterest` | a record of `Attempts`; the Interest is its `request` and `nonce`, and the callbacks are `answers` |
| data the validator has, `m_scheduler`'s retries | `validating`, `delayed` |
| the two `expressInterest`, `processQueue` | `ExpressInterest`, `Requeue`, `ProcessQueue` |
| `onData` and the two lambdas in it | `OnData`, `OnDataValidated`, `OnValidationFailed`, `RetryAfterValidationFail` |
| `onNack`, `onTimeout` | `OnNack`, `OnTimeout` |

`ProcessQueue` is the whole loop at once. `Init` chooses whether there is a
validator. `issued` and `answers` are history, and so is `sent`, which counts only
for requests that retry finitely often, as it would have no bound otherwise. An
application callback is the last thing each handler does, so that a call it makes
back into the fetcher is a step of its own. The fetcher's destructor, which
cancels what is pending, ends the model's life and is not in it.


### How `CoreThreads` corresponds to the code

| Code | Model |
|---|---|
| `m_vv`, `m_recordedVv`, `m_retxEvent` with `m_nextSyncInterest` | `vv` with `fresh`, `recordedVv`, `timer`, as in `SyncCore` |
| `m_vvMutex`, `m_recordedVvMutex`, `m_schedulerMutex` | `owner`: a step that takes and releases a mutex needs it `Free`; `Lock` and `Unlock` are there where it is held over several steps |
| `publishData` of an application thread | `GetSeqNo`, `InsertData`, `UpdateSeqNo`, `UpdateSyncInterval`, `ArmLocal`; `pc` is the place, `seqNo` the local `newSeq` |
| `onSyncInterestValidated` | `Merge`, `BeginRecord`, `JoinRecorded`, `ReplyNotNewer`, `ReplyNewer`, `ArmLoop`; `at` is the place, `received` and `newer` the locals |
| `retxSyncInterest(true, 0)` | `Fire`, `CompareRecorded`, `Send`, `Release`, `ArmLoop` |
| `m_dataStore->insert` | `stored`, which counts the Data inserted under a number |
| `sendSyncInterest` | `sent`, the join of all vectors sent: what the others may know of this node's streams from this run |
| what the process announced before it was last started | `Earlier`, a constant: the numbers of its streams that the others may give back at any moment |

A received vector is any vector whose entries for this node's streams are within
what this run or an earlier one announced (`Receivable`): the one assumption on the
other members, which need no state of their own. What they say of each other's
streams is arbitrary up to `MaxOther`. So a merge may raise the node's own entry
at any step of `publishData`, and `UpdateSeqNo` sets the entry whatever it is by
then, as core.cpp:957 does. A timer armed for anything but a local update has the one
value `period`: what tells them apart here is only that they may be far off. A node
starts after its first Sync Interest. The node's vectors are full, and
there is no minimum send interval: both are `SyncCore`'s subject. Not in the
model, because C++ gives it no meaning: accesses without any mutex to
`m_scheduler`, to `m_periodicSyncTime` (see `SyncTimer`, which lets them
interleave) and to the data store.

### How `SyncTimer` corresponds to the code

| Code | Model |
|---|---|
| `m_timerMode` | `mode`: adaptive or network-aware; fixed mode returns at once |
| `m_periodicSyncTime`, `m_minPeriodicSyncTime`, `m_maxSuppressionTime`, `m_activityScore` | `period`, `minPeriod`, `suppression`, `activity` (in thousandths) |
| `m_lastTimerAdjustUs` | `adjusted`: the last adjustment is less than 220 ms old |
| `updateSyncInterval` in one thread | `call`, from `Begin` (it has read the period and has the floor) to `Finish` (it writes) |
| its callers | `UpdateSeqNo` in an application thread, with `GetSeqNo` before it; `RemoteSignal`, `IdleSignal` in the event loop |
| this node's entry in `m_vv` and the number `publishData` has taken | `own`, `taken` |
| `m_pendingFeedbackSeqs`, `m_feedbackDelayMs`, `m_feedbackJitterMs`, `m_feedbackSamples` | `pending`, `feedback` |
| `recordPropagationFeedbackSend`, `observePropagationFeedback`, `refreshNetworkAwareTimerState` | `RecordPropagationFeedback`, `ObservePropagationFeedback`, `Refresh` |

Doubles are computed in whole milliseconds, with one rounding where the code has
`llround`; the estimates of delay and jitter, which the code keeps as doubles,
are rounded after each sample. No property depends on a fraction of a
millisecond. `sentAt` and `measured` are history. An echo is any number that this
run has sent or an earlier one announced (`Echoes`, with `Earlier` as in
`CoreThreads`), and a merge may give the node such a number back (`RemoteSignal`). `sampleSyncDelay` only draws a
number between 0.9 and at most 1.23 times the period; `ReplyIsSooner` is about
the smaller of the two. `NDN_SVS_NETWORK_AWARE_EVENT_ALPHA` is on and the jitter
0.1, as by default.

### How `PubSub` corresponds to the code

| Code | Model |
|---|---|
| `publish`, `publishPacket`, `SVSync::publishData` in an application thread | `Publish`, then the `Steps` of the content, one at a time: `InsertData`, `UpdateSeqNo`, `InsertMapping`; `writer` and `step` are the place |
| `m_dataStore`, `m_mappingProvider` of the producer | `store`, `provided` |
| `sendSyncInterest` with `m_notificationMappingList` and `onGetExtraData` | `BuildVector`, `CopyNotification`, `ClearNotification`, between which the other thread may announce and append; `vector`, `copied`, `notify` |
| `onRecvExtraData`, then `updateCallbackInternal` | `OnSyncInterest`: `known` is where `m_onUpdate` has got to |
| `processMapping`, the loop over what is known, the loop of queries | `ProcessMapping`, `FirstUnknown`, `Queries` |
| `onMappingQuery` with the callback of `fetchNameMapping` | `OnMappingAnswer` |
| `m_fetchMap`, `m_fetchingMap`, `fetchAll`, `cleanUpFetch` | `fetchMap` (how often a subscription is in the entry), `fetching`, `FetchAll`, `CleanUpFetch` |
| `onSyncData` and its lambdas | `OnOtherData`, `OnPacket`, `OnFirstSegment`, `OnComplete`, `SendFinalBuffer`; `stage` is how far the fetch has come |
| time-outs, Nacks, failed validation, missing segments | `MappingFails`, `FetchFails`, `SegmentsFail` |

`MayBeOld` holds the numbers whose age may exceed `maxPubAge`: each time one is
looked at, it may be found too old. `delivered` counts the callbacks that ran and
`due` is what was announced while a subscription was there; `broken`, history too,
holds the numbers whose own fetch, segments or mapping query failed. A callback of the
application that calls `subscribe` or `unsubscribe` is a step after the handler.
One stream is enough for the maps, whose keys never mix streams; it leaves out
that a notification list that has begun with one stream skips the mappings of
another, which then are found by a query. The steps of `publish` are those of
`CoreThreads` with the mutexes left out.

## 3. Runs

Bounds are named in the modules (`MaxSeq`, `MaxInFlight`, `MaxRestarts`,
`MaxUpdates`, `MaxRounds`, `MaxSignals`, `MaxTicks`, `MaxFaults`, `Requests`). The
runs of `Fetcher` and `PubSub` turn the deadlock check off: when every request has
come to its end, and everything was published and delivered, nothing is left to
do.

| Run (cfg) | Instance | Properties | Result |
|---|---|---|---|
| `SyncReorder` | 2 nodes, 1 producer, 2 numbers, full vectors, 2 Interests per link, minimum gap, 1 restart | `TypeOK`, `RecordedIsKnown`, `NoPhantom`, `ReportedOnce`, `Monotonic`, `Quiescence` | hold |
| `SyncProgress` | 2 producers, slices of 1 entry, callbacks that publish, fair, lossy | `ImplementsGroupSync`, `SuppressionEnds`, `Dissemination` | hold |
| `SyncRecovery` | 1 producer, 2 numbers, full vectors, minimum gap, 1 restart, fair, lossy | `Agreement` | holds |
| `SyncPartialQuiet` | 2 producers, slices of 1 entry | `Quiescence` | violated |
| `Slices` | all 14 strategies with room for 4, the two with a guaranteed share with room for 3, a rotation with room for 2 and no own entry; 3 names growing to 5, 4 updates | `TypeOK`, `SliceContract`, `CarriesRecent`, `KeepsSticky`, `BringsNovelty`, `RotationBound` | hold |
| `SliceHybrid` | hybrid, every default, 22 names | `Coverage` | violated |
| `Fetch` | 4 requests, window of 2; 2 retry for ever, 1 once, 1 never; 1 retry after failed validation | `TypeOK`, `OneAttempt`, `WindowUsed`, `SentBounded`, `NoStarvation`, `Settles`, `ImplementsExchanges` | hold |
| `FetchUnreported` | the same | `FailureIsReported` | violated |
| `CoreThreads` | 1 application thread that publishes, 3 numbers, 2 of which it announced before a restart, the event loop, 1 other member's stream, fair | `TypeOK`, `UniqueNumbers`, `SentIsKept`, `LockOrder`, `Announced` | hold |
| `ThreadNumbers` | 2 application threads under one name, first run | `UniqueNumbers` | violated |
| `SyncTimer` | both modes, full vectors of 2 entries growing to 1600, 3 numbers, 2 of which an earlier run announced, a queue of 1, a clock of 3 ticks of 4 s, fair | `TypeOK`, `PeriodInBounds`, `ReplyIsSooner`, `EchoMatched`, `TowardsTarget`, `Relaxes` | hold |
| `PubSub` | 3 numbers: a packet, segments, one without mapping; a packet subscription to the producer, a subscription to a prefix; queries of 2 numbers; 1 Interest under way, 1 failure, fair | `TypeOK`, `AtMostOnce`, `QueueIsFetched`, `AskedForExists`, `ImplementsDelivery`, `DueIsDelivered` | hold |

Why the bounds suffice. Two numbers per producer make a vector stale in two
degrees, which is what overlapping ranges and backward moves need; two
Interests on a link make one overtake another; one restart leaves Interests of
the earlier life in flight. Slices of one entry are the extreme of partial
vectors: the sender's own entry only. In `Slices` a limit of 4 is the smallest at
which a fairness reserve exists, and five names exceed it by one; growing from
three passes the boundary between full and partial. `RotationBound` needs names that
appear behind and in front of the cursor: the two new names, 1 and 4, are smaller
than names the rotation has or has not reached. Groups of three and more
nodes, where what is recorded in suppression comes from several senders, are
covered by the theorems; TLC explores two nodes, because three with the timers,
restarts and links above are beyond it. In `Fetch` the two requests that retry for
ever can fill the window of 2, so that the others get in only if the queue is
fair; with two more, the queue holds up to two, in either order.

In `CoreThreads` one application thread meets the event loop at every lock; more
threads meet each other only at the mutexes, which the theorems cover for any
number. Two numbers of an earlier run and a third make the thread take a number of
that run, have its entry raised past it and sent before it sets it back, and take the
first new number after that. In `SyncTimer` 1600 entries put the floor (1400 + 18 each) above the maximum
of 30 s, one place in the queue makes it forget a number that is echoed later,
and ticks of 4 s bring the measured delay far above the clamp of the suppression
time. `IdleSignal` is unbounded in the adaptive mode, because `Relaxes` needs the
signals of a quiet group without end. In `PubSub` three numbers and queries of two
make a range that is split, a query that overlaps what is known and one that
can never be answered; one Interest under way still arrives late, after
later publications, since it carries the list as it was copied. One failure shows
that it excuses no other publication.

Fairness (`SyncCore!Fairness`, `SyncVectorBuilder!FairSpec`). The scheduler of
ndn-cxx runs every expired event and the io_context every ready handler: weak
fairness on registration, the initial event, `Expire`, `Fire`, `Settle` and
`GapElapsed`. Weak is enough, since each stays enabled until it happens or is
replaced by a timer that is then subject to the same. Delivery is strongly fair
per link: a link used again and again delivers again and again. Nothing obliges
an application to publish, a node to restart, or a message to be lost.
`Dissemination` is checked without restarts (a producer that loses its vector
withdraws what only it knew), `Agreement` with one. A slice is built again and
again because every firing of the timer re-arms it.

`Fetcher!FairSpec` is weakly fair to each request: `ndn::Face` ends a pending
Interest in data, a Nack or the timeout of its lifetime, a validator ends in one
of its two callbacks, and the scheduler runs what is due. Which of the outcomes
it is stays open, so `NoStarvation` and `Settles` hold however many attempts
fail, and nothing obliges an application to make a request.

`CoreThreads!Fairness` is strong for the steps of an application thread in
`publishData`, for `Fire` and, for the node's own streams, for `Settle`, which Sync
Interests that keep arriving disable and enable again: a mutex that is released again and again is
obtained, and the event loop gets round to an expired timer. The steps of a
handler and the passing of time are weakly fair. `SyncTimer!Fairness`: identical
vectors keep arriving, a call of `updateSyncInterval` returns, 220 ms pass.
`PubSub!Fairness`: a publication that was begun is finished, and while some query, or
some fetch, can be answered, one of them is, unless one of the `MaxFaults` failures
hits it; the retries of `Fetcher` are behind this. Which one is left open: each step
uses up a query or brings a fetch further, so all get their turn. A Sync Interest need not arrive: `due`
begins with one that did.

Each property of a passing run is also run against a faulty variant of the code
(the operators marked *Faulty variant* beside the definition they replace) and
fails there.

## 4. What the runs show of the code

Violated runs:

1. *Partial vectors and quiet groups* (`SyncPartialQuiet`). An entry that a slice
   omits reads as 0 in `mergeStateVector` (core.cpp:919), so the receiver of a
   slice of its very own state takes the sender to be behind and enters
   suppression. The comment at core.cpp:762 has identical state reset the timer.
   The price is traffic and not safety: with full vectors `Quiescence` holds.
2. *Rotation in hybrid selection* (`SliceHybrid`). With the default configuration
   and 22 quiet names the limit is 11. Three places go to the rotation, as
   `buildSyncVector` raises the reserve of two by one, up to a third of the limit,
   and eight to the recent entries; a node that has an entry of its own sends it and eight recent
   ones, which leaves the rotation two. The cursor moves by 11 (core.cpp:494): it
   alternates between two positions and the other names are never sent.
   version-vector.hpp:69 promises eventual coverage. `RotationBound` shows the
   rotation itself to be right when all places are its own, which is why its
   configuration has no own entry: an own entry takes a place too.
3. *The last failed validation is not reported* (`FetchUnreported`).
   `onValidationFailed` returns (fetcher.cpp:100) before its call of
   `afterValidationFailed`, with and without retries left: the request ends and
   the caller hears nothing. svsync-base.hpp:137 documents the callback.
   `Exchanges` has the step `Abandon` for this, which needs a validator: without
   one, no request goes unanswered.
4. *Two threads, one number* (`ThreadNumbers`). `publishData` reads the last number
   and sets the next in two critical sections (svsync-base.cpp:66, 77): two
   threads under one name insert two Data with the same number, and the vector
   may even go back for a moment. examples/chat.cpp:61 calls the instance
   thread-safe. With one thread per name the theorem `NumbersAreUnique` holds.

What the code does that no documentation contradicts, met while modelling:

- A local update may be announced a period late. An Interest that lacks a number
  younger than `m_maxSuppressionTime` replaces its 1 ms timer by a full period
  (core.cpp:764, 922), and in suppression state the fresh entry does not count, so
  the timer sends nothing (core.cpp:803). `Dissemination` and `Announced` show that
  it is announced in the end.
- `updateSeqNo` sets the entry whatever it is (core.cpp:957). If a restarted node has
  taken its next number when a Sync Interest brings an old one back (core.cpp:903-912),
  the entry is set back: a number that may have been sent meanwhile is withdrawn for
  a while, its data is not in the store of this run, the publication has a number
  that the others know already, and no timer is armed for it (core.cpp:960).
  `UniqueNumbers` holds all the same within a run; `SentIsKept` and `Announced`
  except the numbers of an earlier run, and only those.
- An echo of a number of an earlier run takes the smaller numbers of this run from the
  queue, and the delay is measured from the sending of one of those
  (core.cpp:991-1003): `EchoMatched` promises the right sending for new numbers only.
- Between the comparison with `m_nextSyncInterest` (core.cpp:776) and the re-arming,
  another thread may arm the timer of its update, which is then replaced:
  again late, not lost (`Announced`).
- A thread that computed its floor before the minimum period rose may write a
  period below the new minimum; it is never below the least configured minimum nor
  above the maximum (`PeriodInBounds`). `std::clamp` is called with a floor above
  the maximum for long vectors (core.cpp:595, 622), which C++ leaves undefined;
  the model has what libstdc++ returns, the maximum. A configured minimum above
  5 s is cut to 5 s (core.cpp:1055).
- A number whose echo was seen is recorded again by the next periodic Interest
  (core.cpp:977), so that the measured delay may be the time to a neighbour's next
  periodic Interest. `EchoMatched` says of a new number no more than that the delay is
  measured from a sending of it, not that it is the first echo.
- The cursor of the rotation is an index (core.cpp:493). A name that appears before
  the cursor moves the others on by one place: the name sent last is offered again,
  the next one comes one place later, and one the cursor has passed, behind the new
  name, is two places further off, as there is one more to go round. A name can so
  be left out for longer than a turn, by two places for each new name and no more
  (`RotationBound`, proved).
- A packet subscription to a prefix whose mapping arrives when the first segment
  was already returned is erased without a call (svspubsub.cpp:423; `ComesLate`).
- A query that covers a number without a mapping, as `SVSync::publishData` leaves
  behind, is never answered (mapping-provider.cpp:129; `Unanswerable`) and retried
  without end, with the other numbers of its range.
- A fetch that fails, by time-out or validation, leaves its key in both maps, and data
  of another content type does so too, although line 295 writes `false`. Line 280
  looks for the key only, so that the number is never fetched again, whatever is
  appended to it, against the comment of line 278, "Check if already fetching this
  publication". `QueueIsFetched` has these numbers as the stage `failed`, and shows
  that no other number waits without a fetch; `DueIsDelivered` excepts them.
- The steps of a small publication announce its number before its mapping is
  inserted (svspubsub.cpp:99). `DueIsDelivered` shows that the query is answered
  later, since queries are retried without end.
- `publish` hands `mappingBlocks` on for large publications only
  (svspubsub.cpp:91), and callbacks of a removed subscription still run for what
  was queued before.

## 5. What is proved

`SyncCoreProofs` proves, for any set of nodes (finite or not, but for the last) and any bounds, from
the assumptions `ProducersAssumption`, `BoundsAssumption` and `NoVectorAssumption`
of `SyncCore`:

| Theorem | States |
|---|---|
| `TypeCorrect` | `Spec => []TypeOK` |
| `RecordedIsAlwaysKnown` | `Spec => []RecordedIsKnown` |
| `NeverPhantom` | `Spec => []NoPhantom` |
| `AlwaysReportedOnce` | `Spec => []ReportedOnce` |
| `AlwaysMonotonic` | `Spec => Monotonic` |
| `Refinement` | `Spec => ImplementsGroupSync` |
| `QuietWhenFull` | `VectorsFit` implies `Spec => Quiescence` |

The inductive invariant `IInv` is the conjunction of `TypeOK`,
`RecordedIsKnown`, `NoPhantom`, `Bounded` (nothing beyond `MaxSeq` was published)
and `ReportedOnce`. The conjuncts need one another: `ReportedOnce` survives the
merge at the end of suppression, whose missing data is never reported, only
because `RecordedIsKnown` makes that merge learn nothing; `NoPhantom` needs its
clause on the network to survive a reception and the one on `recordedVv` to
survive that merge. The lemmas `MergeFacts`, `RetxEffect` and `RecordEffect` say
once what a merge, a firing and a recording can change; then there is one lemma
or case per handler. For the refinement, every step is a `Learn`, an `Advance`, a
`Forget` or a stutter of `GroupSync`, where the bounds of `IInv` give the witness
for the view a node moves to. `VectorsFit` is that the group is finite and not
larger than `Limit`: then a Sync Interest carries the whole vector (`FullIsWhole`), and
merging a vector equal to the local one yields neither missing data nor a newer
local vector (`MergeOfEqual`). The run `SyncPartialQuiet` shows that the condition is
needed.

`FetcherProofs` proves, for any set of requests, any window and any numbers of
retries, finite or endless, from `FetcherAssumption`:

| Theorem | States |
|---|---|
| `TypeCorrect` | `Spec => []TypeOK` |
| `AlwaysOneAttempt` | `Spec => []OneAttempt` |
| `AlwaysWindowUsed` | `Spec => []WindowUsed` |
| `AlwaysSentBounded` | `Spec => []SentBounded` |
| `Refinement` | `Spec => ImplementsExchanges` |

Its invariant, `Consistent`, is stated over the values a handler enters
`processQueue` with, since that is where handlers meet: `Typed`; `Single`, no
request has two attempts; `Unanswered`, a request with an attempt was made and
has no answer; and `Counted`, what a request was sent plus what its attempt may
still be sent is within its bound, which is what makes `SentBounded` inductive.
`ProcessQueueKeeps` shows that `processQueue` leaves in order what it found in
order, fills the window and changes no request's being open. A handler is then
a combination of `Take` (an attempt leaves its one place), `Queue`, `Hand` (it
goes to another) and `Close` (its callback runs); `Loses` and `Gains` say what
that does to the open requests, which is what `Exchanges` sees. `SentAttempts`
counts the attempts sent by a bijection with their positions, where `Single`
makes them different from one another: without it, the window could not be
shown to be full.

`CoreThreadsProofs` proves, for any number of application threads, streams and
members, from `ThreadsAssumption`:

| Theorem | States |
|---|---|
| `TypeCorrect` | `Spec => []TypeOK` |
| `AlwaysLockOrder` | `Spec => []LockOrder` |
| `NumbersAreUnique` | `OneThreadPerStream` implies `Spec => []UniqueNumbers` |
| `AlwaysSentIsKept` | `OneThreadPerStream` implies `Spec => []SentIsKept` |

`TypeInv` says where each mutex is held: of the three only that of `m_recordedVv`
is held across steps, and only by the event loop, which is what makes the order
of the locks safe. `IInv` adds, for threads that share no name, what is said relative
to `Base`, the number up to which a thread has announced, which is not the entry of
the vector while the thread has a number in hand. `Counted`: one Data for each number
up to `Top`, the last one stored, where those of an earlier run may have none, and no
Data beyond. `NotLowered`: merges only raise the entry that a thread is about to set.
`Kept`: what is in the vector, was sent, is recorded or is being handled is
`Plausible`, that is, within `Base` or what an earlier run announced. `GetSeqNo` takes
a number past the entry, so past `Base` and past anything stored; `UpdateSeqNo` sets
`Base` to it, whatever the entry was, and `Plausible` is a bound that no set-back
lowers. `Earlier` is any function, so the theorems hold for a first run (all 0) and
after any restart. `ThreadNumbers` shows that the condition on the threads is needed.

`SyncTimerProofs` proves, for any configuration, loss rate, sizes of the vector,
measured delays and length of the feedback queue, from `TimerAssumption`:

| Theorem | States |
|---|---|
| `TypeCorrect` | `Spec => []TypeOK` |
| `AlwaysInBounds` | `Spec => []PeriodInBounds` |
| `AlwaysEchoMatched` | `Spec => []EchoMatched` |
| `AlwaysReplyIsSooner` | `ConfiguredMin >= 1334` implies `Spec => []ReplyIsSooner` |
| `AlwaysTowardsTarget` | `Spec => TowardsTarget` |

The invariant has `CallsInBounds`, that what a thread has read and computed lies in
the bounds as well: `PeriodInBounds` is inductive only with it, since a thread may write
long after it read. `MinInBounds` bounds the minimum, and the suppression time by
1200 ms; 1334 ms is the least configured minimum 90% of which exceeds that. For
`EchoMatched`, `InOrder` says that the queue is ordered, that its times are times
of sending, and that it has no gap among new numbers: every one sent that is not
smaller than its first is in it. `EchoIsLast` concludes that the last number the echo
of a new number pops is the echo itself, also when the queue has forgotten smaller
ones; `OwnIsPublished`, that a number to be set back to is past all new ones sent, is
what keeps the queue without gap. `TowardsTarget` holds of
every step from the types alone: a rounded mean lies between what it is the mean of
(`MeanIsBetween`), limits that hold the target bring no value further from it, and
where the floor is above the maximum both are the maximum (`AwareIsNearer`).

`PubSubProofs` proves, for any stream of publications, any subscriptions and any
length of a query, from `PubSubAssumption`:

| Theorem | States |
|---|---|
| `TypeCorrect` | `Spec => []TypeOK` |
| `AlwaysAtMostOnce` | `Spec => []AtMostOnce` |
| `AlwaysQueueIsFetched` | `Spec => []QueueIsFetched` |
| `AlwaysAskedForExists` | `Spec => []AskedForExists` |
| `DeliveryImplemented` | `Spec => ImplementsDelivery` |

The invariant is `PubInv` for the node that publishes (the thread works on the next
number until it announces it, and what is announced, in a vector that was read or under
way is in the store)
and `SubInv` for the other: `Disjoint`, no number is asked for in two queries and
none beyond what is announced; `Wanted`, a subscription to a prefix waits for a
number or was given it only when no query asks for that number any more; and
`Once`, it waits once and is given it once, both only while segments are fetched. It
also has `QueueIsFetched`, whose exception, a number in `broken`, only grows.
`AtMostOnce` rests on all of them: a late mapping can queue a number a second time
only if a query for it was still open. `QueriesFacts` shows that the queries into
which a range is split share no number, by the distance of multiples
(`MultiplesApart`); `FirstUnknownFacts`, that there is a first unknown number, by
the well-ordering of the naturals. `FetchAllKeeps` and `CleanUpKeeps` say what the
two operations on the maps preserve. For the refinement, an announcement is an
`Announce`, the end of a fetch or a first segment is a `Deliver`, and all other
steps are stutters; the set of subscriptions a `Deliver` needs is the one whose
callbacks ran.

`SubsetSelectionProofs` and `SyncVectorBuilderProofs` prove, for any names (also
infinitely many new ones), any configurations, any number of updates and any cap on
the missed rounds, from `NamesAssumption` and `ConfigsAssumption`:

| Theorem | States |
|---|---|
| `PartialSubsetFills` | a call of `selectSubset` returns `a.max` known names, the preferred one among them, for all strategies it can be given |
| `LimitMonotone` | `low <= high` implies `StateVectorLimit(low) <= StateVectorLimit(high)`, for numbers above 0 |
| `TypeCorrect` | `Spec => []TypeOK` |
| `SlicesKeepContract` | `Spec => SliceContract` |
| `RecentAreCarried` | `Spec => CarriesRecent` |
| `StickyIsKept` | `Spec => KeepsSticky` |
| `NoveltyIsBrought` | `Spec => BringsNovelty` |
| `RotationIsFair` | `Spec => []RotationBound` |

They rest on three layers. The first is about orders, cut out of the library's facts on
finite sets: in a finite strict order the number of elements before each is
different, and every number below the size occurs (`RankFacts`), so that `Sorted`
lists a set completely and without repetition (`SortedFacts`), `Only` keeps an order
(`OnlyFacts`), and the place of a name in `Rotation` is its distance from the cursor
(`RotationFacts`). The second says what a budget does: `AddFromFacts` gives the exact
size of what `AddFrom` adds, and with it each strategy, which is three or four
such steps, fills the subset (`WithReserveFills`, `WithQuotaFills`,
`StickyRecentFills`), and keeps what its first steps took (`RecentCarried`,
`StickyHeld`, `NoveltyBrought`, `RotationTaken`). `PartialCall` states what these
lemmas need of the arguments. The one recursion, in `AddClusterScore`, is
treated with a least counterexample (`Smallest`) instead of induction. The third
is the state machine. Its invariant `Inv` adds to `TypeOK` that `recency` and
`sticky` are sequences without repetition and that the names known at the start stay;
it makes every call of `selectSubset` a `PartialCall` (`CallFacts`), which is also
what keeps `sticky`, `missed` and `slice` within the known names.

`RotationBound` is not inductive: a name that was missed often must also be near the
cursor. `RotationInv` bounds the two together, `missed[n] * LeastLimit` plus the
distance of the cursor from `n`. A slice that leaves `n` out is at least `LeastLimit`
closer to it, because the limit never falls as the vector grows (`LimitMonotone`,
with roots and ceilings); a new name in front of one that the cursor has passed puts
it two places further away (`AheadOfLonger`), which is where the second
summand of the bound comes from.

Only model-checked: liveness, for which the prover has no rules (fairness and
ENABLED): `SuppressionEnds`, `Dissemination`, `Agreement`, `NoStarvation`, `Settles`,
`Announced`, `Relaxes` and `DueIsDelivered`. Every other property of a passing run is
a theorem.

## 6. Not modelled

- The TLV encoding of vectors and mapping lists: pure functions over bytes that
  the unit tests cover. Security options, TLV numbers: configuration and constants.
  The examples: console programs.
- `SVSyncShared`'s cache of other nodes' data and the names of data packets: they change
  who may answer a fetch, and `PubSub` leaves open who does. Prefetch in
  `subscribeToProducer`, which asks for data and drops it.
- A packet that the application hands to `publishPacket` with a FinalBlock of its own:
  a blob subscription then starts a segment fetch for it (svspubsub.cpp:322-327) under a
  name that `publishPacket` did not publish segments under, and what answers it
  depends on what else the store holds under that prefix. The contents of `PubSub` are
  what `publish` and `SVSync::publishData` make.
- Undefined behaviour that has no states to explore: the callback of a validator that
  outlives the local it refers to (svspubsub.cpp:414), `m_subscriptionCount` that
  starts uninitialised (svspubsub.hpp:230), `std::map`, `std::vector` and the store
  used by two threads at once.
- Restarts of a publisher under publish/subscribe: `SyncCore` shows that its
  numbers come back; its mappings and data do not, since nothing is persisted.
- Fixed timer mode, which never changes the period; metrics and logs.

## 7. Plan

1. A restart of the publisher in `PubSub`, with the data and mappings it loses.
2. A second stream in the notification list, and `SVSyncShared`'s cache.
3. The first and the second echo of a number in `SyncTimer`, so that the measured
   delay can be compared with that of the network.
