------------------------------- MODULE PubSub -------------------------------
(***************************************************************************)
(* SVSPubSub (svspubsub.cpp) with the parts of SVSyncBase and              *)
(* MappingProvider it calls: a node that publishes one stream, from an     *)
(* application thread beside its event loop, and a node that subscribes.   *)
(*                                                                         *)
(* A publication has a number and a name. Subscriptions to the producer    *)
(* ask for every number; subscriptions to a prefix need the mapping from   *)
(* numbers to names first, which comes with a Sync Interest or is queried. *)
(* What was asked for is fetched, in one packet or in segments.            *)
(***************************************************************************)
EXTENDS Naturals, FiniteSets, Sequences

CONSTANTS
  MaxSeq,        \* bound: publications of the stream
  Content,       \* what each of them is, see Contents
  ProducerSubs,  \* what the application passes to subscribeToProducer
  PrefixSubs,    \* and to subscribe
  PacketSubs,    \* those of them made with packets = true
  Covers,        \* the numbers whose names each prefix covers
  MayBeOld,      \* numbers whose age may exceed maxPubAge
  QuerySpan,     \* 10: a query asks for low .. low + QuerySpan
  MaxInFlight,   \* bound: Sync Interests under way
  MaxFaults      \* bound: failures of the network, of segments or of validation

Numbers == 1 .. MaxSeq

Subs == ProducerSubs \union PrefixSubs

\* One Data packet, segments, or data of another content type that was published
\* with SVSync::publishData and has no mapping.
Contents == {"packet", "segments", "other"}

ASSUME PubSubAssumption ==
  /\ MaxSeq \in Nat /\ QuerySpan \in Nat /\ MaxInFlight \in Nat /\ MaxFaults \in Nat
  /\ Content \in [Numbers -> Contents]
  /\ ProducerSubs \intersect PrefixSubs = {}
  /\ PacketSubs \subseteq Subs
  /\ Covers \in [PrefixSubs -> SUBSET Numbers]
  /\ MayBeOld \subseteq Numbers

VARIABLES
  \* the node that publishes
  seqNo,      \* m_core's number of the stream
  writer,     \* the number the application thread publishes, 0 for none
  step,       \* how many of its steps the thread has made
  store,      \* m_dataStore
  provided,   \* m_mappingProvider's m_map
  notify,     \* m_notificationMappingList
  vector,     \* the number in the Sync Interest that is being built
  copied,     \* that Interest with a copy of the list, before the list is cleared
  net,        \* Sync Interests under way
  \* the node that subscribes
  status,     \* each subscription: to come, made or removed
  known,      \* the number up to which m_onUpdate was called
  mappings,   \* m_mappingProvider's m_map
  queries,    \* mapping queries that are not answered
  fetchMap,   \* m_fetchMap: how often each subscription waits for a number
  fetching,   \* the keys of m_fetchingMap
  stage,      \* how far the fetch of a number has come
  delivered,  \* callbacks run
  due,        \* subscriptions and numbers announced while they were made
  faults,     \* failures so far
  broken      \* the numbers they were of, kept for the properties

publisher == <<seqNo, writer, step, store, provided, notify, vector, copied>>
queue == <<fetchMap, fetching, stage>>
subscriber == <<status, known, mappings, queries, queue, delivered, due>>
failures == <<faults, broken>>
vars == <<publisher, net, subscriber, failures>>

\* Faulty variant: a number is announced before its data is inserted.
StepsAnnouncedFirst(content) ==
  CASE content = "packet"   -> <<"announce", "store", "map">>
    [] content = "segments" -> <<"store", "map", "announce">>
    [] content = "other"    -> <<"announce", "store">>

\* What publishing consists of: publishData inserts the data and updates the number,
\* and the mapping follows; that of segments comes before the update.
Steps(content) ==
  CASE content = "packet"   -> <<"store", "announce", "map">>
    [] content = "segments" -> <<"store", "map", "announce">>
    [] content = "other"    -> <<"store", "announce">>

SyncInterests == [seq : 0 .. MaxSeq, list : SUBSET Numbers]
NoVector == MaxSeq + 1
NoCopy == [seq |-> NoVector, list |-> {}]

TypeOK ==
  /\ seqNo \in 0 .. MaxSeq /\ writer \in 0 .. MaxSeq /\ step \in 1 .. 3
  /\ store \subseteq Numbers /\ provided \subseteq Numbers
  /\ notify \subseteq Numbers
  /\ vector \in 0 .. MaxSeq \union {NoVector}
  /\ copied \in SyncInterests \union {NoCopy}
  /\ net \subseteq SyncInterests
  /\ status \in [Subs -> {"new", "on", "off"}]
  /\ known \in 0 .. MaxSeq
  /\ mappings \subseteq Numbers
  /\ queries \subseteq [low : Numbers, high : Numbers]
  /\ fetchMap \in [Numbers -> [Subs -> Nat]]
  /\ fetching \subseteq Numbers
  /\ stage \in [Numbers -> {"none", "data", "segments", "elements", "failed"}]
  /\ delivered \in [Subs -> [Numbers -> Nat]]
  /\ due \subseteq Subs \X Numbers
  /\ faults \in 0 .. MaxFaults /\ broken \subseteq Numbers

Init ==
  /\ seqNo = 0 /\ writer = 0 /\ step = 1
  /\ store = {} /\ provided = {} /\ notify = {}
  /\ vector = NoVector /\ copied = NoCopy
  /\ net = {}
  /\ status = [s \in Subs |-> "new"]
  /\ known = 0
  /\ mappings = {} /\ queries = {}
  /\ fetchMap = [p \in Numbers |-> [s \in Subs |-> 0]]
  /\ fetching = {}
  /\ stage = [p \in Numbers |-> "none"]
  /\ delivered = [s \in Subs |-> [p \in Numbers |-> 0]]
  /\ due = {}
  /\ faults = 0 /\ broken = {}

-----------------------------------------------------------------------------
(* The node that publishes. *)

\* The application thread calls publish or publishPacket: the next number is taken.
Publish ==
  /\ writer = 0
  /\ seqNo < MaxSeq
  /\ writer' = seqNo + 1
  /\ step' = 1
  /\ UNCHANGED <<seqNo, store, provided, notify, vector, copied, net, subscriber, failures>>

AtStep(name) == writer # 0 /\ Steps(Content[writer])[step] = name

NextStep ==
  IF step < Len(Steps(Content[writer]))
    THEN step' = step + 1 /\ UNCHANGED writer
    ELSE step' = 1 /\ writer' = 0

InsertData ==
  /\ AtStep("store")
  /\ store' = store \union {writer}
  /\ NextStep
  /\ UNCHANGED <<seqNo, provided, notify, vector, copied, net, subscriber, failures>>

UpdateSeqNo ==
  /\ AtStep("announce")
  /\ seqNo' = writer
  /\ NextStep
  /\ UNCHANGED <<store, provided, notify, vector, copied, net, subscriber, failures>>

InsertMapping ==
  /\ AtStep("map")
  /\ notify' = notify \union {writer}
  /\ provided' = provided \union {writer}
  /\ NextStep
  /\ UNCHANGED <<seqNo, store, vector, copied, net, subscriber, failures>>

\* The event loop begins a Sync Interest: it reads the vector,
BuildVector ==
  /\ vector = NoVector
  /\ vector' = seqNo
  /\ UNCHANGED <<seqNo, writer, step, store, provided, notify, copied, net, subscriber,
                 failures>>

\* then copies the list, to which the thread may have appended meanwhile,
CopyNotification ==
  /\ vector # NoVector
  /\ copied = NoCopy
  /\ copied' = [seq |-> vector, list |-> notify]
  /\ UNCHANGED <<seqNo, writer, step, store, provided, notify, vector, net, subscriber,
                 failures>>

\* and clears it; what the thread appended in between is gone.
ClearNotification ==
  /\ copied # NoCopy
  /\ Cardinality(net \union {copied}) <= MaxInFlight
  /\ notify' = {}
  /\ net' = net \union {copied}
  /\ vector' = NoVector
  /\ copied' = NoCopy
  /\ UNCHANGED <<seqNo, writer, step, store, provided, subscriber, failures>>

Lose(msg) ==
  /\ msg \in net
  /\ net' = net \ {msg}
  /\ UNCHANGED <<publisher, subscriber, failures>>

-----------------------------------------------------------------------------
(* The queue of the node that subscribes. *)

\* Every subscription of the set Pairs is appended to the entry of its number.
Push(pairs) ==
  [p \in Numbers |->
    [s \in Subs |-> fetchMap[p][s] + IF <<s, p>> \in pairs THEN 1 ELSE 0]]

Waiting(map) == {p \in Numbers : \E s \in Subs : map[p][s] > 0}

\* Every number of the queue is fetched, unless m_fetchingMap has it.
FetchAll(map) ==
  LET start == Waiting(map) \ fetching
  IN  /\ fetchMap' = map
      /\ fetching' = fetching \union start
      /\ stage' = [p \in Numbers |-> IF p \in start THEN "data" ELSE stage[p]]

\* Faulty variant: the number stays in m_fetchingMap.
CleanUpHalf(p) ==
  /\ fetchMap' = [fetchMap EXCEPT ![p] = [s \in Subs |-> 0]]
  /\ UNCHANGED fetching
  /\ stage' = [stage EXCEPT ![p] = "none"]

CleanUpFetch(p) ==
  /\ fetchMap' = [fetchMap EXCEPT ![p] = [s \in Subs |-> 0]]
  /\ fetching' = fetching \ {p}
  /\ stage' = [stage EXCEPT ![p] = "none"]

\* The callbacks of the subscriptions in S that wait for p run, for each time
\* they were appended.
Call(p, S) ==
  delivered' = [s \in Subs |->
                 [delivered[s] EXCEPT ![p] = IF s \in S THEN @ + fetchMap[p][s] ELSE @]]

On(S) == {s \in S : status[s] = "on"}

\* What processMapping appends for these numbers, if none of them is too old.
ProcessMapping(numbers) ==
  {pair \in On(PrefixSubs) \X numbers : pair[2] \in Covers[pair[1]]}

-----------------------------------------------------------------------------
(* The node that subscribes: what the application calls. *)

Subscribe(s) ==
  /\ status[s] = "new"
  /\ status' = [status EXCEPT ![s] = "on"]
  /\ UNCHANGED <<publisher, net, known, mappings, queries, queue, delivered, due, failures>>

\* The copies of the subscription in m_fetchMap stay.
Unsubscribe(s) ==
  /\ status[s] = "on"
  /\ status' = [status EXCEPT ![s] = "off"]
  /\ UNCHANGED <<publisher, net, known, mappings, queries, queue, delivered, due, failures>>

-----------------------------------------------------------------------------
(* Announcements. *)

\* The first number from low on whose mapping is not in m, high + 1 if there is none.
FirstUnknown(low, high, m) ==
  CHOOSE n \in low .. high + 1 :
    /\ n = high + 1 \/ n \notin m
    /\ low .. n - 1 \subseteq m

\* Faulty variant: the last query is not cut off at the end of the range.
QueriesUntruncated(low, high) ==
  { [low |-> n, high |-> n + QuerySpan] :
      n \in {n \in low .. high : (n - low) % (QuerySpan + 1) = 0} }

\* Faulty variant: the last number of a query is the first of the next.
QueriesOverlapping(low, high) ==
  { [low |-> n, high |-> IF n + QuerySpan < high THEN n + QuerySpan ELSE high] :
      n \in {n \in low .. high : (n - low) % QuerySpan = 0} }

\* The queries for low .. high, none of more than QuerySpan + 1 numbers.
Queries(low, high) ==
  { [low |-> n, high |-> IF n + QuerySpan < high THEN n + QuerySpan ELSE high] :
      n \in {n \in low .. high : (n - low) % (QuerySpan + 1) = 0} }

\* A Sync Interest arrives. Its mappings are inserted; if its number is new,
\* m_onUpdate gets the range up to it. Mappings are processed as far as they are
\* known without a gap, the rest is queried.
OnSyncInterest(msg) ==
  LET range   == known + 1 .. msg.seq
      m       == mappings \union msg.list
      unknown == IF On(PrefixSubs) = {} THEN msg.seq + 1
                                        ELSE FirstUnknown(known + 1, msg.seq, m)
  IN  /\ msg \in net
      /\ net' = net \ {msg}
      /\ mappings' = m
      /\ IF range = {}
           THEN UNCHANGED <<known, queries, queue, due>>
           ELSE /\ known' = msg.seq
                /\ queries' = queries \union Queries(unknown, msg.seq)
                /\ \E old \in SUBSET MayBeOld :
                     FetchAll(Push((On(ProducerSubs) \X range)
                                     \union ProcessMapping((known + 1 .. unknown - 1) \ old)))
                /\ due' = due \union (On(ProducerSubs) \X range)
                              \union {pair \in On(PrefixSubs) \X range :
                                        pair[2] \in Covers[pair[1]]}
      /\ UNCHANGED <<publisher, status, delivered, failures>>

\* A query is answered by a provider that has every number of it, and by no
\* other. Faulty variant: what the answer queued is not fetched.
AnswerNotFetched(q) ==
  /\ q \in queries
  /\ q.low .. q.high \subseteq provided
  /\ queries' = queries \ {q}
  /\ mappings' = mappings \union (q.low .. q.high)
  /\ \E old \in SUBSET MayBeOld :
       fetchMap' = Push(ProcessMapping((q.low .. q.high) \ old))
  /\ UNCHANGED <<publisher, net, status, known, fetching, stage, delivered, due, failures>>

OnMappingAnswer(q) ==
  /\ q \in queries
  /\ q.low .. q.high \subseteq provided
  /\ queries' = queries \ {q}
  /\ mappings' = mappings \union (q.low .. q.high)
  /\ \E old \in SUBSET MayBeOld :
       FetchAll(Push(ProcessMapping((q.low .. q.high) \ old)))
  /\ UNCHANGED <<publisher, net, status, known, delivered, due, failures>>

-----------------------------------------------------------------------------
(* Data. *)

HasBlobSubscriptions(p) == \E s \in Subs \ PacketSubs : fetchMap[p][s] > 0

\* The first packet of a publication arrives and passes validation. Data of another
\* content type goes no further: m_fetchingMap[publication] becomes false, but it is the
\* key that fetchAll looks for, and that stays.
OnOtherData(p) ==
  /\ stage[p] = "data"
  /\ p \in store
  /\ Content[p] = "other"
  /\ stage' = [stage EXCEPT ![p] = "failed"]
  /\ UNCHANGED <<publisher, net, status, known, mappings, queries, fetchMap, fetching,
                 delivered, due, failures>>

OnPacket(p) ==
  /\ stage[p] = "data"
  /\ p \in store
  /\ Content[p] = "packet"
  /\ Call(p, Subs)
  /\ CleanUpFetch(p)
  /\ UNCHANGED <<publisher, net, status, known, mappings, queries, due, failures>>

\* Faulty variant: the first segment goes to every subscription.
FirstSegmentToAll(p) ==
  /\ stage[p] = "data"
  /\ p \in store
  /\ Content[p] = "segments"
  /\ Call(p, Subs)
  /\ IF HasBlobSubscriptions(p)
       THEN stage' = [stage EXCEPT ![p] = "segments"] /\ UNCHANGED <<fetchMap, fetching>>
       ELSE CleanUpFetch(p)
  /\ UNCHANGED <<publisher, net, status, known, mappings, queries, due, failures>>

\* Packet subscriptions get the first segment; the others make the rest be fetched.
OnFirstSegment(p) ==
  /\ stage[p] = "data"
  /\ p \in store
  /\ Content[p] = "segments"
  /\ Call(p, PacketSubs)
  /\ IF HasBlobSubscriptions(p)
       THEN stage' = [stage EXCEPT ![p] = "segments"] /\ UNCHANGED <<fetchMap, fetching>>
       ELSE CleanUpFetch(p)
  /\ UNCHANGED <<publisher, net, status, known, mappings, queries, due, failures>>

\* The segments are complete, and a validator begins to check what they encapsulate.
OnComplete(p) ==
  /\ stage[p] = "segments"
  /\ stage' = [stage EXCEPT ![p] = "elements"]
  /\ UNCHANGED <<publisher, net, status, known, mappings, queries, fetchMap, fetching,
                 delivered, due, failures>>

\* All of them are valid, or there is no validator and they are complete.
SendFinalBuffer(p) ==
  /\ stage[p] \in {"segments", "elements"}
  /\ Call(p, Subs \ PacketSubs)
  /\ CleanUpFetch(p)
  /\ UNCHANGED <<publisher, net, status, known, mappings, queries, due, failures>>

-----------------------------------------------------------------------------
(* Failures. *)

\* The query comes to its end without an answer.
MappingFails(q) ==
  /\ faults < MaxFaults
  /\ q \in queries
  /\ queries' = queries \ {q}
  /\ faults' = faults + 1
  /\ broken' = broken \union (q.low .. q.high)
  /\ UNCHANGED <<publisher, net, status, known, mappings, queue, delivered, due>>

\* No data comes, or what comes fails validation: nobody is called, and the key stays
\* in both maps, so that fetchAll passes the number over from then on.
FetchFails(p) ==
  /\ faults < MaxFaults
  /\ stage[p] = "data"
  /\ stage' = [stage EXCEPT ![p] = "failed"]
  /\ faults' = faults + 1
  /\ broken' = broken \union {p}
  /\ UNCHANGED <<publisher, net, status, known, mappings, queries, fetchMap, fetching,
                 delivered, due>>

\* A segment is missing, or one of them is not valid.
SegmentsFail(p) ==
  /\ faults < MaxFaults
  /\ stage[p] \in {"segments", "elements"}
  /\ CleanUpFetch(p)
  /\ faults' = faults + 1
  /\ broken' = broken \union {p}
  /\ UNCHANGED <<publisher, net, status, known, mappings, queries, delivered, due>>

-----------------------------------------------------------------------------
Write == InsertData \/ UpdateSeqNo \/ InsertMapping

OnData(p) ==
  OnOtherData(p) \/ OnPacket(p) \/ OnFirstSegment(p) \/ OnComplete(p) \/ SendFinalBuffer(p)

Next ==
  \/ Publish \/ Write
  \/ BuildVector \/ CopyNotification \/ ClearNotification
  \/ \E msg \in net : Lose(msg) \/ OnSyncInterest(msg)
  \/ \E s \in Subs : Subscribe(s) \/ Unsubscribe(s)
  \/ \E q \in queries : OnMappingAnswer(q) \/ MappingFails(q)
  \/ \E p \in Numbers : OnData(p) \/ FetchFails(p) \/ SegmentsFail(p)

Spec == Init /\ [][Next]_vars

\* A publication that was begun is finished, and as long as something that is asked
\* for in the network can be answered and does not fail, something is: both kinds of
\* Interest are retried until then.
Fairness ==
  /\ WF_vars(Write)
  /\ WF_vars(\E p \in Numbers : OnData(p))
  /\ WF_vars(\E q \in queries : OnMappingAnswer(q))

FairSpec == Spec /\ Fairness
=============================================================================
