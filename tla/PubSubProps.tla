----------------------------- MODULE PubSubProps ----------------------------
(***************************************************************************)
(* What the two nodes of PubSub are required to do.                        *)
(***************************************************************************)
EXTENDS PubSub

\* The callback of a subscription runs once at most for a publication, though it
\* may be appended to m_fetchMap by an announcement or by a late mapping, and the
\* publication be fetched once for each (svspubsub.cpp:169-234).
AtMostOnce == \A s \in Subs : \A p \in Numbers : delivered[s][p] <= 1

\* m_fetchMap and m_fetchingMap have the same keys, and what waits in the queue is being
\* fetched, unless its fetch failed or brought another content type: then both keys
\* stay, and fetchAll passes the number over from then on, whatever is appended to
\* it (svspubsub.cpp:274-288, 294-297, 420-425).
QueueIsFetched ==
  /\ Waiting(fetchMap) = fetching
  /\ \A p \in Numbers :
       /\ p \in fetching <=> stage[p] # "none"
       /\ stage[p] = "failed" => p \in broken \/ Content[p] = "other"

\* What a subscriber asks for exists: its number was announced after its data
\* was inserted, so that a failed fetch is a failure of the network.
AskedForExists == \A p \in Numbers : stage[p] # "none" => p \in store

\* The mapping that a packet subscription comes with may be late: it is appended
\* when the first segment has been returned, and cleanUpFetch removes it.
ComesLate(s, p) == s \in PacketSubs \intersect PrefixSubs /\ Content[p] = "segments"

\* A query that covers a number without a mapping gets no answer.
Unanswerable(q) == \E n \in q.low .. q.high : Content[n] = "other"

\* A subscription that was there when a publication was announced gets it, even if the
\* Sync Interest did not carry the mapping or was sent before the mapping
\* was inserted. Excepted are a publication whose own fetch, segments or mapping query
\* failed, a subscription that was removed, a publication that is too old, and the
\* two cases above; a failure of one publication excuses no other.
DueIsDelivered ==
  \A s \in Subs : \A p \in Numbers :
    (/\ Content[p] # "other"
     /\ ~ ComesLate(s, p)
     /\ s \in PrefixSubs => p \notin MayBeOld)
      => (<<s, p>> \in due
            ~> \/ delivered[s][p] > 0
               \/ p \in broken
               \/ status[s] = "off"
               \/ \E q \in queries : p \in q.low .. q.high /\ Unanswerable(q))

\* For the application SVSPubSub is Delivery.
AsksFor == [s \in Subs |-> IF s \in PrefixSubs THEN Covers[s] ELSE Numbers]

Application == INSTANCE Delivery

ImplementsDelivery == Application!Spec
=============================================================================
