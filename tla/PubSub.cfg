SPECIFICATION FairSpec
CONSTANTS
  all = all
  blob = blob
  MaxSeq = 3
  Content <- Three
  ProducerSubs = {all}
  PrefixSubs = {blob}
  PacketSubs = {all}
  Covers <- Covered
  MayBeOld = {1}
  QuerySpan = 1
  MaxInFlight = 1
  MaxFaults = 1
CHECK_DEADLOCK FALSE
INVARIANTS
  TypeOK
  AtMostOnce
  QueueIsFetched
  AskedForExists
PROPERTIES
  ImplementsDelivery
  DueIsDelivered
