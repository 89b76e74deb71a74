SPECIFICATION FairSpec
CONSTANTS
  t1 = t1
  t2 = t2
  s1 = s1
  other = other
  AppThreads = {t1}
  StreamOf <- OneThread
  Nodes = {s1, other}
  MaxSeq = 3
  MaxOther = 1
  Earlier <- Restarted
  NoVector = NoVector
  Loop = Loop
  Nobody = Nobody
INVARIANTS
  TypeOK
  UniqueNumbers
  SentIsKept
  LockOrder
PROPERTIES
  Announced
