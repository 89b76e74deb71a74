SPECIFICATION Spec
CONSTANTS
  t1 = t1
  t2 = t2
  s1 = s1
  other = other
  AppThreads = {t1, t2}
  StreamOf <- OneStream
  Nodes = {s1, other}
  MaxSeq = 2
  MaxOther = 2
  Earlier <- FirstRun
  NoVector = NoVector
  Loop = Loop
  Nobody = Nobody
INVARIANTS
  UniqueNumbers
