SPECIFICATION FairSpec
CHECK_DEADLOCK FALSE
CONSTANTS
  r1 = r1
  r2 = r2
  r3 = r3
  r4 = r4
  Requests = {r1, r2, r3, r4}
  Window = 2
  Retries <- MixedRetries
  ValidationRetries = 1
INVARIANTS
  TypeOK
  OneAttempt
  WindowUsed
  SentBounded
PROPERTIES
  NoStarvation
  Settles
  ImplementsExchanges
