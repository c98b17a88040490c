\* Three requests share two connections, so that two applications can hold both.
SPECIFICATION FairSpec
CONSTANTS
  Requests = {r1, r2, r3}
  People = {p1, p2}
  Jobs = {j1}
  PoolSize = 2
  MaxCrashes = 1
  None = None
INVARIANTS TypeOK NoConnectionLeak AppliesOnce DocumentsKept
PROPERTIES EveryRequestEnds
\* Every request ends: the system may stop.
CHECK_DEADLOCK FALSE
