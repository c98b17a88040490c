\* Two processes of the service; a second job competes for them.
SPECIFICATION FairSpec
CONSTANTS
  j1 = j1
  j2 = j2
  w1 = w1
  w2 = w2
  Jobs = {j1, j2}
  Workers = {w1, w2}
  MaxAttempts = 2
  MaxStalls = 1
  Faults = {"crash", "cut", "hang"}
INVARIANTS TypeOK OrdersBounded
PROPERTIES OrdersUnderLock JobsEnd
\* Every job ends: the system may stop.
CHECK_DEADLOCK FALSE
