\* A change, a read and a check of the session; everything may fail.
SPECIFICATION FairSpec
CONSTANTS
  r1 = r1
  r2 = r2
  r3 = r3
  Requests = {r1, r2, r3}
  Mutating = {r1}
  AuthCalls = {r3}
  Faults = {"error", "revoke"}
  MaxExpiries = 1
  MaxRestarts = 1
INVARIANTS TypeOK OneRefreshAtATime QueueIsServed ExecutedOnce SentTwiceAtMost OnlyCsrfCostsTheRenewal
PROPERTY EveryRequestSettles
\* Every request is answered in the end: the system may stop.
CHECK_DEADLOCK FALSE
