SPECIFICATION Spec
CONSTANTS
  Requests = {r1}
  Listing <- TwoPages
  PageLimit = 3
  Operations <- RunOperations
  RunUpdates = {}
  CheckUpdates = {}
  Faults = {"crash", "employee"}
  MaxPaychecks = 5
INVARIANTS TypeOK PaychecksAsListed SummaryCountsComplete ListedArePaid
\* A deleted run accepts no request any more: the system may stop.
CHECK_DEADLOCK FALSE
