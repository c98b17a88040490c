SPECIFICATION Spec
CONSTANTS
  Requests = {r1, r2}
  Listing <- OneLine
  PageLimit = 1
  Operations <- AllOperations
  RunUpdates = {"draft", "cancelled"}
  CheckUpdates = {"paid"}
  Faults = {}
  MaxPaychecks = 2
INVARIANTS NeverApprovedWithoutPaychecks
PROPERTY DeletedRunIsFrozen
\* A deleted run accepts no request any more: the system may stop.
CHECK_DEADLOCK FALSE
