SPECIFICATION Spec
CONSTANTS
  Tenants = {t1, t2}
  NumPorts = 2
  Requests = {r1, r2}
  Clients = {"retry"}
  Faults = {"step"}
  MaxPolls = 1
PROPERTY ImplementsLease
CHECK_DEADLOCK FALSE
