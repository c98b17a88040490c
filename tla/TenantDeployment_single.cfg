\* Each tenant is deployed once and removed once it runs; everything may fail.
SPECIFICATION Spec
CONSTANTS
  Tenants = {t1, t2}
  NumPorts = 2
  Requests = {r1, r2}
  Clients = {}
  Faults = {"step", "cleanup", "restart"}
  MaxPolls = 2
INVARIANTS TypeOK PortsAreFreeToBind DeployedTenantRuns RollbackIsComplete
INVARIANT UsedPortsAreAccountedFor
PROPERTIES ImplementsLease RequestsEnd
CHECK_DEADLOCK FALSE
