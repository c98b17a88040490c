\* One tenant, deployed without a fault.
SPECIFICATION Spec
CONSTANTS
  Tenants = {t1}
  NumPorts = 1
  Requests = {r1}
  Clients = {}
  Faults = {}
  MaxPolls = 1
INVARIANT DeployedTenantIsServed
CHECK_DEADLOCK FALSE
