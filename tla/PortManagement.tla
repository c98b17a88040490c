--------------------------- MODULE PortManagement ---------------------------
(***************************************************************************)
(* The port bookkeeping of the deployment service, in the memory of one    *)
(* process: allocatePortSet, releasePorts and releasePortsForTenant run    *)
(* without an await and are single steps. The backend, frontend and        *)
(* database ranges are used in lockstep, so port n stands for the n-th of  *)
(* each. What nothing in the service calls (initializeUsedPorts,           *)
(* reservePort, loadAllocations) is left out.                              *)
(***************************************************************************)
EXTENDS Integers

CONSTANTS
  Tenants,
  NumPorts     \* size of a range (100 in the code)

ASSUME PortManagementAssumption == NumPorts \in Nat

Ports  == 1..NumPorts
NoPort == 0

VARIABLES
  usedPorts,    \* ports that findAvailablePort passes over
  allocations   \* tenant |-> ports; NoPort: no entry

portService == <<usedPorts, allocations>>

PortsTypeOK ==
  /\ usedPorts \subseteq Ports
  /\ allocations \in [Tenants -> Ports \union {NoPort}]

PortsInit ==
  /\ usedPorts = {}
  /\ allocations = [t \in Tenants |-> NoPort]

\* findAvailablePort: the first port of the range that is not used.
IsAvailablePort(p) ==
  /\ p \in Ports \ usedPorts
  /\ \A q \in Ports \ usedPorts : p <= q

\* Plausible bug: the ports are handed out without being marked as used.
BugNotMarked(t, p) ==
  \/ /\ allocations[t] # NoPort /\ p = allocations[t]
     /\ UNCHANGED portService
  \/ /\ allocations[t] = NoPort /\ IsAvailablePort(p)
     /\ allocations' = [allocations EXCEPT ![t] = p]
     /\ UNCHANGED usedPorts

\* Plausible bug: three ports are marked from the first, not one of each range.
BugMarksBlock(t, p) ==
  \/ /\ allocations[t] # NoPort /\ p = allocations[t]
     /\ UNCHANGED portService
  \/ /\ allocations[t] = NoPort /\ IsAvailablePort(p)
     /\ usedPorts' = usedPorts \union (p..p + 2)
     /\ allocations' = [allocations EXCEPT ![t] = p]

\* A tenant that has an entry gets what the entry says, used or not.
AllocatePortSet(t, p) ==
  \/ /\ allocations[t] # NoPort /\ p = allocations[t]
     /\ UNCHANGED portService
  \/ /\ allocations[t] = NoPort /\ IsAvailablePort(p)
     /\ usedPorts' = usedPorts \union {p}
     /\ allocations' = [allocations EXCEPT ![t] = p]

\* findAvailablePort throws.
NoPortsFor(t) == allocations[t] = NoPort /\ Ports \subseteq usedPorts

\* The ports are free again; the tenant keeps its entry.
ReleasePorts(p) ==
  /\ usedPorts' = usedPorts \ {p}
  /\ UNCHANGED allocations

\* Plausible bug: the entry goes and its ports stay marked.
BugEntryOnly(t) ==
  /\ allocations' = [allocations EXCEPT ![t] = NoPort]
  /\ UNCHANGED usedPorts

ReleasePortsForTenant(t) ==
  /\ usedPorts' = usedPorts \ {allocations[t]}
  /\ allocations' = [allocations EXCEPT ![t] = NoPort]
=============================================================================
