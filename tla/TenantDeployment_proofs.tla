----------------------- MODULE TenantDeployment_proofs -----------------------
(***************************************************************************)
(* Type correctness and the accounting of ports for every client; the      *)
(* lease and what is on the VPS when each tenant is deployed once and      *)
(* removed once it runs. All of it for every fault and any number of       *)
(* tenants, ports and requests. That a deployment finds its ports free is  *)
(* no matter of the VPS alone: it rests on the lease, which no two tenants *)
(* share, and on every command leaving the VPS with what the next one, or  *)
(* the rollback, expects to find.                                          *)
(***************************************************************************)
EXTENDS TenantDeployment, TLAPS

\* The steps of a request that leave the bookkeeping alone.
Quiet(r) ==
  \/ NoCapacity(r)
  \/ CreateComposeFile(r) \/ CreateComposeFileFails(r)
  \/ StartContainers(r)   \/ StartContainersFails(r)
  \/ KeepWaiting(r) \/ ContainersHealthy(r) \/ ContainersUnhealthy(r)
  \/ CreateSiteConfig(r)  \/ CreateSiteConfigFails(r)
  \/ ReloadNginx(r) \/ RunMigrations(r) \/ OnboardTenant(r)
  \/ UndoSite(r) \/ UndoContainers(r) \/ UndoCompose(r)
  \/ StopContainers(r) \/ DeleteComposeFile(r) \/ RemoveSiteConfig(r)

-----------------------------------------------------------------------------
(* Type correctness *)

LEMMA GotoTypeOK ==
  ASSUME TypeOK, NEW r \in Requests,
         NEW there \in Deploying \union Removing \union {"idle"}, Goto(r, there)
  PROVE  /\ pc' \in [Requests -> Deploying \union Removing \union {"idle"}]
         /\ tenant' \in [Requests -> Tenants]
         /\ ports' \in [Requests -> Ports \union {NoPort}]
         /\ polls' \in [Requests -> 0..MaxPolls]
  BY TenantDeploymentAssumption DEF TypeOK, Goto

LEMMA ReportTypeOK ==
  ASSUME TypeOK, NEW r \in Requests, NEW s \in {"none", "deployed", "failed"}, Report(r, s)
  PROVE  /\ pc' \in [Requests -> Deploying \union Removing \union {"idle"}]
         /\ tenant' \in [Requests -> Tenants]
         /\ ports' \in [Requests -> Ports \union {NoPort}]
         /\ polls' \in [Requests -> 0..MaxPolls]
         /\ standing' \in [Tenants -> {"none", "deployed", "failed"}]
  BY DEF TypeOK, Report

\* Every action keeps the types.
LEMMA NextTypeOK == TypeOK /\ [Next]_vars => TypeOK'
<1> SUFFICES ASSUME TypeOK, [Next]_vars PROVE TypeOK'
  OBVIOUS
<1> USE TenantDeploymentAssumption DEF portService, vps, Resources
<1>1. ASSUME NEW r \in Requests, NEW t \in Tenants, AddTenant(r, t) PROVE TypeOK'
  BY <1>1 DEF TypeOK, PortsTypeOK, AddTenant, Deploying
<1>2. ASSUME NEW r \in Requests, NEW t \in Tenants, RemoveTenant(r, t) PROVE TypeOK'
  BY <1>2 DEF TypeOK, PortsTypeOK, RemoveTenant, Removing
<1>3. ASSUME NEW r \in Requests, NEW p \in Ports, AllocatePorts(r, p) PROVE TypeOK'
  BY <1>3 DEF TypeOK, PortsTypeOK, AllocatePorts, AllocatePortSet, IsAvailablePort, Deploying
<1>4. ASSUME NEW r \in Requests, NoCapacity(r) PROVE TypeOK'
  BY <1>4, ReportTypeOK DEF TypeOK, PortsTypeOK, NoCapacity
<1>5. ASSUME NEW r \in Requests, CreateComposeFile(r) PROVE TypeOK'
  BY <1>5, GotoTypeOK DEF TypeOK, PortsTypeOK, CreateComposeFile, Done, Deploying, Removing
<1>6. ASSUME NEW r \in Requests, CreateComposeFileFails(r) PROVE TypeOK'
  BY <1>6, GotoTypeOK DEF TypeOK, PortsTypeOK, CreateComposeFileFails, Attempted, Deploying, Removing
<1>7. ASSUME NEW r \in Requests, StartContainers(r) PROVE TypeOK'
  BY <1>7, GotoTypeOK DEF TypeOK, PortsTypeOK, StartContainers, Done, Deploying, Removing
<1>8. ASSUME NEW r \in Requests, StartContainersFails(r) PROVE TypeOK'
  BY <1>8, GotoTypeOK DEF TypeOK, PortsTypeOK, StartContainersFails, Attempted, Deploying, Removing
<1>9. ASSUME NEW r \in Requests, ContainersHealthy(r) PROVE TypeOK'
  BY <1>9, GotoTypeOK DEF TypeOK, PortsTypeOK, ContainersHealthy, Deploying, Removing
<1>10. ASSUME NEW r \in Requests, ContainersUnhealthy(r) PROVE TypeOK'
  BY <1>10, GotoTypeOK DEF TypeOK, PortsTypeOK, ContainersUnhealthy, Deploying, Removing
<1>11. ASSUME NEW r \in Requests, CreateSiteConfig(r) PROVE TypeOK'
  BY <1>11, GotoTypeOK DEF TypeOK, PortsTypeOK, CreateSiteConfig, Done, GenerateSiteConfig, Deploying, Removing
<1>12. ASSUME NEW r \in Requests, CreateSiteConfigFails(r) PROVE TypeOK'
  BY <1>12, GotoTypeOK DEF TypeOK, PortsTypeOK, CreateSiteConfigFails, Attempted, GenerateSiteConfig, Deploying, Removing
<1>13. ASSUME NEW r \in Requests, ReloadNginx(r) PROVE TypeOK'
  BY <1>13, GotoTypeOK DEF TypeOK, PortsTypeOK, ReloadNginx, Deploying, Removing
<1>14. ASSUME NEW r \in Requests, RunMigrations(r) PROVE TypeOK'
  BY <1>14, GotoTypeOK DEF TypeOK, PortsTypeOK, RunMigrations, Deploying, Removing
<1>15. ASSUME NEW r \in Requests, OnboardTenant(r) PROVE TypeOK'
  BY <1>15, ReportTypeOK DEF TypeOK, PortsTypeOK, OnboardTenant
<1>16. ASSUME NEW r \in Requests, UndoSite(r) PROVE TypeOK'
  BY <1>16, GotoTypeOK DEF TypeOK, PortsTypeOK, UndoSite, Cleaned, Done, Deploying, Removing
<1>17. ASSUME NEW r \in Requests, UndoContainers(r) PROVE TypeOK'
  BY <1>17, GotoTypeOK DEF TypeOK, PortsTypeOK, UndoContainers, ComposeDown, Cleaned, Done, Deploying, Removing
<1>18. ASSUME NEW r \in Requests, UndoCompose(r) PROVE TypeOK'
  BY <1>18, GotoTypeOK DEF TypeOK, PortsTypeOK, UndoCompose, Cleaned, Done, Deploying, Removing
<1>19. ASSUME NEW r \in Requests, UndoPorts(r) PROVE TypeOK'
  BY <1>19, ReportTypeOK DEF TypeOK, PortsTypeOK, UndoPorts, ReleasePorts
<1>20. ASSUME NEW r \in Requests, StopContainers(r) PROVE TypeOK'
  BY <1>20, GotoTypeOK DEF TypeOK, PortsTypeOK, StopContainers, ComposeDown, Cleaned, Done, Deploying, Removing
<1>21. ASSUME NEW r \in Requests, DeleteComposeFile(r) PROVE TypeOK'
  BY <1>21, GotoTypeOK DEF TypeOK, PortsTypeOK, DeleteComposeFile, Cleaned, Done, Deploying, Removing
<1>22. ASSUME NEW r \in Requests, RemoveSiteConfig(r) PROVE TypeOK'
  BY <1>22, GotoTypeOK DEF TypeOK, PortsTypeOK, RemoveSiteConfig, Cleaned, Done, Deploying, Removing
<1>23. ASSUME NEW r \in Requests, ReleaseTenant(r) PROVE TypeOK'
  BY <1>23, ReportTypeOK DEF TypeOK, PortsTypeOK, ReleaseTenant, ReleasePortsForTenant
<1>24. ASSUME NEW r \in Requests, KeepWaiting(r) PROVE TypeOK'
  BY <1>24 DEF TypeOK, PortsTypeOK, KeepWaiting
<1>25. CASE Restart
  BY <1>25 DEF TypeOK, PortsTypeOK, Restart
<1>26. CASE UNCHANGED vars
  BY <1>26 DEF TypeOK, PortsTypeOK, vars
<1>27. QED
  BY <1>1, <1>2, <1>3, <1>4, <1>5, <1>6, <1>7, <1>8, <1>9, <1>10, <1>11, <1>12, <1>13, <1>14, <1>15, <1>16, <1>17, <1>18, <1>19, <1>20, <1>21, <1>22, <1>23, <1>24, <1>25,
     <1>26
  DEF Next, Deploy, Rollback, Remove

\* Type correctness, for every client and every fault.
THEOREM TypeCorrect == Spec => []TypeOK
<1>1. Init => TypeOK
  BY TenantDeploymentAssumption DEF Init, TypeOK, PortsInit, PortsTypeOK
<1>2. QED
  BY <1>1, NextTypeOK, PTL DEF Spec

-----------------------------------------------------------------------------
(* Accounting *)

\* Every way in and out of the bookkeeping keeps the account.
THEOREM UsedPortsAreAccountedForHolds == Spec => []UsedPortsAreAccountedFor
<1> DEFINE Accounted == TypeOK /\ UsedPortsAreAccountedFor
<1>1. Init => UsedPortsAreAccountedFor
  BY DEF Init, PortsInit, UsedPortsAreAccountedFor
<1>2. Accounted /\ [Next]_vars => UsedPortsAreAccountedFor'
  <2> SUFFICES ASSUME Accounted, [Next]_vars PROVE UsedPortsAreAccountedFor'
    OBVIOUS
  <2>1. ASSUME NEW t \in Tenants, NEW p \in Ports, AllocatePortSet(t, p)
        PROVE  UsedPortsAreAccountedFor'
    <3>1. CASE UNCHANGED portService
      BY <3>1 DEF portService, UsedPortsAreAccountedFor
    <3>2. CASE /\ allocations[t] = NoPort
               /\ usedPorts' = usedPorts \union {p}
               /\ allocations' = [allocations EXCEPT ![t] = p]
      <4>1. NoPort \notin usedPorts /\ allocations \in [Tenants -> Ports \union {NoPort}]
        BY DEF TypeOK, PortsTypeOK, NoPort, Ports
      <4>2. allocations'[t] = p /\ \A u \in Tenants \ {t} : allocations'[u] = allocations[u]
        BY <3>2, <4>1
      <4>3. QED
        BY <3>2, <4>1, <4>2 DEF UsedPortsAreAccountedFor
    <3>3. QED
      BY <2>1, <3>1, <3>2 DEF AllocatePortSet
  <2>2. ASSUME NEW p \in Ports \union {NoPort}, ReleasePorts(p) PROVE UsedPortsAreAccountedFor'
    BY <2>2 DEF ReleasePorts, UsedPortsAreAccountedFor
  <2>3. ASSUME NEW t \in Tenants, ReleasePortsForTenant(t) PROVE UsedPortsAreAccountedFor'
    BY <2>3 DEF ReleasePortsForTenant, UsedPortsAreAccountedFor, TypeOK, PortsTypeOK
  <2>4. CASE Restart
    BY <2>4 DEF Restart, UsedPortsAreAccountedFor
  <2>5. CASE UNCHANGED portService
    BY <2>5 DEF portService, UsedPortsAreAccountedFor
  <2>6. \/ \E t \in Tenants, p \in Ports : AllocatePortSet(t, p)
        \/ \E p \in Ports \union {NoPort} : ReleasePorts(p)
        \/ \E t \in Tenants : ReleasePortsForTenant(t)
        \/ Restart
        \/ UNCHANGED portService
    <3> USE DEF TypeOK
    <3>1. CASE \E r \in Requests, t \in Tenants : AddTenant(r, t) \/ RemoveTenant(r, t)
      BY <3>1 DEF AddTenant, RemoveTenant
    <3>2. CASE \E r \in Requests, p \in Ports : AllocatePorts(r, p)
      BY <3>2 DEF AllocatePorts
    <3>3. CASE \E r \in Requests : UndoPorts(r)
      BY <3>3 DEF UndoPorts
    <3>4. CASE \E r \in Requests : ReleaseTenant(r)
      BY <3>4 DEF ReleaseTenant
    <3>5. ASSUME NEW r \in Requests, Quiet(r) PROVE UNCHANGED portService
      BY <3>5 DEF Quiet, NoCapacity, CreateComposeFile, CreateComposeFileFails, StartContainers,
                  StartContainersFails, KeepWaiting, ContainersHealthy, ContainersUnhealthy, CreateSiteConfig,
                  CreateSiteConfigFails, ReloadNginx, RunMigrations, OnboardTenant, UndoSite,
                  UndoContainers, UndoCompose, StopContainers, DeleteComposeFile, RemoveSiteConfig
    <3>6. QED
      BY <3>1, <3>2, <3>3, <3>4, <3>5 DEF Next, Deploy, Rollback, Remove, Quiet, vars, portService
  <2>7. QED
    BY <2>1, <2>2, <2>3, <2>4, <2>5, <2>6
<1>3. QED
  BY <1>1, <1>2, TypeCorrect, PTL DEF Spec

-----------------------------------------------------------------------------
(* The lease *)

OneRequestPerTenant ==
  \A r, s \in Requests :
    pc[r] # "idle" /\ pc[s] # "idle" /\ tenant[r] = tenant[s] => r = s

LeasesAreMarked ==
  \A t \in Tenants : leased[t] # NoPort => leased[t] \in usedPorts /\ allocations[t] = leased[t]

LeasesAreDistinct ==
  \A t, u \in Tenants : leased[t] # NoPort /\ leased[t] = leased[u] => t = u

\* A deployment that has yet to allocate finds no entry of its tenant.
FreshIsUnlisted ==
  \A r \in Requests : pc[r] = "capacity" => allocations[tenant[r]] = NoPort

\* One that has allocated holds the lease of the ports it works with.
WorksWithItsLease ==
  \A r \in Requests : pc[r] \in Deploying \ {"capacity"} =>
    ports[r] # NoPort /\ leased[tenant[r]] = ports[r]

\* What a removal gives back is leased to its tenant.
RemovesItsLease ==
  \A r \in Requests : pc[r] \in Removing => allocations[tenant[r]] = leased[tenant[r]]

\* What the standing of a tenant says when nothing runs for it.
StandingIsTrue ==
  \A t \in Tenants : ~InFlight(t) =>
    /\ standing[t] = "none" => allocations[t] = NoPort
    /\ standing[t] = "deployed" => allocations[t] = leased[t]

LeaseInv ==
  /\ TypeOK
  /\ OneRequestPerTenant
  /\ LeasesAreMarked
  /\ LeasesAreDistinct
  /\ FreshIsUnlisted
  /\ WorksWithItsLease
  /\ RemovesItsLease
  /\ StandingIsTrue

\* A request that goes on to its next command disturbs nobody.
LEMMA MovesOn ==
  ASSUME LeaseInv, TypeOK', NEW r \in Requests, NEW there,
         pc' = [pc EXCEPT ![r] = there], UNCHANGED <<tenant, ports>>,
         \/ pc[r] \in Deploying \ {"capacity"} /\ there \in Deploying \ {"capacity"}
         \/ pc[r] \in Removing /\ there \in Removing,
         UNCHANGED <<portService, standing, leased>>
  PROVE  LeaseInv'
<1> USE DEF LeaseInv, TypeOK, PortsTypeOK, portService
<1>1. \A s \in Requests \ {r} : pc'[s] = pc[s]
  OBVIOUS
<1>2. pc'[r] = there /\ there # "idle" /\ pc[r] # "idle"
  BY DEF Deploying, Removing
<1>3. \A s \in Requests : pc'[s] = "idle" <=> pc[s] = "idle"
  BY <1>1, <1>2
<1>4. \A t \in Tenants : InFlight(t)' <=> InFlight(t)
  BY <1>3 DEF InFlight
<1>5. OneRequestPerTenant'
  BY <1>3 DEF OneRequestPerTenant
<1>6. LeasesAreMarked' /\ LeasesAreDistinct'
  BY DEF LeasesAreMarked, LeasesAreDistinct
<1>7. FreshIsUnlisted'
  BY <1>1, <1>2 DEF FreshIsUnlisted, Deploying, Removing
<1>8. WorksWithItsLease'
  BY <1>1, <1>2 DEF WorksWithItsLease, Deploying, Removing
<1>9. RemovesItsLease'
  BY <1>1, <1>2 DEF RemovesItsLease, Deploying, Removing
<1>10. StandingIsTrue'
  BY <1>4 DEF StandingIsTrue
<1>11. QED
  BY <1>5, <1>6, <1>7, <1>8, <1>9, <1>10

\* A request that ends speaks for its tenant, which has no other.
LEMMA Ends ==
  ASSUME LeaseInv, TypeOK', NEW r \in Requests, NEW s, Report(r, s), pc[r] # "idle",
         UNCHANGED <<portService, leased>>,
         s # "none", s = "deployed" => allocations[tenant[r]] = leased[tenant[r]]
  PROVE  LeaseInv'
<1> USE DEF LeaseInv, TypeOK, PortsTypeOK, Report, portService
<1>1. \A q \in Requests \ {r} : pc'[q] = pc[q] /\ ports'[q] = ports[q]
  OBVIOUS
<1>2. pc'[r] = "idle"
  OBVIOUS
<1>3. \A t \in Tenants \ {tenant[r]} : standing'[t] = standing[t] /\ (InFlight(t)' <=> InFlight(t))
  BY <1>1, <1>2 DEF InFlight
<1>4. OneRequestPerTenant'
  BY <1>1, <1>2 DEF OneRequestPerTenant
<1>5. LeasesAreMarked' /\ LeasesAreDistinct'
  BY DEF LeasesAreMarked, LeasesAreDistinct
<1>6. FreshIsUnlisted'
  BY <1>1, <1>2 DEF FreshIsUnlisted
<1>7. WorksWithItsLease'
  BY <1>1, <1>2 DEF WorksWithItsLease, Deploying
<1>8. RemovesItsLease'
  BY <1>1, <1>2 DEF RemovesItsLease, Removing
<1>9. StandingIsTrue'
  BY <1>3 DEF StandingIsTrue
<1>10. QED
  BY <1>4, <1>5, <1>6, <1>7, <1>8, <1>9

\* A request starts for a tenant that has none.
LEMMA Starts ==
  ASSUME LeaseInv, TypeOK', NEW r \in Requests, NEW t \in Tenants, NEW there,
         pc[r] = "idle", ~InFlight(t),
         pc' = [pc EXCEPT ![r] = there], tenant' = [tenant EXCEPT ![r] = t],
         UNCHANGED <<portService, ports, standing, leased>>,
         \/ there = "capacity" /\ allocations[t] = NoPort
         \/ there = "stop" /\ allocations[t] = leased[t]
  PROVE  LeaseInv'
<1> USE DEF LeaseInv, TypeOK, PortsTypeOK, portService
<1>1. \A q \in Requests \ {r} : pc'[q] = pc[q] /\ tenant'[q] = tenant[q]
  OBVIOUS
<1>2. pc'[r] = there /\ tenant'[r] = t /\ there # "idle"
  OBVIOUS
<1>3. \A q \in Requests : pc[q] # "idle" => tenant[q] # t
  BY DEF InFlight
<1>4. OneRequestPerTenant'
  BY <1>1, <1>2, <1>3 DEF OneRequestPerTenant
<1>5. LeasesAreMarked' /\ LeasesAreDistinct'
  BY DEF LeasesAreMarked, LeasesAreDistinct
<1>6. FreshIsUnlisted'
  BY <1>1, <1>2 DEF FreshIsUnlisted
<1>7. WorksWithItsLease'
  BY <1>1, <1>2 DEF WorksWithItsLease, Deploying
<1>8. RemovesItsLease'
  BY <1>1, <1>2 DEF RemovesItsLease, Removing
<1>9. \A u \in Tenants : InFlight(u) => InFlight(u)'
  BY <1>1 DEF InFlight
<1>10. StandingIsTrue'
  BY <1>9 DEF StandingIsTrue
<1>11. QED
  BY <1>4, <1>5, <1>6, <1>7, <1>8, <1>10

\* Ports that are not marked are leased to nobody.
LEMMA Allocates ==
  ASSUME LeaseInv, TypeOK', NEW r \in Requests, NEW p \in Ports, AllocatePorts(r, p)
  PROVE  LeaseInv' /\ Lease!Acquire(tenant[r], p)
<1> USE DEF LeaseInv, TypeOK, PortsTypeOK, AllocatePorts
<1> DEFINE t == tenant[r]
<1>1. pc[r] = "capacity" /\ pc'[r] = "compose" /\ ports'[r] = p /\ tenant' = tenant
  OBVIOUS
<1>2. \A q \in Requests \ {r} : pc'[q] = pc[q] /\ ports'[q] = ports[q]
  OBVIOUS
<1>3. allocations[t] = NoPort /\ leased[t] = NoPort
  BY <1>1 DEF FreshIsUnlisted, LeasesAreMarked
<1>4. /\ p \notin usedPorts
      /\ usedPorts' = usedPorts \union {p}
      /\ allocations' = [allocations EXCEPT ![t] = p]
  BY <1>3 DEF AllocatePortSet, IsAvailablePort
<1>5. p # NoPort /\ \A u \in Tenants : leased[u] # p
  BY <1>4 DEF LeasesAreMarked, Ports, NoPort
<1>6. /\ leased'[t] = p /\ allocations'[t] = p
      /\ \A u \in Tenants \ {t} : leased'[u] = leased[u] /\ allocations'[u] = allocations[u]
  BY <1>4
<1>7. \A q \in Requests \ {r} : pc[q] # "idle" => tenant[q] # t
  BY <1>1 DEF OneRequestPerTenant
<1>8. \A u \in Tenants : InFlight(u)' <=> InFlight(u)
  BY <1>1, <1>2 DEF InFlight
<1>9. OneRequestPerTenant'
  BY <1>1, <1>2 DEF OneRequestPerTenant
<1>10. LeasesAreMarked'
  BY <1>4, <1>6 DEF LeasesAreMarked
<1>11. LeasesAreDistinct'
  BY <1>5, <1>6 DEF LeasesAreDistinct
<1>12. FreshIsUnlisted'
  BY <1>1, <1>2, <1>6, <1>7 DEF FreshIsUnlisted
<1>13. WorksWithItsLease'
  BY <1>1, <1>2, <1>5, <1>6, <1>7 DEF WorksWithItsLease, Deploying
<1>14. RemovesItsLease'
  BY <1>1, <1>2, <1>5, <1>6 DEF RemovesItsLease, Removing
<1>15. t \in Tenants /\ InFlight(t)
  BY <1>1 DEF InFlight
<1>16. StandingIsTrue'
  BY <1>6, <1>8, <1>15 DEF StandingIsTrue
<1>17. Lease!Acquire(tenant[r], p)
  BY <1>3, <1>5 DEF Lease!Acquire
<1>18. QED
  BY <1>9, <1>10, <1>11, <1>12, <1>13, <1>14, <1>16, <1>17

\* The ports given back, by a rollback or a removal, are those of the lease, so
\* nobody else's are freed.
LEMMA GivesBack ==
  ASSUME LeaseInv, TypeOK', NEW r \in Requests, UndoPorts(r) \/ ReleaseTenant(r)
  PROVE  LeaseInv' /\ (Lease!Release(tenant[r]) \/ leased' = leased)
<1> USE DEF LeaseInv, TypeOK, PortsTypeOK
<1> DEFINE t == tenant[r]
<1>1. /\ pc[r] # "idle" /\ pc' = [pc EXCEPT ![r] = "idle"]
      /\ tenant' = tenant
      /\ ports' = [ports EXCEPT ![r] = NoPort]
      /\ leased' = [leased EXCEPT ![t] = NoPort]
  BY DEF UndoPorts, ReleaseTenant, Report
<1>2. usedPorts' = usedPorts \ {leased[t]}
  <2>1. CASE UndoPorts(r)
    BY <2>1 DEF UndoPorts, ReleasePorts, WorksWithItsLease, Deploying
  <2>2. CASE ReleaseTenant(r)
    BY <2>2 DEF ReleaseTenant, ReleasePortsForTenant, RemovesItsLease, Removing
  <2>3. QED
    BY <2>1, <2>2
<1>3. \A u \in Tenants \ {t} : allocations'[u] = allocations[u] /\ standing'[u] = standing[u]
                              /\ leased'[u] = leased[u]
  BY DEF UndoPorts, ReleaseTenant, Report, ReleasePorts, ReleasePortsForTenant
<1>4. /\ standing'[t] # "deployed"
      /\ standing'[t] = "none" => allocations'[t] = NoPort
  <2>1. CASE UndoPorts(r)
    BY <2>1 DEF UndoPorts, Report
  <2>2. CASE ReleaseTenant(r)
    BY <2>2 DEF ReleaseTenant, ReleasePortsForTenant, Report
  <2>3. QED
    BY <2>1, <2>2
<1>5. /\ pc'[r] = "idle" /\ leased'[t] = NoPort
      /\ \A q \in Requests \ {r} : pc'[q] = pc[q] /\ ports'[q] = ports[q]
  BY <1>1
<1>6. \A q \in Requests \ {r} : pc[q] # "idle" => tenant[q] # t
  BY <1>1 DEF OneRequestPerTenant
<1>7. OneRequestPerTenant'
  BY <1>1, <1>5 DEF OneRequestPerTenant
<1>8. LeasesAreMarked'
  BY <1>2, <1>3, <1>5 DEF LeasesAreMarked, LeasesAreDistinct
<1>9. LeasesAreDistinct'
  <2> SUFFICES ASSUME NEW u \in Tenants, NEW v \in Tenants, leased'[u] # NoPort,
                      leased'[u] = leased'[v]
               PROVE  u = v
    BY DEF LeasesAreDistinct
  <2>1. u # t /\ v # t
    BY <1>5
  <2> QED
    BY <1>3, <2>1 DEF LeasesAreDistinct
<1>10. FreshIsUnlisted'
  BY <1>1, <1>3, <1>5, <1>6 DEF FreshIsUnlisted
<1>11. WorksWithItsLease'
  BY <1>1, <1>3, <1>5, <1>6 DEF WorksWithItsLease, Deploying
<1>12. RemovesItsLease'
  BY <1>1, <1>3, <1>5, <1>6 DEF RemovesItsLease, Removing
<1>13. \A u \in Tenants \ {t} : InFlight(u)' <=> InFlight(u)
  BY <1>1, <1>5 DEF InFlight
<1>14. StandingIsTrue'
  BY <1>3, <1>4, <1>13 DEF StandingIsTrue
<1>15. Lease!Release(tenant[r]) \/ leased' = leased
  BY <1>1 DEF Lease!Release
<1>16. QED
  BY <1>7, <1>8, <1>9, <1>10, <1>11, <1>12, <1>14, <1>15

\* A service that starts afresh has leased nothing.
LEMMA LeaseInit == Init => LeaseInv /\ Lease!Init
<1> SUFFICES ASSUME Init PROVE LeaseInv /\ Lease!Init
  OBVIOUS
<1>1. TypeOK
  BY TenantDeploymentAssumption DEF Init, TypeOK, PortsInit, PortsTypeOK
<1>2. /\ \A r \in Requests : pc[r] = "idle"
      /\ \A t \in Tenants : leased[t] = NoPort /\ allocations[t] = NoPort /\ standing[t] = "none"
  BY DEF Init, PortsInit
<1>3. LeaseInv
  BY <1>1, <1>2 DEF LeaseInv, OneRequestPerTenant, LeasesAreMarked, LeasesAreDistinct,
     FreshIsUnlisted, WorksWithItsLease, RemovesItsLease, StandingIsTrue, Deploying, Removing
<1>4. QED
  BY <1>3 DEF Init, Lease!Init

\* A service that is restarted has leased nothing either.
LEMMA Forgets ==
  ASSUME LeaseInv, TypeOK', Restart
  PROVE  LeaseInv' /\ Lease!Forget
<1>1. /\ \A r \in Requests : pc'[r] = "idle"
      /\ \A t \in Tenants : leased'[t] = NoPort /\ allocations'[t] = NoPort
  BY DEF Restart
<1>2. LeaseInv'
  BY <1>1 DEF LeaseInv, OneRequestPerTenant, LeasesAreMarked, LeasesAreDistinct,
     FreshIsUnlisted, WorksWithItsLease, RemovesItsLease, StandingIsTrue, Deploying, Removing
<1>3. QED
  BY <1>2 DEF Restart, Lease!Forget

\* Every step keeps the lease, as long as a tenant is deployed once and removed
\* only once it runs.
LEMMA LeaseStep ==
  ASSUME Clients = {}
  PROVE  LeaseInv /\ [Next]_vars => LeaseInv' /\ [Lease!Next]_leased
<1> SUFFICES ASSUME LeaseInv, [Next]_vars PROVE LeaseInv' /\ [Lease!Next]_leased
  OBVIOUS
<1>1. TypeOK /\ TypeOK'
  BY NextTypeOK DEF LeaseInv
<1>2. ASSUME NEW r \in Requests, NEW t \in Tenants, AddTenant(r, t)
      PROVE  LeaseInv' /\ leased' = leased
  <2>1. allocations[t] = NoPort
    BY <1>2 DEF AddTenant, LeaseInv, StandingIsTrue
  <2>2. QED
    BY <1>1, <1>2, <2>1, Starts DEF AddTenant, portService
<1>3. ASSUME NEW r \in Requests, NEW t \in Tenants, RemoveTenant(r, t)
      PROVE  LeaseInv' /\ leased' = leased
  <2>1. allocations[t] = leased[t]
    BY <1>3 DEF RemoveTenant, LeaseInv, StandingIsTrue
  <2>2. QED
    BY <1>1, <1>3, <2>1, Starts DEF RemoveTenant, portService
<1>4. ASSUME NEW r \in Requests, NEW p \in Ports, AllocatePorts(r, p)
      PROVE  LeaseInv' /\ Lease!Next
  <2>1. tenant[r] \in Tenants
    BY <1>1 DEF TypeOK
  <2>2. QED
    BY <1>1, <1>4, <2>1, Allocates DEF Lease!Next
<1>5. ASSUME NEW r \in Requests, UndoPorts(r) \/ ReleaseTenant(r)
      PROVE  LeaseInv' /\ [Lease!Next]_leased
  <2>1. tenant[r] \in Tenants
    BY <1>1 DEF TypeOK
  <2>2. QED
    BY <1>1, <1>5, <2>1, GivesBack DEF Lease!Next
<1>6. ASSUME NEW r \in Requests, NoCapacity(r) PROVE LeaseInv' /\ leased' = leased
  BY <1>1, <1>6, Ends DEF NoCapacity, portService
<1>7. ASSUME NEW r \in Requests, OnboardTenant(r) PROVE LeaseInv' /\ leased' = leased
  <2>1. /\ pc[r] = "onboard" /\ tenant[r] \in Tenants
        /\ leased[tenant[r]] = ports[r] /\ ports[r] # NoPort
    BY <1>7 DEF OnboardTenant, LeaseInv, TypeOK, WorksWithItsLease, Deploying
  <2>2. allocations[tenant[r]] = leased[tenant[r]]
    BY <2>1 DEF LeaseInv, LeasesAreMarked
  <2>3. QED
    BY <1>1, <1>7, <2>1, <2>2, Ends DEF OnboardTenant
<1>8. ASSUME NEW r \in Requests, Quiet(r), ~NoCapacity(r), ~OnboardTenant(r)
      PROVE  LeaseInv' /\ leased' = leased
  <2>1. UNCHANGED <<portService, standing, leased>>
    BY <1>8 DEF Quiet, CreateComposeFile, CreateComposeFileFails, StartContainers,
       StartContainersFails, KeepWaiting, ContainersHealthy, ContainersUnhealthy, CreateSiteConfig,
       CreateSiteConfigFails, ReloadNginx, RunMigrations, UndoSite, UndoContainers, UndoCompose,
       StopContainers, DeleteComposeFile, RemoveSiteConfig
  <2>2. \/ KeepWaiting(r)
        \/ /\ pc[r] \in Deploying \ {"capacity"}
           /\ \E there \in Deploying \ {"capacity"} : Goto(r, there)
        \/ /\ pc[r] \in Removing
           /\ \E there \in Removing : Goto(r, there)
    BY <1>8 DEF Quiet, CreateComposeFile, CreateComposeFileFails, StartContainers,
       StartContainersFails, ContainersHealthy, ContainersUnhealthy, CreateSiteConfig,
       CreateSiteConfigFails, ReloadNginx, RunMigrations, UndoSite, UndoContainers, UndoCompose,
       StopContainers, DeleteComposeFile, RemoveSiteConfig, Deploying, Removing
  <2>3. CASE KeepWaiting(r)
    <3>1. pc[r] = "health" /\ UNCHANGED <<pc, tenant, ports>>
      BY <2>3 DEF KeepWaiting
    <3>2. pc' = [pc EXCEPT ![r] = "health"] /\ "health" \in Deploying \ {"capacity"}
      BY <3>1 DEF LeaseInv, TypeOK, Deploying
    <3> QED
      BY <1>1, <2>1, <3>1, <3>2, MovesOn
  <2>4. QED
    BY <1>1, <2>1, <2>2, <2>3, MovesOn DEF Goto
<1>9. CASE UNCHANGED vars
  BY <1>9 DEF vars, LeaseInv, TypeOK, PortsTypeOK, OneRequestPerTenant, LeasesAreMarked,
     LeasesAreDistinct, FreshIsUnlisted, WorksWithItsLease, RemovesItsLease, StandingIsTrue,
     InFlight
<1>10. CASE Restart
  BY <1>1, <1>10, Forgets DEF Lease!Next
<1>11. QED
  BY <1>2, <1>3, <1>4, <1>5, <1>6, <1>7, <1>8, <1>9, <1>10
     DEF Next, Deploy, Rollback, Remove, Quiet

\* The ports of a tenant are its own until given back, when a tenant is deployed
\* once and removed only once it runs; a restart forgets them.
THEOREM LeaseHolds ==
  ASSUME Clients = {}
  PROVE  Spec => ImplementsLease
<1>1. Init => LeaseInv /\ Lease!Init
  BY LeaseInit
<1>2. LeaseInv /\ [Next]_vars => LeaseInv' /\ [Lease!Next]_leased
  BY LeaseStep
<1>3. QED
  BY <1>1, <1>2, PTL DEF Spec, ImplementsLease, Lease!Spec

-----------------------------------------------------------------------------
(* The VPS *)

\* The commands before which the compose file, the containers and the site of
\* the tenant are there.
HasCompose == {"start", "health", "site", "reload", "migrate", "onboard", "undoSite",
               "undoContainers", "undoCompose", "stop", "files"}
HasContainers == {"health", "site", "reload", "migrate", "onboard", "undoSite",
                  "undoContainers", "stop"}
HasSite == {"reload", "migrate", "onboard", "undoSite", "stop", "files", "unsite"}

\* There is what a deployment of the ports l has brought about by command x, or
\* a removal has left, except for what the service has lost track of, o; and
\* where there are containers to be stopped there is the file to do it with.
Placed(c, n, s, l, o, x) ==
  /\ "compose" \in o \/ c = (IF x \in HasCompose THEN l ELSE NoPort)
  /\ "containers" \in o \/ n = (IF x \in HasContainers THEN l ELSE NoPort)
  /\ "site" \in o \/ s = (IF x \in HasSite THEN SSLPending ELSE NoPort)
  /\ x \in HasContainers => c # NoPort \/ "containers" \in o
  /\ x = "start" => c = l

\* When nothing runs for a tenant, it has everything or nothing.
Rest(s) == IF s = "deployed" THEN "onboard" ELSE "capacity"

VpsInv ==
  /\ \A r \in Requests : pc[r] # "idle" =>
       Placed(compose[tenant[r]], containers[tenant[r]], site[tenant[r]], leased[tenant[r]],
              lost[tenant[r]], pc[r])
  /\ \A t \in Tenants : ~InFlight(t) =>
       Placed(compose[t], containers[t], site[t], leased[t], lost[t], Rest(standing[t]))

\* A step for tenant t, by the one request that runs for it, shows on the VPS
\* only there.
LEMMA TouchesOneTenant ==
  ASSUME VpsInv, NEW r \in Requests, NEW t \in Tenants,
         pc[r] # "idle" => tenant[r] = t,
         \A q \in Requests \ {r} : pc[q] # "idle" => tenant[q] # t,
         \A q \in Requests \ {r} : pc'[q] = pc[q] /\ tenant'[q] = tenant[q],
         tenant'[r] = t,
         \A u \in Tenants \ {t} :
            /\ compose'[u] = compose[u] /\ containers'[u] = containers[u]
            /\ site'[u] = site[u] /\ lost'[u] = lost[u]
            /\ leased'[u] = leased[u] /\ standing'[u] = standing[u],
         Placed(compose'[t], containers'[t], site'[t], leased'[t], lost'[t],
                IF pc'[r] = "idle" THEN Rest(standing'[t]) ELSE pc'[r]),
         tenant \in [Requests -> Tenants]
  PROVE  VpsInv'
<1>1. ASSUME NEW q \in Requests, pc'[q] # "idle"
      PROVE  Placed(compose'[tenant'[q]], containers'[tenant'[q]], site'[tenant'[q]],
                    leased'[tenant'[q]], lost'[tenant'[q]], pc'[q])
  <2>1. CASE q = r
    BY <1>1, <2>1
  <2>2. CASE q # r
    <3>1. tenant'[q] = tenant[q] /\ pc'[q] = pc[q] /\ tenant[q] \in Tenants \ {t}
      BY <1>1, <2>2
    <3>2. Placed(compose[tenant[q]], containers[tenant[q]], site[tenant[q]], leased[tenant[q]],
                 lost[tenant[q]], pc[q])
      BY <1>1, <3>1 DEF VpsInv
    <3> QED
      BY <3>1, <3>2
  <2> QED
    BY <2>1, <2>2
<1>2. ASSUME NEW u \in Tenants, ~InFlight(u)'
      PROVE  Placed(compose'[u], containers'[u], site'[u], leased'[u], lost'[u], Rest(standing'[u]))
  <2>1. CASE u = t
    <3>1. pc'[r] = "idle"
      BY <1>2, <2>1 DEF InFlight
    <3> QED
      BY <2>1, <3>1
  <2>2. CASE u # t
    <3>1. ~InFlight(u)
      BY <1>2, <2>2 DEF InFlight
    <3>2. Placed(compose[u], containers[u], site[u], leased[u], lost[u], Rest(standing[u]))
      BY <3>1 DEF VpsInv
    <3> QED
      BY <2>2, <3>2
  <2> QED
    BY <2>1, <2>2
<1> QED
  BY <1>1, <1>2 DEF VpsInv, Rest

\* A command that goes on to the next.
LEMMA CommandIsPlaced ==
  ASSUME LeaseInv, VpsInv, NEW r \in Requests, pc[r] # "idle", NEW x, x # "idle",
         pc' = [pc EXCEPT ![r] = x], UNCHANGED <<tenant, standing, leased>>,
         \A u \in Tenants \ {tenant[r]} :
            /\ compose'[u] = compose[u] /\ containers'[u] = containers[u]
            /\ site'[u] = site[u] /\ lost'[u] = lost[u],
         Placed(compose'[tenant[r]], containers'[tenant[r]], site'[tenant[r]], leased[tenant[r]],
                lost'[tenant[r]], x)
  PROVE  VpsInv'
<1>1. tenant \in [Requests -> Tenants] /\ pc \in [Requests -> Deploying \union Removing \union {"idle"}]
  BY DEF LeaseInv, TypeOK
<1>2. pc' = [pc EXCEPT ![r] = x] /\ tenant' = tenant
  OBVIOUS
<1>3. \A q \in Requests \ {r} : pc[q] # "idle" => tenant[q] # tenant[r]
  BY DEF LeaseInv, OneRequestPerTenant
<1>4. tenant[r] \in Tenants
  BY <1>1
<1>5. pc'[r] = x /\ \A q \in Requests \ {r} : pc'[q] = pc[q]
  BY <1>1, <1>2
<1> QED
  BY <1>1, <1>2, <1>3, <1>4, <1>5, TouchesOneTenant

\* A request that ends: what is on the VPS is what the portal is told.
LEMMA EndIsPlaced ==
  ASSUME LeaseInv, VpsInv, NEW r \in Requests, pc[r] # "idle", NEW s, Report(r, s),
         UNCHANGED vps,
         leased' = leased \/ leased' = [leased EXCEPT ![tenant[r]] = NoPort],
         Placed(compose[tenant[r]], containers[tenant[r]], site[tenant[r]], leased'[tenant[r]],
                lost[tenant[r]], Rest(s))
  PROVE  VpsInv'
<1> DEFINE t == tenant[r]
<1>1. /\ tenant \in [Requests -> Tenants] /\ leased \in [Tenants -> Ports \union {NoPort}]
      /\ pc \in [Requests -> Deploying \union Removing \union {"idle"}]
      /\ standing \in [Tenants -> {"none", "deployed", "failed"}]
  BY DEF LeaseInv, TypeOK
<1>2. pc' = [pc EXCEPT ![r] = "idle"] /\ tenant' = tenant /\ standing' = [standing EXCEPT ![t] = s]
  BY DEF Report
<1>3. \A q \in Requests \ {r} : pc[q] # "idle" => tenant[q] # t
  BY DEF LeaseInv, OneRequestPerTenant
<1>4. t \in Tenants
  BY <1>1
<1>5. pc'[r] = "idle" /\ standing'[t] = s /\ \A q \in Requests \ {r} : pc'[q] = pc[q]
  BY <1>1, <1>2, <1>4
<1>6. \A u \in Tenants \ {t} : leased'[u] = leased[u] /\ standing'[u] = standing[u]
  BY <1>1, <1>2
<1>7. compose' = compose /\ containers' = containers /\ site' = site /\ lost' = lost
  BY DEF vps
<1> HIDE DEF t
<1>8. Placed(compose'[t], containers'[t], site'[t], leased'[t], lost'[t], Rest(standing'[t]))
  BY <1>5, <1>7 DEF t
<1> QED
  BY <1>1, <1>2, <1>3, <1>4, <1>5, <1>6, <1>7, <1>8, TouchesOneTenant DEF t

\* A request that starts finds the VPS as the portal was told.
LEMMA StartIsPlaced ==
  ASSUME LeaseInv, VpsInv, NEW r \in Requests, NEW t \in Tenants, NEW x,
         pc[r] = "idle", ~InFlight(t),
         pc' = [pc EXCEPT ![r] = x], tenant' = [tenant EXCEPT ![r] = t],
         UNCHANGED <<vps, standing, leased>>,
         \/ x = "capacity" /\ standing[t] # "deployed"
         \/ x = "stop" /\ standing[t] = "deployed"
  PROVE  VpsInv'
<1>1. tenant \in [Requests -> Tenants] /\ pc \in [Requests -> Deploying \union Removing \union {"idle"}]
  BY DEF LeaseInv, TypeOK
<1>2. \A q \in Requests \ {r} : pc[q] # "idle" => tenant[q] # t
  BY DEF InFlight
<1>3. /\ pc'[r] = x /\ x # "idle" /\ tenant'[r] = t
      /\ \A q \in Requests \ {r} : pc'[q] = pc[q] /\ tenant'[q] = tenant[q]
  BY <1>1
<1>4. compose' = compose /\ containers' = containers /\ site' = site /\ lost' = lost
  BY DEF vps
<1>5. Placed(compose[t], containers[t], site[t], leased[t], lost[t], Rest(standing[t]))
  BY DEF VpsInv
<1>6. Placed(compose'[t], containers'[t], site'[t], leased'[t], lost'[t], x)
  BY <1>4, <1>5 DEF Placed, Rest, HasCompose, HasContainers, HasSite
<1> QED
  BY <1>1, <1>2, <1>3, <1>4, <1>6, TouchesOneTenant

\* When tenants are deployed once and removed once they run, every step keeps
\* the VPS in order.
LEMMA VpsStep ==
  ASSUME Clients = {}, LeaseInv, VpsInv, [Next]_vars
  PROVE  VpsInv'
<1>0. "overlap" \notin Clients /\ "retry" \notin Clients
  OBVIOUS
<1> DEFINE Now(r) == Placed(compose[tenant[r]], containers[tenant[r]], site[tenant[r]],
                            leased[tenant[r]], lost[tenant[r]], pc[r])
           Then(r, x) == Placed(compose[tenant[r]], containers[tenant[r]], site[tenant[r]],
                                leased[tenant[r]], lost[tenant[r]], x)
<1>1. ASSUME NEW r \in Requests, NEW t \in Tenants, AddTenant(r, t) PROVE VpsInv'
  <2>1. standing[t] = "none" /\ ~InFlight(t)
    BY <1>0, <1>1 DEF AddTenant
  <2> QED
    BY <1>1, <2>1, StartIsPlaced DEF AddTenant
<1>2. ASSUME NEW r \in Requests, NEW t \in Tenants, RemoveTenant(r, t) PROVE VpsInv'
  <2>1. standing[t] = "deployed" /\ ~InFlight(t)
    BY <1>0, <1>2 DEF RemoveTenant
  <2> QED
    BY <1>2, <2>1, StartIsPlaced DEF RemoveTenant
<1>3. ASSUME NEW r \in Requests, NEW p \in Ports, AllocatePorts(r, p) PROVE VpsInv'
  <2> DEFINE t == tenant[r]
  <2>1. /\ pc[r] = "capacity" /\ pc' = [pc EXCEPT ![r] = "compose"] /\ tenant' = tenant
        /\ leased' = [leased EXCEPT ![t] = p] /\ UNCHANGED <<vps, standing>>
    BY <1>3 DEF AllocatePorts
  <2>2. /\ tenant \in [Requests -> Tenants] /\ leased \in [Tenants -> Ports \union {NoPort}]
        /\ pc \in [Requests -> Deploying \union Removing \union {"idle"}]
    BY DEF LeaseInv, TypeOK
  <2>3. t \in Tenants /\ \A q \in Requests \ {r} : pc[q] # "idle" => tenant[q] # t
    BY <2>1, <2>2 DEF LeaseInv, OneRequestPerTenant
  <2>4. compose' = compose /\ containers' = containers /\ site' = site /\ lost' = lost
    BY <2>1 DEF vps
  <2>5. pc'[r] = "compose" /\ \A q \in Requests \ {r} : pc'[q] = pc[q]
    BY <2>1, <2>2
  <2>6. \A u \in Tenants \ {t} : leased'[u] = leased[u]
    BY <2>1, <2>2
  <2>7. Now(r)
    BY <2>1 DEF VpsInv
  <2>8. Placed(compose'[t], containers'[t], site'[t], leased'[t], lost'[t], "compose")
    BY <2>1, <2>4, <2>7 DEF Placed, HasCompose, HasContainers, HasSite
  <2> HIDE DEF t
  <2> QED
    BY <2>1, <2>2, <2>3, <2>4, <2>5, <2>6, <2>8, TouchesOneTenant DEF t
<1>4. ASSUME NEW r \in Requests, NoCapacity(r) PROVE VpsInv'
  <2>1. pc[r] = "capacity" /\ Now(r)
    BY <1>4 DEF NoCapacity, VpsInv
  <2>2. Then(r, Rest("failed"))
    BY <2>1 DEF Rest
  <2> QED
    BY <1>4, <2>1, <2>2, EndIsPlaced DEF NoCapacity
<1>5. ASSUME NEW r \in Requests, OnboardTenant(r) PROVE VpsInv'
  <2>1. pc[r] = "onboard" /\ Now(r)
    BY <1>5 DEF OnboardTenant, VpsInv
  <2>2. Then(r, Rest("deployed"))
    BY <2>1 DEF Rest
  <2> QED
    BY <1>5, <2>1, <2>2, EndIsPlaced DEF OnboardTenant
<1>6. ASSUME NEW r \in Requests, UndoPorts(r) \/ ReleaseTenant(r) PROVE VpsInv'
  <2>1. pc[r] \in {"undoPorts", "unport"} /\ Now(r)
    BY <1>6 DEF UndoPorts, ReleaseTenant, VpsInv
  <2>2. PICK s \in {"failed", "none"} : Report(r, s)
    BY <1>6 DEF UndoPorts, ReleaseTenant
  <2>3. leased' = [leased EXCEPT ![tenant[r]] = NoPort] /\ UNCHANGED vps
    BY <1>6 DEF UndoPorts, ReleaseTenant
  <2>4. Placed(compose[tenant[r]], containers[tenant[r]], site[tenant[r]], leased'[tenant[r]],
               lost[tenant[r]], Rest(s))
    BY <2>1, <2>2 DEF Placed, HasCompose, HasContainers, HasSite, Rest
  <2>5. pc[r] # "idle"
    BY <2>1
  <2> QED
    BY <2>2, <2>3, <2>4, <2>5, EndIsPlaced
<1>7. ASSUME NEW r \in Requests, Quiet(r), ~NoCapacity(r), ~OnboardTenant(r) PROVE VpsInv'
  <2> DEFINE t == tenant[r]
  <2>1. /\ tenant \in [Requests -> Tenants] /\ t \in Tenants
        /\ pc \in [Requests -> Deploying \union Removing \union {"idle"}]
        /\ compose \in [Tenants -> Ports \union {NoPort}]
        /\ containers \in [Tenants -> Ports \union {NoPort}]
        /\ site \in [Tenants -> Ports \union {NoPort, SSLPending}]
        /\ lost \in [Tenants -> SUBSET Resources]
    BY DEF LeaseInv, TypeOK
  <2>2. UNCHANGED <<standing, leased>>
    BY <1>7 DEF Quiet, CreateComposeFile, CreateComposeFileFails, StartContainers,
       StartContainersFails, KeepWaiting, ContainersHealthy, ContainersUnhealthy,
       CreateSiteConfig, CreateSiteConfigFails, ReloadNginx, RunMigrations, UndoSite,
       UndoContainers, UndoCompose, StopContainers, DeleteComposeFile, RemoveSiteConfig
  <2>3. pc[r] # "idle"
    BY <1>7 DEF Quiet, CreateComposeFile, CreateComposeFileFails, StartContainers,
       StartContainersFails, KeepWaiting, ContainersHealthy, ContainersUnhealthy,
       CreateSiteConfig, CreateSiteConfigFails, ReloadNginx, RunMigrations, UndoSite,
       UndoContainers, UndoCompose, StopContainers, DeleteComposeFile, RemoveSiteConfig
  <2>4. Now(r)
    BY <2>3 DEF VpsInv
  <2>5. pc[r] \in Deploying \ {"capacity"} => ports[r] = leased[t] /\ ports[r] # NoPort
    BY DEF LeaseInv, WorksWithItsLease
  <2> DEFINE Goes(x) ==
        /\ pc' = [pc EXCEPT ![r] = x] /\ tenant' = tenant
        /\ \A u \in Tenants \ {t} :
             /\ compose'[u] = compose[u] /\ containers'[u] = containers[u]
             /\ site'[u] = site[u] /\ lost'[u] = lost[u]
        /\ Placed(compose'[t], containers'[t], site'[t], leased[t], lost'[t], x)
  <2>6. ASSUME NEW x, x # "idle", Goes(x) PROVE VpsInv'
    BY <2>2, <2>3, <2>6, CommandIsPlaced
  <2> USE DEF Goto, Placed, HasCompose, HasContainers, HasSite
  <2>7. CASE CreateComposeFile(r)
    <3>1. Goes("start")
      BY <2>1, <2>4, <2>5, <2>7 DEF CreateComposeFile, Done, Deploying
    <3> QED
      BY <2>6, <3>1
  <2>8. CASE CreateComposeFileFails(r)
    <3>1. Goes("undoPorts")
      BY <2>1, <2>4, <2>8 DEF CreateComposeFileFails, Attempted
    <3> QED
      BY <2>6, <3>1
  <2>9. CASE StartContainers(r)
    <3>1. Goes("health")
      BY <2>1, <2>4, <2>9 DEF StartContainers, Done, CanBind
    <3> QED
      BY <2>6, <3>1
  <2>10. CASE StartContainersFails(r)
    <3>1. Goes("undoCompose")
      BY <2>1, <2>4, <2>10 DEF StartContainersFails, Attempted
    <3> QED
      BY <2>6, <3>1
  <2>11. CASE \/ KeepWaiting(r) \/ ContainersHealthy(r) \/ ContainersUnhealthy(r)
              \/ ReloadNginx(r) \/ RunMigrations(r)
    <3>1. /\ \/ pc[r] = "health" /\ pc' = pc
             \/ /\ pc[r] = "health"
                /\ \E x \in {"site", "undoContainers"} : pc' = [pc EXCEPT ![r] = x]
             \/ /\ pc[r] = "reload"
                /\ \E x \in {"migrate", "undoSite"} : pc' = [pc EXCEPT ![r] = x]
             \/ /\ pc[r] = "migrate"
                /\ \E x \in {"onboard", "undoSite"} : pc' = [pc EXCEPT ![r] = x]
          /\ tenant' = tenant
          /\ compose' = compose /\ containers' = containers /\ site' = site /\ lost' = lost
      BY <2>11 DEF KeepWaiting, ContainersHealthy, ContainersUnhealthy, ReloadNginx,
                   RunMigrations, vps
    <3>2. pc' = pc /\ pc[r] = "health" => pc' = [pc EXCEPT ![r] = "health"]
      BY <2>1
    <3>3. \E x \in {"health", "site", "undoContainers", "migrate", "undoSite", "onboard"} : Goes(x)
      BY <2>4, <3>1, <3>2
    <3> QED
      BY <2>6, <3>3
  <2>12. CASE CreateSiteConfig(r)
    <3>1. Goes("reload")
      BY <2>1, <2>4, <2>12 DEF CreateSiteConfig, GenerateSiteConfig, Done
    <3> QED
      BY <2>6, <3>1
  <2>13. CASE CreateSiteConfigFails(r)
    <3>1. Goes("undoContainers")
      BY <2>1, <2>4, <2>13 DEF CreateSiteConfigFails, Attempted, GenerateSiteConfig
    <3> QED
      BY <2>6, <3>1
  <2>14. CASE UndoSite(r)
    <3>1. Goes("undoContainers")
      BY <2>1, <2>4, <2>14 DEF UndoSite, Cleaned, Done
    <3> QED
      BY <2>6, <3>1
  <2>15. CASE UndoContainers(r)
    <3>1. Goes("undoCompose")
      BY <2>1, <2>4, <2>15 DEF UndoContainers, ComposeDown, Cleaned, Done
    <3> QED
      BY <2>6, <3>1
  <2>16. CASE UndoCompose(r)
    <3>1. Goes("undoPorts")
      BY <2>1, <2>4, <2>16 DEF UndoCompose, Cleaned, Done
    <3> QED
      BY <2>6, <3>1
  <2>17. CASE StopContainers(r)
    <3>1. Goes("files")
      BY <2>1, <2>4, <2>17 DEF StopContainers, ComposeDown, Cleaned, Done
    <3> QED
      BY <2>6, <3>1
  <2>18. CASE DeleteComposeFile(r)
    <3>1. Goes("unsite")
      BY <2>1, <2>4, <2>18 DEF DeleteComposeFile, Cleaned, Done
    <3> QED
      BY <2>6, <3>1
  <2>19. CASE RemoveSiteConfig(r)
    <3>1. Goes("unport")
      BY <2>1, <2>4, <2>19 DEF RemoveSiteConfig, Cleaned, Done
    <3> QED
      BY <2>6, <3>1
  <2> QED
    BY <1>7, <2>7, <2>8, <2>9, <2>10, <2>11, <2>12, <2>13, <2>14, <2>15, <2>16, <2>17, <2>18,
       <2>19 DEF Quiet
<1>8. CASE UNCHANGED vars
  BY <1>8 DEF vars, VpsInv, InFlight
<1>9. CASE Restart
  <2>1. \A r \in Requests : pc'[r] = "idle"
    BY <1>9 DEF Restart
  <2>2. /\ \A t \in Tenants : leased'[t] = NoPort /\ lost'[t] = Resources
        /\ compose' = compose /\ containers' = containers /\ site' = site
        /\ standing' = standing
    BY <1>9 DEF Restart
  <2>3. \A t \in Tenants : Placed(compose'[t], containers'[t], site'[t], leased'[t], lost'[t],
                                   Rest(standing'[t]))
    BY <2>2 DEF Placed, Rest, Resources
  <2> QED
    BY <2>1, <2>3 DEF VpsInv
<1> QED
  BY <1>1, <1>2, <1>3, <1>4, <1>5, <1>6, <1>7, <1>8, <1>9
     DEF Next, Deploy, Rollback, Remove, Quiet

LEMMA VpsHolds ==
  ASSUME Clients = {}
  PROVE  Spec => [](LeaseInv /\ VpsInv)
<1>1. Init => LeaseInv /\ VpsInv
  <2> SUFFICES ASSUME Init PROVE VpsInv
    BY LeaseInit
  <2>1. \A r \in Requests : pc[r] = "idle"
    BY DEF Init
  <2>2. \A t \in Tenants : /\ compose[t] = NoPort /\ containers[t] = NoPort /\ site[t] = NoPort
                           /\ standing[t] = "none"
    BY DEF Init
  <2> QED
    BY <2>1, <2>2 DEF VpsInv, Placed, Rest, HasCompose, HasContainers, HasSite
<1>2. LeaseInv /\ VpsInv /\ [Next]_vars => LeaseInv' /\ VpsInv'
  BY LeaseStep, VpsStep
<1> QED
  BY <1>1, <1>2, PTL DEF Spec

\* The containers of a tenant, unless lost, are on the ports leased to it.
LEMMA OnLeasedPorts ==
  ASSUME VpsInv, NEW t \in Tenants, "containers" \notin lost[t]
  PROVE  containers[t] \in {leased[t], NoPort}
<1>1. CASE InFlight(t)
  <2>1. PICK r \in Requests : tenant[r] = t /\ pc[r] # "idle"
    BY <1>1 DEF InFlight
  <2> QED
    BY <2>1 DEF VpsInv, Placed
<1>2. CASE ~InFlight(t)
  BY <1>2 DEF VpsInv, Placed
<1> QED
  BY <1>1, <1>2

\* A deployment finds its ports taken only by containers that the service has
\* lost track of, whatever deployments and removals run at once, wherever they
\* fail, and whenever the service is restarted.
THEOREM PortsAreFreeToBindHolds ==
  ASSUME Clients = {}
  PROVE  Spec => []PortsAreFreeToBind
<1>1. LeaseInv /\ VpsInv => PortsAreFreeToBind
  <2> SUFFICES ASSUME LeaseInv, VpsInv, NEW r \in Requests, NEW u \in Tenants,
                      pc[r] = "start", u # tenant[r],
                      containers[u] # NoPort, containers[u] = compose[tenant[r]],
                      "containers" \notin lost[u]
               PROVE  FALSE
    BY DEF PortsAreFreeToBind
  <2>1. tenant[r] \in Tenants /\ compose[tenant[r]] = leased[tenant[r]]
    BY DEF LeaseInv, TypeOK, VpsInv, Placed
  <2>2. containers[u] = leased[u]
    BY OnLeasedPorts
  <2> QED
    BY <2>1, <2>2 DEF LeaseInv, LeasesAreDistinct
<1> QED
  BY <1>1, VpsHolds, PTL

\* A tenant that is reported as deployed runs on the ports of its own entry and
\* has a site, also where earlier commands failed with their effect or cleanups
\* failed, unless the service was restarted.
THEOREM DeployedTenantRunsHolds ==
  ASSUME Clients = {}
  PROVE  Spec => []DeployedTenantRuns
<1>1. LeaseInv /\ VpsInv => DeployedTenantRuns
  <2> SUFFICES ASSUME LeaseInv, VpsInv, NEW t \in Tenants, standing[t] = "deployed",
                      ~InFlight(t), lost[t] = {}
               PROVE  /\ allocations[t] \in usedPorts
                      /\ compose[t] = allocations[t] /\ containers[t] = allocations[t]
                      /\ site[t] # NoPort
    BY DEF DeployedTenantRuns
  <2>1. Placed(compose[t], containers[t], site[t], leased[t], lost[t], "onboard")
    BY DEF VpsInv, Rest
  <2>2. /\ compose[t] = leased[t] /\ containers[t] = leased[t] /\ leased[t] # NoPort
        /\ site[t] = SSLPending
    BY <2>1 DEF Placed, HasCompose, HasContainers, HasSite
  <2>3. leased[t] \in usedPorts /\ allocations[t] = leased[t]
    BY <2>2 DEF LeaseInv, LeasesAreMarked
  <2> QED
    BY <2>2, <2>3 DEF SSLPending, NoPort
<1> QED
  BY <1>1, VpsHolds, PTL

\* A deployment that is reported as failed has left nothing on the VPS, at
\* whichever command it failed, but what a failed command did or did not undo.
THEOREM RollbackIsCompleteHolds ==
  ASSUME Clients = {}
  PROVE  Spec => []RollbackIsComplete
<1>1. VpsInv => RollbackIsComplete
  <2> SUFFICES ASSUME VpsInv, NEW t \in Tenants, standing[t] = "failed", ~InFlight(t)
               PROVE  OnVps(t) \subseteq lost[t]
    BY DEF RollbackIsComplete
  <2>1. Placed(compose[t], containers[t], site[t], leased[t], lost[t], "capacity")
    BY DEF VpsInv, Rest
  <2> QED
    BY <2>1 DEF Placed, OnVps, HasCompose, HasContainers, HasSite
<1> QED
  BY <1>1, VpsHolds, PTL

=============================================================================
