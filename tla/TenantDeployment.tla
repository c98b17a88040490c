-------------------------- MODULE TenantDeployment --------------------------
(***************************************************************************)
(* Deploying tenants to a shared VPS, and removing them: deployTenant with *)
(* its rollback stack and removeTenant, on top of PortManagement.          *)
(*                                                                         *)
(* addTenant answers before it deploys, so any number of deployments and   *)
(* removals run at once; each is a chain of ssh commands, and pc says      *)
(* which one it waits for. The rollback stack is the chain itself: what    *)
(* fails at one command goes back over the completed ones, newest first;   *)
(* the failed command is not among them, whatever it did before it failed. *)
(* The VPS is three facts per tenant: the ports in its compose file, the   *)
(* ports its containers hold, and where its nginx site leads. The          *)
(* certificate and the data are left out: nothing else depends on them.    *)
(***************************************************************************)
EXTENDS PortManagement

CONSTANTS
  Requests,    \* deployments and removals that may run at once
  Clients,     \* "overlap": a tenant may have two requests at once;
               \* "retry": a tenant may be deployed or removed in any standing
  Faults,      \* "step": a command of a deployment may fail;
               \* "cleanup": a command of a rollback or removal may do nothing;
               \* "restart": the service may be restarted
  MaxPolls     \* health checks until the deadline (36 in the code)

ASSUME TenantDeploymentAssumption == MaxPolls \in Nat \ {0}

VARIABLES
  pc, tenant, ports, polls,   \* per request: command, tenant, ports it was
                              \* given, health checks it has made
  compose, containers, site,  \* per tenant, on the VPS
  standing,                   \* what the portal was told of each tenant last
  leased,                     \* history: ports each tenant was given and has
                              \* neither released nor been relieved of
  lost                        \* history: what may be otherwise on the VPS than
                              \* the service knows, as a command failed or the
                              \* service was restarted

vps  == <<compose, containers, site, lost>>
vars == <<usedPorts, allocations, pc, tenant, ports, polls, compose, containers, site,
          standing, leased, lost>>

\* What an nginx site without SSL leads to: a page 'SSL configuration pending'.
SSLPending == -1

Resources == {"compose", "containers", "site"}

Deploying == {"capacity", "compose", "start", "health", "site", "reload", "migrate",
              "onboard", "undoSite", "undoContainers", "undoCompose", "undoPorts"}
Removing  == {"stop", "files", "unsite", "unport"}

TypeOK ==
  /\ PortsTypeOK
  /\ pc \in [Requests -> Deploying \union Removing \union {"idle"}]
  /\ tenant \in [Requests -> Tenants]
  /\ ports \in [Requests -> Ports \union {NoPort}]
  /\ compose \in [Tenants -> Ports \union {NoPort}]
  /\ containers \in [Tenants -> Ports \union {NoPort}]
  /\ polls \in [Requests -> 0..MaxPolls]
  /\ site \in [Tenants -> Ports \union {NoPort, SSLPending}]
  /\ standing \in [Tenants -> {"none", "deployed", "failed"}]
  /\ leased \in [Tenants -> Ports \union {NoPort}]
  /\ lost \in [Tenants -> SUBSET Resources]

Init ==
  /\ PortsInit
  /\ pc = [r \in Requests |-> "idle"]
  /\ tenant \in [Requests -> Tenants]
  /\ ports = [r \in Requests |-> NoPort]
  /\ polls = [r \in Requests |-> 0]
  /\ compose = [t \in Tenants |-> NoPort]
  /\ containers = [t \in Tenants |-> NoPort]
  /\ site = [t \in Tenants |-> NoPort]
  /\ standing = [t \in Tenants |-> "none"]
  /\ leased = [t \in Tenants |-> NoPort]
  /\ lost = [t \in Tenants |-> {}]

-----------------------------------------------------------------------------
(* Helpers *)

InFlight(t) == \E r \in Requests : tenant[r] = t /\ pc[r] # "idle"

OnVps(t) ==
  { name \in Resources :
      \/ name = "compose" /\ compose[t] # NoPort
      \/ name = "containers" /\ containers[t] # NoPort
      \/ name = "site" /\ site[t] # NoPort }

Goto(r, there) ==
  /\ pc' = [pc EXCEPT ![r] = there]
  /\ polls' = [polls EXCEPT ![r] = 0]
  /\ UNCHANGED <<tenant, ports>>

\* The request is over and the portal hears of it.
Report(r, s) ==
  /\ pc' = [pc EXCEPT ![r] = "idle"]
  /\ ports' = [ports EXCEPT ![r] = NoPort]
  /\ standing' = [standing EXCEPT ![tenant[r]] = s]
  /\ UNCHANGED <<tenant, polls>>

\* docker refuses to bind ports that containers of another tenant hold.
CanBind(t) ==
  /\ compose[t] # NoPort
  /\ \A u \in Tenants \ {t} : containers[u] # compose[t]

\* A command that succeeds leaves nothing the service does not know of.
Done(fact, name, t, p) ==
  /\ fact' = [fact EXCEPT ![t] = p]
  /\ lost' = [lost EXCEPT ![t] = @ \ {name}]

\* A command that fails may yet have had its effect, or part of it.
Attempted(fact, name, t, p) ==
  \/ UNCHANGED <<fact, lost>>
  \/ /\ fact' = [fact EXCEPT ![t] = p]
     /\ lost' = [lost EXCEPT ![t] = @ \union {name}]

\* A command of a rollback or removal; its errors are swallowed.
Cleaned(fact, name, t) ==
  \/ Done(fact, name, t, NoPort)
  \/ /\ "cleanup" \in Faults /\ fact[t] # NoPort
     /\ lost' = [lost EXCEPT ![t] = @ \union {name}]
     /\ UNCHANGED fact

\* docker compose down: without the compose file it does nothing.
ComposeDown(t) ==
  IF compose[t] = NoPort THEN UNCHANGED <<containers, lost>>
  ELSE Cleaned(containers, "containers", t)

\* The site of a tenant leads to its ports only when it is made with SSL;
\* without, http is sent to https and https answers 503.
GenerateSiteConfig(enableSSL, p) == IF enableSSL THEN p ELSE SSLPending

-----------------------------------------------------------------------------
(* deployTenant *)

AddTenant(r, t) ==
  /\ pc[r] = "idle"
  /\ "overlap" \in Clients \/ ~InFlight(t)
  /\ "retry" \in Clients \/ standing[t] = "none"
  /\ pc' = [pc EXCEPT ![r] = "capacity"]
  /\ tenant' = [tenant EXCEPT ![r] = t]
  /\ UNCHANGED <<portService, ports, polls, vps, standing, leased>>

\* The VPS has capacity; the ports are allocated before the next await.
AllocatePorts(r, p) ==
  /\ pc[r] = "capacity"
  /\ AllocatePortSet(tenant[r], p)
  /\ pc' = [pc EXCEPT ![r] = "compose"]
  /\ ports' = [ports EXCEPT ![r] = p]
  /\ leased' = [leased EXCEPT ![tenant[r]] = p]
  /\ UNCHANGED <<tenant, polls, vps, standing>>

\* No capacity, or no ports: nothing is on the rollback stack yet.
NoCapacity(r) ==
  /\ pc[r] = "capacity"
  /\ "step" \in Faults \/ NoPortsFor(tenant[r])
  /\ Report(r, "failed")
  /\ UNCHANGED <<portService, vps, leased>>

CreateComposeFile(r) ==
  /\ pc[r] = "compose"
  /\ Done(compose, "compose", tenant[r], ports[r])
  /\ Goto(r, "start")
  /\ UNCHANGED <<portService, containers, site, standing, leased>>

CreateComposeFileFails(r) ==
  /\ pc[r] = "compose" /\ "step" \in Faults
  /\ Attempted(compose, "compose", tenant[r], ports[r])
  /\ Goto(r, "undoPorts")
  /\ UNCHANGED <<portService, containers, site, standing, leased>>

StartContainers(r) ==
  /\ pc[r] = "start" /\ CanBind(tenant[r])
  /\ Done(containers, "containers", tenant[r], compose[tenant[r]])
  /\ Goto(r, "health")
  /\ UNCHANGED <<portService, compose, site, standing, leased>>

\* A compose up that fails, or finds some ports taken, leaves the containers
\* it has started: to stop them goes on the stack only after it succeeds.
StartContainersFails(r) ==
  /\ pc[r] = "start"
  /\ "step" \in Faults \/ ~CanBind(tenant[r])
  /\ \/ UNCHANGED <<containers, lost>>
     \/ /\ compose[tenant[r]] # NoPort
        /\ Attempted(containers, "containers", tenant[r], compose[tenant[r]])
  /\ Goto(r, "undoCompose")
  /\ UNCHANGED <<portService, compose, site, standing, leased>>

\* Plausible bug: the clock of the deadline starts anew with each check.
BugClockRestarts(r) ==
  /\ pc[r] = "health" /\ polls[r] < MaxPolls
  /\ polls' = [polls EXCEPT ![r] = (@ + 1) % MaxPolls]
  /\ UNCHANGED <<portService, pc, tenant, ports, vps, standing, leased>>

\* The containers are still starting, or do not exist.
KeepWaiting(r) ==
  /\ pc[r] = "health" /\ polls[r] < MaxPolls
  /\ polls' = [polls EXCEPT ![r] = @ + 1]
  /\ UNCHANGED <<portService, pc, tenant, ports, vps, standing, leased>>

ContainersHealthy(r) ==
  /\ pc[r] = "health" /\ polls[r] < MaxPolls
  /\ containers[tenant[r]] # NoPort
  /\ Goto(r, "site")
  /\ UNCHANGED <<portService, vps, standing, leased>>

\* Plausible bug: stopping the containers is put on the stack after the checks.
BugUnhealthyKeepsContainers(r) ==
  /\ pc[r] = "health"
  /\ "step" \in Faults \/ polls[r] = MaxPolls
  /\ Goto(r, "undoCompose")
  /\ UNCHANGED <<portService, vps, standing, leased>>

\* A container reports that it is unhealthy, or the deadline has passed.
ContainersUnhealthy(r) ==
  /\ pc[r] = "health"
  /\ "step" \in Faults \/ polls[r] = MaxPolls
  /\ Goto(r, "undoContainers")
  /\ UNCHANGED <<portService, vps, standing, leased>>

\* enableSSL is FALSE whatever the caller asked for.
CreateSiteConfig(r) ==
  /\ pc[r] = "site"
  /\ Done(site, "site", tenant[r], GenerateSiteConfig(FALSE, ports[r]))
  /\ Goto(r, "reload")
  /\ UNCHANGED <<portService, compose, containers, standing, leased>>

\* Plausible bug: like the certificate's, its failure is not fatal.
BugSiteConfigOptional(r) ==
  /\ pc[r] = "site" /\ "step" \in Faults
  /\ Attempted(site, "site", tenant[r], GenerateSiteConfig(FALSE, ports[r]))
  /\ Goto(r, "reload")
  /\ UNCHANGED <<portService, compose, containers, standing, leased>>

CreateSiteConfigFails(r) ==
  /\ pc[r] = "site" /\ "step" \in Faults
  /\ Attempted(site, "site", tenant[r], GenerateSiteConfig(FALSE, ports[r]))
  /\ Goto(r, "undoContainers")
  /\ UNCHANGED <<portService, compose, containers, standing, leased>>

\* The certificate is obtained next; failing to is not fatal.
ReloadNginx(r) ==
  /\ pc[r] = "reload"
  /\ \/ Goto(r, "migrate")
     \/ "step" \in Faults /\ Goto(r, "undoSite")
  /\ UNCHANGED <<portService, vps, standing, leased>>

RunMigrations(r) ==
  /\ pc[r] = "migrate"
  /\ \/ containers[tenant[r]] # NoPort /\ Goto(r, "onboard")
     \/ ("step" \in Faults \/ containers[tenant[r]] = NoPort) /\ Goto(r, "undoSite")
  /\ UNCHANGED <<portService, vps, standing, leased>>

\* onboardTenant never fails: its fallback does not look at the result.
OnboardTenant(r) ==
  /\ pc[r] = "onboard"
  /\ Report(r, "deployed")
  /\ UNCHANGED <<portService, vps, leased>>


-----------------------------------------------------------------------------
(* The rollback stack, newest entry first, after which the failure is told. *)

UndoSite(r) ==
  /\ pc[r] = "undoSite"
  /\ Cleaned(site, "site", tenant[r])
  /\ Goto(r, "undoContainers")
  /\ UNCHANGED <<portService, compose, containers, standing, leased>>

\* Plausible bug: the compose file goes first, and compose down finds none.
BugRemovesFileFirst(r) ==
  /\ pc[r] = "undoContainers"
  /\ Done(compose, "compose", tenant[r], NoPort)
  /\ Goto(r, "undoCompose")
  /\ UNCHANGED <<portService, containers, site, standing, leased>>

UndoContainers(r) ==
  /\ pc[r] = "undoContainers"
  /\ ComposeDown(tenant[r])
  /\ Goto(r, "undoCompose")
  /\ UNCHANGED <<portService, compose, site, standing, leased>>

UndoCompose(r) ==
  /\ pc[r] = "undoCompose"
  /\ Cleaned(compose, "compose", tenant[r])
  /\ Goto(r, "undoPorts")
  /\ UNCHANGED <<portService, containers, site, standing, leased>>

UndoPorts(r) ==
  /\ pc[r] = "undoPorts"
  /\ ReleasePorts(ports[r])
  /\ leased' = [leased EXCEPT ![tenant[r]] = NoPort]
  /\ Report(r, "failed")
  /\ UNCHANGED vps

-----------------------------------------------------------------------------
(* removeTenant *)

RemoveTenant(r, t) ==
  /\ pc[r] = "idle"
  /\ "overlap" \in Clients \/ ~InFlight(t)
  /\ "retry" \in Clients \/ standing[t] = "deployed"
  /\ pc' = [pc EXCEPT ![r] = "stop"]
  /\ tenant' = [tenant EXCEPT ![r] = t]
  /\ UNCHANGED <<portService, ports, polls, vps, standing, leased>>

StopContainers(r) ==
  /\ pc[r] = "stop"
  /\ ComposeDown(tenant[r])
  /\ Goto(r, "files")
  /\ UNCHANGED <<portService, compose, site, standing, leased>>

DeleteComposeFile(r) ==
  /\ pc[r] = "files"
  /\ Cleaned(compose, "compose", tenant[r])
  /\ Goto(r, "unsite")
  /\ UNCHANGED <<portService, containers, site, standing, leased>>

RemoveSiteConfig(r) ==
  /\ pc[r] = "unsite"
  /\ Cleaned(site, "site", tenant[r])
  /\ Goto(r, "unport")
  /\ UNCHANGED <<portService, compose, containers, standing, leased>>

\* The ports of the tenant's entry are freed, whatever became of the rest.
ReleaseTenant(r) ==
  /\ pc[r] = "unport"
  /\ ReleasePortsForTenant(tenant[r])
  /\ leased' = [leased EXCEPT ![tenant[r]] = NoPort]
  /\ Report(r, "none")
  /\ UNCHANGED vps

-----------------------------------------------------------------------------
\* The bookkeeping and the requests are in the memory of the process: what is
\* on the VPS stays there, and nothing reads it back.
Restart ==
  /\ "restart" \in Faults
  /\ usedPorts' = {}
  /\ allocations' = [t \in Tenants |-> NoPort]
  /\ pc' = [r \in Requests |-> "idle"]
  /\ ports' = [r \in Requests |-> NoPort]
  /\ polls' = [r \in Requests |-> 0]
  /\ leased' = [t \in Tenants |-> NoPort]
  /\ lost' = [t \in Tenants |-> Resources]
  /\ UNCHANGED <<tenant, compose, containers, site, standing>>

Deploy(r) ==
  \/ \E p \in Ports : AllocatePorts(r, p)
  \/ NoCapacity(r)
  \/ CreateComposeFile(r)   \/ CreateComposeFileFails(r)
  \/ StartContainers(r)     \/ StartContainersFails(r)
  \/ KeepWaiting(r) \/ ContainersHealthy(r) \/ ContainersUnhealthy(r)
  \/ CreateSiteConfig(r)    \/ CreateSiteConfigFails(r)
  \/ ReloadNginx(r) \/ RunMigrations(r) \/ OnboardTenant(r)

Rollback(r) == UndoSite(r) \/ UndoContainers(r) \/ UndoCompose(r) \/ UndoPorts(r)

Remove(r) ==
  StopContainers(r) \/ DeleteComposeFile(r) \/ RemoveSiteConfig(r) \/ ReleaseTenant(r)

Next ==
  \/ \E r \in Requests, t \in Tenants : AddTenant(r, t) \/ RemoveTenant(r, t)
  \/ \E r \in Requests : Deploy(r) \/ Rollback(r) \/ Remove(r)
  \/ Restart

\* The ssh commands of every service have a timeout, five minutes or one for
\* nginx, except those of the capacity check: a request may wait for that one
\* for ever, and goes on in the end at every other.
Spec ==
  /\ Init /\ [][Next]_vars
  /\ \A r \in Requests :
       WF_vars(pc[r] # "capacity" /\ (Deploy(r) \/ Rollback(r) \/ Remove(r)))

-----------------------------------------------------------------------------
(* Properties *)

Lease == INSTANCE PortLease WITH lease <- leased

\* The ports a deployment is given belong to its tenant alone until its
\* rollback or the tenant's removal gives them back: allocatePortSet, and the
\* two ways back, implement the lease.
ImplementsLease == Lease!Spec

\* A deployment that starts its containers finds its ports taken only by
\* containers the service has lost track of: left by a compose up or down that
\* failed, or by a restart. No deployment, rollback or removal that works as it
\* should gives back ports that are still bound.
PortsAreFreeToBind ==
  \A r \in Requests, u \in Tenants :
    /\ pc[r] = "start" /\ u # tenant[r]
    /\ containers[u] # NoPort /\ containers[u] = compose[tenant[r]]
    => "containers" \in lost[u]

\* A tenant the portal was told is deployed runs on the ports of its own entry,
\* which are marked as used, and has a site, unless the service was restarted.
DeployedTenantRuns ==
  \A t \in Tenants : standing[t] = "deployed" /\ ~InFlight(t) /\ lost[t] = {} =>
    /\ allocations[t] \in usedPorts
    /\ compose[t] = allocations[t] /\ containers[t] = allocations[t]
    /\ site[t] # NoPort

\* What createSiteConfig and the comments of deployTenant promise: a deployed
\* tenant can be accessed through its site, if only via HTTP.
DeployedTenantIsServed ==
  \A t \in Tenants : standing[t] = "deployed" /\ ~InFlight(t) => site[t] = containers[t]

\* A deployment that was reported as failed leaves nothing on the VPS but what
\* a command that failed did, or did not undo.
RollbackIsComplete ==
  \A t \in Tenants : standing[t] = "failed" /\ ~InFlight(t) => OnVps(t) \subseteq lost[t]

\* No port is lost: each one in use is in the entry of a tenant, whose removal
\* frees it, in whatever order deployments fail and tenants are removed.
UsedPortsAreAccountedFor == \A p \in usedPorts : \E t \in Tenants : allocations[t] = p

\* A deployment or removal that was accepted comes to an end, once the capacity
\* check has answered, whether or not its containers ever become healthy.
RequestsEnd == \A r \in Requests : pc[r] \notin {"idle", "capacity"} ~> pc[r] = "idle"
=============================================================================
