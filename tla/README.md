# RecruitIQ: models, checks and proofs

RecruitIQ is a suite of business products for small employers: recruitment,
human resources (*nexus*), payroll (*paylinq*) and shift scheduling
(*schedulehub*) in one Express/PostgreSQL backend, a portal that sells and
licenses them, and a second service that deploys a customer's stack to a
virtual server. This directory holds TLA+ modules of the parts whose
correctness depends on the order in which things happen, the TLC runs that
check them, and theorems about them that TLAPS checks.

Contents: [1 inventory](#1-inventory), [2 modules](#2-modules),
[3 runs](#3-runs), [4 proofs](#4-proofs),
[5 what the checks showed](#5-what-the-checks-showed),
[6 what is not modelled](#6-what-is-not-modelled), [7 plan](#7-plan).

## 1 Inventory

Two properties of the code decide how everything below is modelled.

* **Nearly every SQL statement is a transaction of its own.** Services call
  `repository.method()`, which calls the pool; there is no `BEGIN` around the
  read, the decision and the write of a request, no `SELECT ... FOR UPDATE`, and
  the `UPDATE`s say `WHERE id = ...` and not `AND status = ...`. (The one exception among
  the modelled parts is an application for a job, which is a transaction.) Node runs one
  handler at a time only between two `await`s. So a request is a sequence of
  steps, one per `await`, and anything may happen in between.
* **Errors are thrown to the outermost handler.** What was written before the
  error stays, unless somebody wrote an explicit undo.

| Component | State | Operations | Hard behaviour | What makes it correct |
|---|---|---|---|---|
| **Payment transactions** (paylinq) `paymentService`, `paymentRepository` | `payment_transaction`: status, retry count | initiate, process, fail, retry, reconcile, set status; the scheduled-payments job | requests and the job race on one row; a list read before a loop; a failure inside the error handler | a payment goes out once for each time it was opened; retries stay in their budget; the job fails no payment it knows to have gone out |
| **Payroll run** (paylinq) `payrollService`, `payrollRepository` | `payroll_run`: status, totals, deleted; `paycheck` rows | calculate, mark for review, finalize/approve, process, cancel, delete, update; void, reissue, delete, update a paycheck | a calculation is dozens of awaits, may die in any of them and is then repeated; requests overlap | no more valid paychecks for an employee than the list names, one at least for everyone on it; the totals of a reviewed run are those of its paychecks; statuses follow their order; a deleted run stays as it is |
| **Tenant deployment** (deployment-service) `TenantDeploymentService` with ports, docker, nginx, database | ports in use and per tenant (in memory); compose files, containers and sites on the server; the portal's view | add a tenant, remove a tenant | runs in the background after the answer; a dozen remote commands, each may fail or time out; rollback; restart | ports are leased exclusively and free to bind; a deployed tenant runs, and is served; a rollback leaves nothing but what a failed command did; every request ends |
| **Compensation** (paylinq) `compensationController`, `employeeRecordController`, `payrollRepository` | `payroll.compensation`: dates, current, deleted, amount; the amount in the record's metadata | create, update, delete a compensation; edit and delete the employee's payroll record | a creation is two statements, the second may be refused; an edit of the record copies its amount into the rows | one current compensation, the newest; a payroll run lists the employee once for each current row |
| Time and attendance (paylinq) | clock events, time entries, rated time lines | clock in, clock out, approve | its operations do not reach the tables (see 5) | - |
| Tenant provisioning (backend) | organizations, shared servers with a tenant count | provision | the route ends in an error before its first statement (see 5) | - |
| **VPS approval and queue** (deployment-service) `deploymentQueue`, `transip/deploymentService` | Bull jobs, their attempts and locks; servers ordered at the provider | create and cancel a job; the job | at-least-once delivery of jobs; a worker dies, or loses Redis and works on; a call that is never answered | a job orders a bounded number of servers, only under its lock, and ends |
| **API client** (packages/api-client) `client.ts` | CSRF token, one renewal in progress, the queue behind it | request, refusal for the token (403) or the session (401), renewal, second attempt | many requests are refused at once; answers come late, get lost or find the server restarted | one renewal at a time; nothing is carried out twice; every request is answered |
| **Sessions and lockout** (backend) `tenantAuthController`, `TenantUser` | refresh token rows, failed attempts and lock of the account; cookies | login, refresh, logout, revoke all | logins that read the account before it was locked; statements that fail in the middle; access tokens nobody looks up | wrong passwords are bounded; revoking all sessions reaches every browser; a revoked session ends |
| **Career portal** (backend) `publicController`, `ApplicationService.delete` | candidates with their documents, applications, row locks; the connections of the pool | apply, upload a document, delete an application | an application holds one connection and asks for another; a crash; requests that overlap | every connection comes back; every request ends; nobody applies twice; documents are kept |
| Payroll amounts, pay structures, periods, currency | rates, brackets, versions | calculate | arithmetic | amounts follow the rules |
| Nexus, schedulehub, recruitment (staff side) | employees, shifts, jobs, applications | CRUD with status checks | a check before a write | status order |
| Licences, features, roles | tiers, presets, grants | look up, migrate | a loop of updates | access follows the licence |
| Infrastructure, product loader, web apps | caches, keys, screens | I/O | - | - |

How they interact: the portal orders the deployment of an organization from the
deployment service over HTTP; that service answers at once, works in the
background and reports back (`reportToPortal`). The web applications reach the
backend through the API client, which renews a session by the refresh of
`tenantAuthController`. The current compensations, approved time entries and
contracts feed a payroll run; an approved run's paychecks are paid as payment
transactions. Everything in the backend shares one pool of connections. Everything
else meets in the database.

`PROJECT.json` lists all components with their sources, and under `hazards` the
places where the code can go wrong in a way a test would hardly reach, each
with the properties that watch it. Places where the code is known to go wrong
whatever the order, so that no property holds, are in section 5.

## 2 Modules

| Module | Models | Uses |
|---|---|---|
| `Payment` | payment transactions | - |
| `PayrollRun` | one payroll run and its paychecks | - |
| `PortLease` | abstract: what the deployment service promises about ports | - |
| `PortManagement` | `PortManagementService`: the two maps and their operations | - |
| `TenantDeployment` | `deployTenant`, its rollback stack, `removeTenant` on one server | extends `PortManagement`, implements `PortLease` |
| `SessionRefresh` | the API client's interceptors and the queue behind a renewal of the session | - |
| `TenantSessions` | the server's side of a session: login, lockout, refresh, logout, revocation | - |
| `DeploymentQueue` | jobs that order a server, their delivery and their handler | - |
| `Compensation` | the compensations of one employee and the record that writes to them | - |
| `CareerPortal` | applications, documents, and the pool of connections they share | - |
| `MC*` | instances of these for TLC | |
| `*_proofs` | theorems about them | TLAPS |

Definitions named `Bug...` are mutated forms of the definition that follows
them: what the code would look like with a plausible mistake. No specification
uses them; each is there to show that some property notices it.

### Payment

`status[p]` and `retryCount[p]` are the row of payment `p` (`"absent"` before
its INSERT). A *worker* is one request in flight or one run of the scheduled
job; `pc[w]` is the await at which it stands, `target[w]` the payment it works on,
`cron[w]` whether `processScheduledPayments` called, and `todo[w]` the
rest of that job's list. `opened`, `paidBy`, `resetBy`, `granted` (failures a
caller wrote without raising the count) and `since` (payments that went out
unknown to a scheduled job since it read its list) are history: nothing in the
system reads them.

| Code | Actions |
|---|---|
| `initiatePayment`, `bulkInitiatePayments` | `InitiatePayment` |
| `processPayment` | `ProcessRead`, then `ProcessWrite`, `ProcessWriteUnanswered` (committed, but the answer is lost) or `ProcessWriteError` |
| `handlePaymentFailure` | `HandlePaymentFailure` |
| `retryPayment` | `RetryRead`, `RetryReset`, `RetryProcessRead`, then as `processPayment` |
| `reconcilePayment`, `updatePaymentStatus` | `ReconcilePayment`, `UpdatePaymentStatus` |
| `processScheduledPayments` | `ScheduledList`, `ScheduledVisit`, the write, `ScheduledFailure`, `ScheduledDone` |
| a crash, or an error outside `processPayment` | `Abort` |

A payment is modelled as going out when it is marked `processed`: that is the
statement which also records the processor's transaction id.
`updatePaymentStatus` takes all six statuses from its caller, and with
`failed` a count or none. The module has it in full, although nothing but
`processPayment` and `retryPayment` calls it at present: the controller asks for an
`updatePayment` that the service does not have.

### PayrollRun

`status`, `deleted` and `summary` (the number of employees counted) are the
run. The calculation works off a list: `Listing` gives the employee on each row
of the query of `findByOrganization`, which joins the current compensations and
so names an employee once for each, and `PageLimit` cuts it as the query's
`LIMIT` does. A paycheck is a number `i`: `row[i]` tells whether it is there,
`line[i]` which line of the list it pays, `complete[i]` whether all its
components were stored. A request remembers between awaits which lines are left (`todo`), how many
it counted, which paycheck it works on and whether `processPayrollRun` called it.
`failed` is history: the lines the last calculation went past with an
error or left behind when it died, and then the mark `Died`. `Operations`, `RunUpdates`, `CheckUpdates` and `Faults` are constants
that say which of the system's operations and faults an instance has; the module
itself has them all.

| Code | Actions |
|---|---|
| `calculatePayroll` | `CalculateRead`, `CalculatePurge` (recalculation only), `CalculateMark`, per line `CalculatePaycheck` and `CalculateComponents` (or one of the failures), `CalculateSummary` |
| `markPayrollRunForReview` | `ReviewRead`, `ReviewList`, `ReviewWrite` |
| `finalizePayrollRun`, `approvePayrollRun` | `FinalizeRead`, `FinalizeWrite` |
| `processPayrollRun` | `ProcessRead`, then calculation and finalization; `CalculateRefused`, `FinalizeRefused` |
| `cancelPayrollRun`, `deletePayrollRun`, `updatePayrollRun` | `CancelRead/Write`, `DeleteRead/Write`, `UpdateRun` |
| `voidPaycheck`, `reissuePaycheck`, `deletePaycheck`, `updatePaycheck` | `VoidRead/Write`, `ReissueRead/Write`, `DeletePaycheckRead/Write`, `UpdatePaycheck` |

Requests the code refuses at once, with nothing written, are not steps of the
model: their guard is false.

### PortLease, PortManagement, TenantDeployment

`PortManagement` has the two pieces of state of `PortManagementService`:
`usedPorts` and `allocations`. Its methods run without an await, so each is
one step. The three ranges (backend, frontend, database) are always used in
lockstep: port `n` stands for the `n`-th of each.

In `TenantDeployment` a *request* is one `executeDeploymentAsync` or
one `removeTenant`; `pc[r]` is the remote command it waits for. The rollback
stack of `deployTenant` is determined by how far it came, so it is not a
variable: a failure at a command goes to the `undo...` step of the newest
entry that is on the stack at that moment, and from there down. `polls[r]` counts
the health checks of a request up to the deadline. The server is
three facts per tenant: the ports in its compose file, the set of ports its
containers hold some or all of, and where its nginx site leads. `createSiteConfig`
always writes a site without SSL (`GenerateSiteConfig(FALSE, ...)`), and that one
leads to no container but to a page that says SSL is pending (`SSLPending`).
`standing[t]` is what the portal heard last. `leased[t]` is history, the ports that
tenant was given and has not given back, and so is `lost[t]`, the facts that may be
otherwise on the server than the service knows, because the last command about them
failed or the service was restarted.

| Code | Actions |
|---|---|
| `addTenant` | `AddTenant` |
| `deployTenant`, steps 1-7 | `AllocatePorts` or `NoCapacity`; `CreateComposeFile`, `StartContainers`, `KeepWaiting`, `ContainersHealthy`, `CreateSiteConfig`, `ReloadNginx`, `RunMigrations`, `OnboardTenant`, and their failures |
| its catch block | `UndoSite`, `UndoContainers`, `UndoCompose`, `UndoPorts` |
| `removeTenant` | `RemoveTenant`, `StopContainers`, `DeleteComposeFile`, `RemoveSiteConfig`, `ReleaseTenant` |
| a restart of the service | `Restart` |

`Clients` says what the portal's users do: deploy each tenant once and remove
it once it runs (`{}`), use two requests at once for a tenant (`"overlap"`), or deploy
and remove in any standing (`"retry"`). `Faults` says what may go wrong: a
command of a deployment fails or times out (`"step"`), a cleaning command does
nothing (`"cleanup"`; the code swallows the error), the service restarts
(`"restart"`). A command that fails has always either had no effect or had it
(`Attempted`): a `docker compose up` that fails, on a port conflict too, may leave the
containers it had started, and to stop them is not on the stack yet. `CanBind` is
docker, not code of this repository: two containers cannot have one port.

`PortLease` is the abstract specification: a tenant acquires a set of ports nobody
holds, or releases its own; a restart forgets every lease (`Forget`), for they are in
the memory of the process. `ImplementsLease` says that `TenantDeployment` implements
it with `lease <- leased`.

### SessionRefresh

`step[r]` is the await at which request `r` stands: its own call (`"sent"`), a
CSRF token (`"fetching"` after a 403, `"renewing"` after a renewal), the renewal
itself, or the queue. `retry[r]` is `_retry`, and keeps which recovery set
it; `header[r]` and `cookie[r]` are what it was sent with. `isRefreshing`,
`refreshSubscribers` and `csrfToken` are the client's fields. What the server
answers depends on its CSRF secret, drawn when it starts, and on whether the
session token has expired and may be renewed; `Serve` makes its checks in the order of
`app.ts`, the CSRF token first. `sends` and `executed` are history. One client is
modelled; an application that makes several has these fields in each.

| Code | Actions |
|---|---|
| request interceptor, and sending again | `Dispatch`, in each step that sends |
| 403 for the CSRF token | `FetchCsrf`, then `CsrfFetched` or `CsrfFetchFails` |
| 401, nobody renews | `StartRefresh`, then `Refreshed` (the queue is sent in the same step) and `Renewed`, or `RefreshFails` |
| 401, a renewal is under way | `Enqueue` |
| anything else, or a second refusal | `Fulfil`, `Reject` |
| `fetchCsrfToken`, `setCsrfToken` | `FetchCsrfToken` |
| server and network | `Serve`, `Lose`, `Expire`, `Revoke`, `Restart` |

A renewal and the fetch of a token are one step each after the request that waits
for them: the server writes nothing for either. Leaving the page for the
login page (`handleSessionExpired`) is `page`; on the login page it does nothing.

### TenantSessions

One account. `attempts` and `lock` are its `failed_login_attempts` and
`locked_until` (none, to come, or past), `row` the refresh tokens in the table.
`pc[r]` is the statement a request waits for, `browser[r]` and `session[r]` where
it came from and which token it is about. `refresh[b]` and `access[b]` are the
cookies of a browser; access tokens exist nowhere else. `guesses` and `lost` are
history. A request carries the cookies of the moment it was sent, and its
answer sets cookies whatever has happened since.

| Code | Actions |
|---|---|
| `login` | `LoginRead`, then `CountFailure` (`incrementFailedLogins`) or `StoreToken`, `StampLogin` (`updateLastLogin` and the answer) |
| `refresh` | `RefreshRead`, `RefreshIssue` |
| `logout` | `LogoutSent`, `LogoutRevoke` |
| `authenticateTenant` and `revokeAllSessions` | `RevokeAllRead`, `RevokeAll` |
| an error, a crash, a lost answer | `Abort` |
| time | `LockExpires`, `AccessExpires` |

### DeploymentQueue

`state`, `attemptsMade`, `stalls` and `lock` are what Bull keeps of a job in
Redis; `step[w]` and `job[w]` what a process does and for which job. `cancelling`
are the jobs whose cancellation has looked at the state and not removed them yet;
`orders` and `cutOff` are history. Bull and Redis are not code of this
repository: `Take`, `Promote`, `LockLapses`, `RecoverStalled` are what the options
in `deploymentQueue.js` ask of them, marked external in the map.

| Code | Actions |
|---|---|
| `createDeploymentJob`, `cancelDeploymentJob` | `CreateDeploymentJob`, `CancelRead`, `CancelRemove` |
| `deploymentQueue.process` with `deployInstance` | `OrderServer`, `ServerRuns`, `Deployed`, `DeployFails`, and what they do to the job: `Returns`, `Throws`, `AttemptFails` |
| a call to the provider without an answer | `Hang` |
| the end of a process | `Crash` |

### Compensation

A row of `payroll.compensation` is `from`, `until`, `current`, `deleted` and
`amount`; a row whose `from` is `None` does not exist yet. `noted` and
`recordDeleted` are the employee's payroll record. `pc[r]` is the next statement of
a request; `late` (rows made current under one with a later date) and `redated`
(somebody edited an effective date) are history. The table's constraints
(one row to a date, `effective_to >= effective_from`) are guards of the
statements, which refuse as a whole.

| Code | Actions |
|---|---|
| `createCompensation` | `Create` (the upsert), `Retire` |
| `updateCompensation`, `deleteCompensation` | `UpdateCompensation`, `DeleteCompensation` |
| `updateEmployeeRecord` | `ReadRecord`, `WriteRecord`, `SyncFind`, then `Amend`, or `Adopt` and `Retire` |
| `deleteEmployeeRecord` | `DeleteRecord` |
| the calendar | `NextDay` |

### CareerPortal

`pc[r]` is where a request stands; the points named `ask...`, and `connect`, are
those at which it waits for the pool, and `Granted` says where each leads.
`free` is the number of connections nobody has. `holder[x]` is the transaction
that holds the row of a person or a job. `apps[r]` is the application made by
request `r`, `"pending"` until its transaction commits; `docs[p]` are the uploads in
the person's `application_data`, `seen[r]` what an upload has read of them;
`before[r]` is history. A job whose row is held cannot be waited for in a circle:
the locks are always taken in the order person, job.

| Code | Actions |
|---|---|
| `submitApplication` | `GetConnection`, `CheckDuplicate`, `GetConnection` and `DrawCode` (`generateUniqueTrackingCode`), `FindCandidate`, `UpdateCandidate` or `InsertCandidate`, `InsertApplication`, `CountApplication`, `Commit`; `StatementFails` with its `RollBack` |
| `uploadDocument` | `FindApplication`, `ReadDocuments`, `WriteDocuments`, `RecordUpload`, each after `GetConnection`; `QueryFails` |
| `deleteApplication` | `LookUp`, `DeleteApplication` |
| the pool (`config/database.ts`) | `GetConnection`, `ConnectionTimeout` |
| the handler of the pool's errors, which ends the process | `Crash` |

## 3 Runs

| Run | Instance | Properties | Shows |
|---|---|---|---|
| `payment_race` | 1 payment, 2 workers, retry limit 2, 2 failures, callers who write every status, lost answers | `TypeOK`, `PaidOncePerOpening`, `RetryBudget`, `ScheduledJobFailsNoPaidPayment` | each worker is protected from itself, across retries and jobs, whatever the others do; the job fails a payment that went out only if it went out behind it |
| `payrollrun_sequential` | a list of 4 lines, the last beyond the page, one employee on two of them; 1 request at a time, crashes and failing employees, no reissue | `TypeOK`, `PaychecksAsListed`, `SummaryCountsComplete`, `ListedArePaid` | the purge of a recalculation is enough for one request at a time: paychecks are what the list says, doubles and the end of the page included, and totals and paychecks of a reviewed run agree |
| `payrollrun_race` | 1 employee, 2 requests of any kind, clients writing statuses | `NeverApprovedWithoutPaychecks`, `DeletedRunIsFrozen` | what survives every race |
| `compensation_overlap` | 2 requests at a time, 2 rows and dates, 2 amounts | `TypeOK`, `NewestIsCurrent`, `OnlyLateRowsLinger` | the newest compensation stays current, and where a second current one comes from |
| `session_refresh` | a change, a read and a check of the session; answers lost, one expiry, one restart, the session ended | `TypeOK`, `OneRefreshAtATime`, `QueueIsServed`, `ExecutedOnce`, `SentTwiceAtMost`, `OnlyCsrfCostsTheRenewal`, `EveryRequestSettles` | the queue works, and whom it forgets |
| `tenant_overlap` | 2 requests, 2 browsers, 2 sessions, a limit of 2 attempts, 1 lost statement | `TypeOK`, `GuessesBounded`, `RevokeAllEndsEverySession`, `RevokedSessionDies` | the lockout and the revocation hold against requests in flight |
| `tenant_lockout` | 1 request, the code's 5 attempts | `LockedAccountIsUnlocked` **violated** | a locked account stays locked |
| `portal_overlap` | 3 requests, 2 people, 1 job, 2 connections, 1 crash | `TypeOK`, `NoConnectionLeak`, `AppliesOnce`, `DocumentsKept`, `EveryRequestEnds` | the pool survives failures, and only requests that overlap double or lose anything |
| `queue_faults` | 2 jobs, 2 processes, 2 attempts, 1 stall, every fault | `TypeOK`, `OrdersBounded`, `OrdersUnderLock`, `JobsEnd` | redelivery is bounded and a cancelled job orders nothing |
| `deployment_single` | 2 tenants, 2 ports, 2 requests, each tenant once; failing commands with or without effect, failing cleanups, restarts | `TypeOK`, `PortsAreFreeToBind`, `DeployedTenantRuns`, `RollbackIsComplete`, `UsedPortsAreAccountedFor`, `ImplementsLease`, `RequestsEnd` | in ordinary use the lease is exclusive and a rollback leaves nothing but what a failed command did |
| `deployment_served` | 1 tenant, nothing fails | `DeployedTenantIsServed` **violated** | no deployed tenant is served by its site |
| `deployment_retry` | 2 tenants, 2 ports, 2 requests, tenants deployed again | `ImplementsLease` **violated** | a tenant gets ports another one holds |

**Bounds, and why they are enough.** *Payment*: every handler touches one row, and
the job treats the payments of its list one after the other, so the races are two
workers' about one payment; while the job is at another payment its list waits, as
it does between its list and its visit. With a retry limit of 2 (3 in the
code) and as many failures, openings and granted attempts the limit is reached, also by
failures that were no retry and by callers who set the count. The workers are
interchangeable, and the run uses that; the theorems cover any number of payments.
*PayrollRun*: two employees are needed for a calculation that fails for one
and goes on to the next, and here one is listed twice and one is beyond the page: 3 lines
are to a list of 4 what 10, the code's limit, are to a longer one. The races are about one
employee's rows and the run's. `MaxPaychecks` bounds the rows ever inserted: 5 let a
calculation of the page be purged and begun again, 2 do the same for the one
employee of the races.
*SessionRefresh*: two requests that renew are needed for one to wait for the other
and for an answer that comes after the other's renewal; the third is one
of those that are never renewed. One expiry and one restart let every check fail after it
passed. The theorems cover any number of requests and restarts.
*TenantDeployment*: two tenants on two sets of ports take over each other's, and two
requests at once give every pairwise interleaving; every command may fail at every
place, and the service restart between any two. Three tenants with these faults are out
of TLC's reach, so that a tenant finds no ports left is met only as the end it has
in common with a server without capacity; the theorems cover any number of both. Two
health checks stand for the 36 before the deadline.
*TenantSessions*: two requests overlap in every pair, from the same browser or from
two; an account that locks after two failures does what one does that locks after
five. *DeploymentQueue*: two processes are needed for one to outlive its lock while
the other runs the job; the second job keeps one of them busy. *Compensation*: two
dates are enough for a creation before or after another row, and there are never more
rows than dates; the requests are unlimited in number, two at a time.
*CareerPortal*: two applications are enough to take both connections and wait for a
third; the third request is the upload, deletion or application that meets them.
The proofs cover any number of all of these.

**Deadlock** is checked where the system can always go on (`Payment`,
`Compensation`, `TenantSessions`). A deleted run accepts nothing more, and when every tenant has
been deployed once, or every request of a page answered, every job of the queue
ended or every applicant answered, there may be nothing left to do: there the runs
say so. (That nobody waits for ever at the pool is `EveryRequestEnds`.)

**Fairness** is assumed in five places. `RequestsEnd` needs that a deployment or
removal that runs takes its next step: `execSSH` of the docker, nginx and database services
has a timeout (five minutes for docker, one for nginx) after which it rejects. That of
`CapacityService` has none, so nothing is fair about a request at `"capacity"`, and
`RequestsEnd` promises an end only once the capacity check has answered. That the wait for
healthy containers ends is not assumed: it is the deadline of `polls`.
`EveryRequestSettles` needs the same of a call of the API client,
which axios ends after 30 seconds unless configured. Fairness says nothing of *which*
way a step goes, and new requests are not fair. `JobsEnd` needs that a process goes on with a
handler (waiting for the server ends after ten minutes by the clock; calls to the
provider have no timeout, so `JobsEnd` excepts a process in one that is never
answered), and that Bull takes waiting jobs, ends back-offs, lets the lock of a
dead process lapse and looks for stalled jobs, all on timers of its own.
`RevokedSessionDies` and `LockedAccountIsUnlocked` assume only that time passes: an
access token expires, and so does `locked_until`; requests may hang for ever.
`EveryRequestEnds` assumes that a request of the career portal that can take its
next step does: the event loop, the database and the pool's timer serve every one.
A request that waits for a row lock depends on the transaction that holds it,
which is itself such a request. `Payment`, `PayrollRun` and `Compensation` have no liveness property:
the code never takes up a request again that died, and nothing restarts a run left in
`calculating`.

Each property of a passing run has a mutant in `PROJECT.json`: a mapped
definition and the `Bug...` form of it with which TLC finds the property violated.

## 4 Proofs

All in `*_proofs`, for every value of the constants that the named assumptions
allow (`PaymentAssumption`: due payments are payments, a positive retry limit, callers
write statuses and counts that exist;
`PayrollRunAssumption`: the list is a sequence with at least one line, the bounds are natural
numbers; `TenantDeploymentAssumption`: at least one health check;
`PortManagementAssumption`: the range has a natural number of ports;
`BoundsAssumption`: natural numbers; `TenantSessionsAssumption` and
`CareerPortalAssumption`: finitely many requests, positive limits, `None` is no value of
the system; `CompensationAssumption`: dates are integers; `DeploymentQueueAssumption`:
a positive number of attempts, a natural number of stalls, `None` is no process).
They state every safety invariant, action property and refinement that a run finds
to hold. A theorem about something that only holds for some uses of the system
names them as its hypothesis, in terms of the same constants a run fixes in its
cfg, and each such hypothesis is one a run satisfies:

| Hypothesis | Means | Theorems | Run |
|---|---|---|---|
| `NonOverlapping` | one request at a time on a payroll run | `PaychecksAsListedHolds`, `SummaryCountsCompleteHolds`, `ListedArePaidHolds` | `payrollrun_sequential` |
| no `reissue`, no `deleteCheck` in `Operations` | paychecks are not reissued, not deleted | the first of these; the others | the same |
| `RunUpdates` without some statuses | no client writes these with `PUT /payroll-runs/:id` | the same, and `NeverApprovedWithoutPaychecksHolds` | the same, and `payrollrun_race` |
| `Clients = {}` | a tenant is deployed once, removed once it runs | `LeaseHolds`, `PortsAreFreeToBindHolds`, `DeployedTenantRunsHolds`, `RollbackIsCompleteHolds` | `deployment_single` |
| `MaxExpiries <= 1` | a session token expires once at most | `OnlyCsrfCostsTheRenewalHolds` | `session_refresh` |

None of these can be left out: on the run's instance without it (or a smaller one with
two requests) TLC finds the property violated. They mark what the code does not
protect itself from.

**Payment_proofs.** One inductive invariant, `IInv`, proves the first three results.
`PaidOncePerOpening` is not inductive: a worker at its write could be about to
exceed the bound. `OpeningLeft` adds what the worker's read established: while
it stands before the write it has paid strictly less often than the payment was
opened, since its earlier writes took the row out of `pending` and only an opening
brings it back. `FailureLeft` does the same for retries: a row that is `failed`
has more failures than any worker has retried it, since a retry takes it out of
`failed` and only a recorded failure brings it back - or a caller who writes `failed`,
with any count or none. What such a caller takes from the count is `granted`, by which the
budget grows.
* `TypeCorrect`, `PaidOncePerOpeningHolds`, `RetryBudgetHolds`.
* `ScheduledJobFailsNoPaidPaymentHolds`, an action property. `AheadIsUnpaid` says that
  what a job has yet to pay (`Ahead`: on its list, or at its write) or to fail is processed
  only if it went out behind the job (`since`): by another worker, a caller, or a write of
  its own that was never answered. `JobsOnly` says that a payment leaves the list before the job
  works on it, so that the job's own payment never meets it again.

**PayrollRun_proofs.**
* `TypeCorrect`, for every constant.
* `DeletedRunIsFrozenHolds`: under any interleaving, from type correctness and the
  guards of the writes.
* `NeverApprovedWithoutPaychecksHolds`: under any interleaving, provided no client
  writes a reviewed status itself with `PUT /payroll-runs/:id`. The invariant adds
  `ReviewSawPaycheck`: a request that is about to write such a status saw a
  paycheck, and a row that was ever inserted never becomes absent again
  (`RowsStay`), even if it was purged since.
* `PaychecksAsListedHolds`: if requests do not overlap, nothing is reissued and no
  client sets the run back to `draft`, then no employee has more valid paychecks than lines
  on the list, whatever crashes. The invariant `PaidOnce` relates the
  status, the place in the calculation and the rows: in `draft` there are no live
  paychecks, before the loop neither, and inside the loop those lines that have one are
  no longer to do. So each line has at most one, and a lemma counts the lines of an
  employee (`AtMostListed`, an injection of paychecks into lines).
* `ListedArePaidHolds`: if requests do not overlap, no paycheck is deleted and no client
  writes a reviewed status, then in a reviewed run every line of the page without a
  reported error has a paycheck, for any list and any limit. `PaysTheList` accounts for each
  line of a calculation under way: still to do, reported, or paid; outside of one the run
  has no live paycheck at all, or the whole list's.
* `SummaryCountsCompleteHolds`: if, in addition, no client sets the run back to `draft`
  (the page does not matter here), the employees published with a reviewed run are its
  complete paychecks. `CountsComplete` says that a calculation under way has counted
  exactly those rows (a cardinality; the row whose components are still to be written
  is not in either), because its loop began without any: a run that is calculated
  without a purge has no valid paycheck.

**TenantDeployment_proofs.**
* `TypeCorrect` and `UsedPortsAreAccountedForHolds`, for every client and fault.
* `LeaseHolds`: if each tenant is deployed once and removed once it runs,
  `Spec => ImplementsLease`, for any number of tenants, ports and concurrent requests,
  whatever commands fail and whenever the service restarts. The initial states map to the
  initial state of `PortLease`, and each step to `Acquire`, `Release`, `Forget` or a stutter.
  The inductive invariant `LeaseInv` says: a tenant has at most one request
  (`OneRequestPerTenant`); ports on lease are the ones in the tenant's entry and
  are marked (`LeasesAreMarked`); no two leases are equal (`LeasesAreDistinct`);
  a tenant nobody deployed yet has no entry (`FreshIsUnlisted`), without which the
  early return of `allocatePortSet` would hand out unmarked ports - exactly
  what `deployment_retry` shows; a deployment works with the ports it leased and a
  removal frees what its tenant has on lease (`WorksWithItsLease`, `RemovesItsLease`); the
  entry of a tenant reported as deployed is its lease (`StandingIsTrue`; both are empty after
  a restart). TLC checked it before it was proved. Requests that go on, end, start,
  allocate and give back, and the restart, are a lemma each (`MovesOn`, `Ends`, `Starts`,
  `Allocates`, `GivesBack`, `Forgets`).
* `PortsAreFreeToBindHolds`, `DeployedTenantRunsHolds` and `RollbackIsCompleteHolds`, under
  the same hypothesis and for every fault. `VpsInv` says for each request, before its next
  command, what there is of the compose file, the containers and the site, and the same of a
  tenant at rest (`Placed`): what the commands up to that point have brought about, on the
  ports of the lease, with the exception of what is in `lost`. Without that exception all
  three are false: a failed command leaves things the service never looks at again. A step
  touches the facts of one tenant only (`TouchesOneTenant`), and `LeaseInv` gives each tenant at
  most one request. That ports are free to bind then follows from the leases being distinct.

**SessionRefresh_proofs.** For any number of requests, whatever is lost, expires,
restarts or is fetched in between.
* `TypeCorrect`.
* `OneRefreshHolds`, `QueueIsServedHolds`, from `RefreshInv`: the flag is up exactly
  while a request renews, the queue is empty while it is down, and who is in the queue
  waits. A step of a request that neither renews nor waits disturbs none of it
  (`Bystander`).
* `ExecutedOnceHolds`, `SentTwiceAtMostHolds`, from `AttemptInv`: a request that
  waits for a recovery has been sent once, was not carried out and has its `_retry`
  set; a request that is sent unmarked is on its first attempt (`SentAttempt`).
* `OnlyCsrfCostsTheRenewalHolds`, if session tokens expire once at most: the invariant
  `Outlasts` says that a marked request goes out with a token issued after that.
  It rests on the two before: who is sent from the queue was waiting there.

**TenantSessions_proofs.** For any number of requests, browsers and sessions.
* `TypeCorrect`.
* `GuessesBoundedHolds`, which counts the guesses since the last login that succeeded, for
  that one starts the count again. The bound rests on a lock that never ends by itself
  (finding 1 below): an account that opened again after half an hour would allow as many
  more each time. The bound itself says nothing of the logins under way, so
  `GuessesCounted` counts them: every wrong password is in the row, in a request
  about to write it (`Counting`), or lost. A login reads the account only while the
  row is below the limit, which leaves room for one more; each step moves one request
  into or out of `Counting` (`CountingGrows`, `CountingShrinks`).
* `RevokeAllEndsEverySessionHolds`, from `HeldIsStored`: whatever a browser holds, or a
  login is about to hand out, is a row of the table, so the one `UPDATE` reaches it.

**DeploymentQueue_proofs.** For any number of jobs, processes, attempts and re-runs,
with every fault.
* `TypeCorrect`, which bounds the attempts and re-runs of a job by their limits. It rests
  on `Inv0`: a process that is not cut off holds the lock of its job (`LocksKept`), and a
  job that is not over has a run left (`RunsLeft`).
* `OrdersBoundedHolds`. The orders alone say nothing of a process that is about to
  order, nor of one that lost its lock and orders all the same. `Counted` therefore bounds
  the `Load` of a job, what was ordered for it and what its processes will still order,
  by the runs the queue has counted: those that failed, those that stalled and the one
  under way. A `Take` adds one to both (`OneTakes`), and any other step lightens the load
  and forgets no run (`StepCounts`).
* `OrdersUnderLockHolds`, an action property, from `LocksKept`.

**Compensation_proofs.** For any number of requests, rows, dates and amounts.
* `TypeCorrect`, which includes the table's constraints.
* `NewestIsCurrentHolds` and `OnlyLateRowsLingerHolds`, proved together with
  `RetiringRowExists` (a request about to retire the others still finds a row of its
  date). A retirement is refused as soon as some other current row begins later, so it
  can only ever retire older rows; one that goes through leaves no other.

**CareerPortal_proofs.** For any requests, people, jobs, pool and number of crashes.
* `TypeCorrect` and `NoConnectionLeakHolds`. That `free` stays between none and all
  follows from the balance, so types without that bound come first (`Types`), with what kind
  of request stands where (`KindsOK`). `Settled` says that a step is balanced if it
  settles with the pool the difference between what the request had and has (`Held`);
  `Balances` shows that every step does.
* `AppliesOnceHolds`, from `Past` (who had ended when a request was sent has ended)
  and `Checked` (an application past its check has seen none by a request in its past;
  none can appear later, since only a request under way can commit).
* `DocumentsKeptHolds`, from `Kept`: a written document is there unless uploads
  overlapped, and an upload sent after it was answered has read it. Whoever writes the list
  either overlapped the upload it could lose, or is in this second case.

Only model-checked: the liveness properties `RequestsEnd`, `EveryRequestSettles`,
`RevokedSessionDies`, `JobsEnd` and `EveryRequestEnds`. They hold by the fairness of
steps, that is of `ENABLED`, which the prover does not handle. What two runs find
violated (`ImplementsLease` when tenants are deployed again, `LockedAccountIsUnlocked`)
needs no proof: the counterexample is one. So is that of `DeployedTenantIsServed`.

## 5 What the checks showed

Three runs end in a violation of something the code says (`findings` in
`PROJECT.json`):

1. **A locked account stays locked** (`tenant_lockout`). `locked_until` is half an hour,
   and the answer says to try again later; but the test of a lock also looks at the
   count of failures, which only a successful login resets. `PlatformUser` has the
   same line. Sessions the user has are refused too, while `refresh` goes on issuing
   access tokens for them.
2. **Ports of another tenant** (`deployment_retry`). A rollback frees the ports and
   keeps the tenant's entry; when that tenant is deployed again it is given those
   ports unseen, though another tenant may have them now.
3. **A deployed tenant is not served** (`deployment_served`). `createSiteConfig` writes
   `enableSSL: false` over whatever it is given. The site it makes sends http to https, and
   https answers 503 "SSL configuration pending"; no request is passed on to the containers. A
   comment of `deployTenant` says a tenant without SSL "can still be accessed via HTTP", the
   other that SSL is configured once certbot has run; but `updateWithSSL` is called by nothing,
   and would write the same site. The portal is told that the deployment is completed.
   Whether nginx accepts the TLS listener at all, which has no certificate, depends on the other
   sites of the server; where it does not, the deployment fails at the reload.

The models show more, where the properties above hold only because the run
leaves a case out, or because they are stated around it. None of it has a run of
its own:

* *Payment*: two requests that both read `pending` before either writes both pay.
  The scheduled job can record a failure on a payment another request processed, and on
  one it has processed itself, if the answer to its write is lost: the payment went out, is
  `failed`, and may be retried. `updatePaymentStatus` checks neither the status
  it replaces nor who asks; `failed` does not raise `retry_count`, so that a
  payment failed by a caller can be retried beyond the limit.
  `retry_count` counts failures and not retries, so a payment that failed three
  times for other reasons is never retried. When recording a failure is itself
  rejected, the job ends with the rest of its list untouched.
* *API client*: requests queued behind a renewal that fails are dropped and
  never settle. The page is normally left then; the login page is not, which is why
  `EveryRequestSettles` excepts it (`Forgotten`). A renewal that merely timed out sends
  the user to the login page like one the server refused. One flag marks both
  recoveries: a request refused for its CSRF token and then for its session is
  rejected although the session could be renewed
  (the package's README promises "seamless token renewal on expiration"). Every client
  begins without a token, and a restart of the server makes all of them void.
* *Sessions*: a login in flight, with the right password, undoes a lock that was set
  since it read the account. A login that fails between its last two statements leaves a
  refresh token in the table that nobody holds. An answer to a refresh that arrives
  after a logout sets an access cookie again, which is good until it expires.
* *Queue*: a job that was cancelled, or failed, leaves the server it ordered; the
  worker that is cut off from Redis orders one without a lock; `job.remove` may remove a
  job that was completed since its state was read; two requests for one instance make two
  jobs. No call to the provider has a timeout.
* *Compensation*: a creation dated before the current row is answered 400, because the
  statement that would retire the later row is refused, but the row it made current
  stays: the employee is then listed, and paid, twice. A creation on the date of a deleted
  row leaves it deleted and retires the others. An edit of the effective date makes a row
  current without retiring any; a deletion promotes none. Every edit of the
  record copies the amount in its metadata over the current row, so that an edit of
  something else reverts a raise; with the id of the record in the URL (and not that of the
  employee) the current row is never found and another is created as of today.
* *Career portal*: as many applications as the pool has connections wait for each other's
  second one until the timeout of the pool (2 seconds) refuses them, although the
  comment in `config/index.ts` says a pool of 100 handles about 100 concurrent
  requests. Applications that overlap are all accepted, since no constraint forbids it,
  unless they are the person's first, where the unique address makes the later ones
  fail. Of two overlapping uploads one document is lost after it was answered; an upload
  whose last `INSERT` fails is answered 500 and kept.
* *Payroll run*: the calculation's comment says "Get all active employees"
  (`payrollService.ts:1078`), but the method it calls returns `filters.limit || 10` rows
  (`payrollRepository.ts:101`): whoever comes after the tenth gets no paycheck and no error.
  An employee with two current compensations (`Compensation` shows how they come about)
  is on the list twice: one calculation inserts two valid paychecks for the employee, and the
  second line takes a place on the page. `PaychecksAsListed` and `ListedArePaid` are therefore
  stated about the list. Two calculations that overlap both insert a paycheck for
  the same employee, and no constraint forbids the second row. A run whose calculation died half way is still `calculating` and can be
  reviewed as it is. A stale write takes a reviewed run back to `calculating` and a
  cancelled one forward; `deletePayrollRun` refuses `finalized` and `paid`, which
  no run ever is, so an approved run can be deleted; `processPayrollRun`
  calculates a draft and then finalizes it, which always conflicts because nobody
  reviewed it; a voided paycheck can be reissued any number of times; a paycheck
  paid between the read and the write of a void ends up voided, or deleted;
  a recalculation deletes paid paychecks without a look.
* *Deployment*: a `docker compose up` that fails leaves the containers it had started, for the
  entry that would stop them is pushed only after success. The ports are freed all the same,
  so that the next tenant to get them is refused by docker, fails, and is rolled back; nothing
  ever removes those containers. What a failed file write or a cleanup left behind stays too.
  `PortsAreFreeToBind` and `RollbackIsComplete` except just that (`lost`).
  Removing a tenant whose deployment was rolled back frees the ports of whoever has them now;
  after a restart the bookkeeping is empty, since nothing calls `initializeUsedPorts` or
  `loadAllocations`, and the ports of running tenants are handed out again. The ssh command of
  the capacity check has no timeout: a deployment may hang there, and its tenant never hears.

Seen while reading, outside what the modules say: the payment controller calls
four methods the service does not have; the provisioning route and `vpsManager` use
a `pool` they never import, so no instance can be provisioned through them; the
time-and-attendance controller leaves out the organization and the user that
`clockIn` and `clockOut` need, and rated time lines are inserted with columns the
migration does not have; the backend's `DeploymentServiceClient`
omits fields both endpoints of the deployment service require; a site
configuration is written with a TLS listener before there is a certificate, and
the nginx test that follows is about all sites, so one broken site fails
everybody's reload; `onboardTenant`'s fallback reports success whatever
happened. `VpsProvisionRequest.updateStatus` numbers a placeholder it has no value
for. `PATCH user-access` ignores `accountStatus` and `isActive`, and a password changed there
revokes no session, although the comment of `revoked_at` names password changes;
`userAccountRepository` writes a `deleted_by` the table does not have.
`createInitialCompensation` always fails, on columns that do not exist, and the error is
swallowed; `DELETE /employees/:id` with the id of the employee answers success and
deletes nothing. In *nexus*, of the operations on employment history only `rehire` can
be reached, and its second use for an employee always violates `check_no_overlap` although
`checkRehireEligibility` says otherwise; an employee deleted there stays on the
payroll. `application_count` does not go down when an application is deleted.

## 6 What is not modelled

* Amounts: taxes, deductions, currencies, components. They are functions of one
  employee's data; the modules keep only whether a paycheck is complete.
* Of the payroll run: creating one and sending payslips. One run stands for all,
  since no statement of one run touches another's rows. The list is the same for every
  calculation of an instance: that compensations change between two is left to `Compensation`.
* Hazards that are only described (`hazards` in `PROJECT.json` says so at each): where the code
  lets two requests go wrong together, a property that holds has to except it. These
  are the double payment by two workers and the double application, upload and
  calculation by requests that overlap; the reissue of a voided paycheck; an
  approval that overtakes the purge of a recalculation (the run had paychecks, and has none
  now); the requests dropped with the queue of a renewal that failed.
* Of the deployment: more than one server, the certificate (its failure is not
  fatal and nothing depends on it), the contents of the tenant's database, ports sent
  by the client (nobody sends any), and three methods of the port service that
  nothing calls.
* Of the sessions: the age of a refresh token (days), `switchProduct`, whose token is
  only in the body of an answer, and the second factor, the password reset,
  `RefreshToken` and `accountLockout`, which work on tables no migration creates or are
  called by nothing. The row-level security of the tables is taken not to bind their owner.
* Of the servers at the provider: starting, stopping and deleting one by hand, and the
  approval workflow. Its routes are behind a placeholder for authentication that sets the
  id `test-user-id`, where the tables want a UUID: no request gets past its first
  `INSERT`.
* Of compensation: the overtime rate, currency and worker type, which follow the
  amount, and the creation of a record.
* Of the career portal: the counter of views and the pages that only read. Jobs are
  there from the start: no route of the program manages to write one.
* Authorization, tenancy filters (`organization_id`), validation and audit logs.
* The components marked `not_modelled` in `PROJECT.json`, with the reason there. The
  most frequent one is that the operations end before they have an effect: parts of
  *schedulehub*, the approvals, user management and provisioning use a database pool
  they never import; time and attendance, and the staff side of recruitment, pass
  arguments and columns their callees and tables do not have. There is no behaviour in
  them to be faithful to. Others are one statement on one row (*nexus*), pure
  arithmetic (amounts) or I/O (infrastructure, product loader, user interface). Most
  of the repository's lines are of these kinds.

## 7 Plan

Done: `Payment`, `PayrollRun`, `PortLease`, `PortManagement`, `TenantDeployment`,
`SessionRefresh`, then `DeploymentQueue`, `TenantSessions`, `Compensation` and
`CareerPortal`, in the order of the harm a wrong step does: money, pay, other people's
data, a user's work; and a theorem for each of their safety properties that holds. The
approval workflow and the limits of jobs, planned before, turned out to have no
reachable behaviour.

Open:

1. An abstract specification of a payroll run (nobody is paid more often than listed, totals are published
   once) that `PayrollRun` implements when requests do not overlap.
2. `PayStructures`: versions of a template and their assignment by date. Its hazards are
   of a kind `PayrollRun` has already: a status read in one statement and written in the
   next.
