-------------------------- MODULE DeploymentQueue --------------------------
(***************************************************************************)
(* Orders of servers at the provider (deployment-service): POST            *)
(* /deployments puts a job into a Bull queue, a worker of the service      *)
(* carries it out (order the server, wait until it runs, read its address) *)
(* and DELETE /deployments/:jobId takes it out again.                      *)
(*                                                                         *)
(* The queue lives in Redis and delivers at least once: a job that fails   *)
(* is run again, and so is one whose worker stopped renewing its lock,     *)
(* because its process died or because it was cut off from Redis and works *)
(* on. Bull is not code of this repository; its actions here are what the  *)
(* options of deploymentQueue.js ask of it.                                *)
(***************************************************************************)
EXTENDS Integers

CONSTANTS
  Jobs,         \* jobs clients may create
  Workers,      \* processes of the service, each runs one job at a time
  MaxAttempts,  \* attempts of a job (3 in the code)
  MaxStalls,    \* re-runs after a lost lock (maxStalledCount, 1 by default)
  Faults        \* "crash": a process dies; "cut": it loses Redis and works on;
                \* "hang": a call to the provider is never answered

ASSUME DeploymentQueueAssumption ==
  /\ MaxAttempts \in Nat \ {0}
  /\ MaxStalls \in Nat
  /\ Faults \subseteq {"crash", "cut", "hang"}

None == "none"
ASSUME NoneAssumption == None \notin Workers \union Jobs

VARIABLES
  state,        \* of each job in the queue, "absent" before and "removed" after
  attemptsMade, \* attempts of each job that failed
  stalls,       \* how often each job was found without a lock
  lock,         \* who holds the lock of each job
  step,         \* what each worker does for its job
  job,          \* the job each worker runs
  cancelling,   \* jobs whose cancellation has read a state and not removed yet
  orders,       \* history: servers ordered for each job
  cutOff        \* history: workers that outlived the lock of the job they run

queue   == <<state, attemptsMade, stalls, lock>>
workers == <<step, job>>
vars    == <<state, attemptsMade, stalls, lock, step, job, cancelling, orders, cutOff>>

States == {"absent", "waiting", "active", "delayed", "completed", "failed", "removed"}
Steps  == {"idle", "order", "poll", "details", "hung"}

TypeOK ==
  /\ state \in [Jobs -> States]
  /\ attemptsMade \in [Jobs -> 0..MaxAttempts]
  /\ stalls \in [Jobs -> 0..(MaxStalls + 1)]
  /\ lock \in [Jobs -> Workers \union {None}]
  /\ step \in [Workers -> Steps]
  /\ job \in [Workers -> Jobs \union {None}]
  /\ cancelling \subseteq Jobs
  /\ orders \in [Jobs -> Nat]
  /\ cutOff \subseteq Workers

Init ==
  /\ state = [j \in Jobs |-> "absent"]
  /\ attemptsMade = [j \in Jobs |-> 0]
  /\ stalls = [j \in Jobs |-> 0]
  /\ lock = [j \in Jobs |-> None]
  /\ step = [w \in Workers |-> "idle"]
  /\ job = [w \in Workers |-> None]
  /\ cancelling = {}
  /\ orders = [j \in Jobs |-> 0]
  /\ cutOff = {}

Become(j, s) == state' = [state EXCEPT ![j] = s]
Unlock(j)    == lock' = [lock EXCEPT ![j] = None]
Goto(w, s)   == step' = [step EXCEPT ![w] = s]
Holds(w, j)  == state[j] = "active" /\ lock[j] = w

\* The handler of worker w is over, or its process died.
Settle(w) ==
  /\ Goto(w, "idle")
  /\ job' = [job EXCEPT ![w] = None]
  /\ cutOff' = cutOff \ {w}

-----------------------------------------------------------------------------
(* Clients *)

\* createDeploymentJob. The id holds the time, so that every request for an
\* instance, also a repeated one, is a job of its own.
CreateDeploymentJob(j) ==
  /\ state[j] = "absent"
  /\ Become(j, "waiting")
  /\ UNCHANGED <<attemptsMade, stalls, lock, workers, cancelling, orders, cutOff>>

\* cancelDeploymentJob looks up the job and its state, and refuses what is
\* completed or failed.
CancelRead(j) ==
  /\ state[j] \notin {"absent", "removed", "completed", "failed"}
  /\ j \notin cancelling
  /\ cancelling' = cancelling \union {j}
  /\ UNCHANGED <<queue, workers, orders, cutOff>>

\* Plausible bug: the job is taken away from the worker that runs it.
BugRemoveLocked(j) ==
  /\ j \in cancelling
  /\ cancelling' = cancelling \ {j}
  /\ Become(j, "removed")
  /\ Unlock(j)
  /\ UNCHANGED <<attemptsMade, stalls, workers, orders, cutOff>>

\* job.remove: refused, with an error, while a worker holds the lock, and
\* otherwise done in whatever state the job is by now.
CancelRemove(j) ==
  /\ j \in cancelling
  /\ cancelling' = cancelling \ {j}
  /\ IF lock[j] = None THEN Become(j, "removed") ELSE UNCHANGED state
  /\ UNCHANGED <<attemptsMade, stalls, lock, workers, orders, cutOff>>

-----------------------------------------------------------------------------
(* Bull *)

\* An idle worker takes a waiting job and locks it.
Take(w, j) ==
  /\ step[w] = "idle"
  /\ state[j] = "waiting"
  /\ Become(j, "active")
  /\ lock' = [lock EXCEPT ![j] = w]
  /\ Goto(w, "order")
  /\ job' = [job EXCEPT ![w] = j]
  /\ UNCHANGED <<attemptsMade, stalls, cancelling, orders, cutOff>>

\* The back-off of a failed attempt is over.
Promote(j) ==
  /\ state[j] = "delayed"
  /\ Become(j, "waiting")
  /\ UNCHANGED <<attemptsMade, stalls, lock, workers, cancelling, orders, cutOff>>

\* Plausible bug: one attempt more than asked for.
BugAttemptTooMany(j) ==
  /\ attemptsMade' = [attemptsMade EXCEPT ![j] = @ + 1]
  /\ Become(j, IF attemptsMade[j] <= MaxAttempts THEN "delayed" ELSE "failed")

\* What becomes of job j when its handler throws.
AttemptFails(j) ==
  /\ attemptsMade' = [attemptsMade EXCEPT ![j] = @ + 1]
  /\ Become(j, IF attemptsMade[j] + 1 < MaxAttempts THEN "delayed" ELSE "failed")

\* The handler of worker w threw or returned: the job is moved on, provided
\* the worker still holds its lock.
Throws(w) ==
  /\ Settle(w)
  /\ IF Holds(w, job[w])
     THEN AttemptFails(job[w]) /\ Unlock(job[w])
     ELSE UNCHANGED <<state, attemptsMade, lock>>

Returns(w) ==
  /\ Settle(w)
  /\ IF Holds(w, job[w])
     THEN Become(job[w], "completed") /\ Unlock(job[w])
     ELSE UNCHANGED <<state, lock>>

\* The lock of a job is not renewed in time: its worker died, or lives on
\* without Redis.
LockLapses(j) ==
  /\ state[j] = "active" /\ lock[j] # None
  /\ job[lock[j]] = j => "cut" \in Faults
  /\ cutOff' = cutOff \union {w \in {lock[j]} : job[w] = j}
  /\ Unlock(j)
  /\ UNCHANGED <<state, attemptsMade, stalls, workers, cancelling, orders>>

\* Plausible bug: a job that stalled too often is left as it is.
BugStalledForever(j) ==
  /\ state[j] = "active" /\ lock[j] = None
  /\ stalls[j] < MaxStalls
  /\ stalls' = [stalls EXCEPT ![j] = @ + 1]
  /\ Become(j, "waiting")
  /\ UNCHANGED <<attemptsMade, lock, workers, cancelling, orders, cutOff>>

\* The check for stalled jobs runs one again MaxStalls times, then fails it.
RecoverStalled(j) ==
  /\ state[j] = "active" /\ lock[j] = None
  /\ stalls' = [stalls EXCEPT ![j] = @ + 1]
  /\ Become(j, IF stalls[j] < MaxStalls THEN "waiting" ELSE "failed")
  /\ UNCHANGED <<attemptsMade, lock, workers, cancelling, orders, cutOff>>

\* A process dies, the lock stays until it lapses.
Crash(w) ==
  /\ "crash" \in Faults
  /\ step[w] # "idle"
  /\ Settle(w)
  /\ UNCHANGED <<queue, cancelling, orders>>

-----------------------------------------------------------------------------
(* The handler: deployInstance *)

\* createVPS: the server is ordered, and what follows depends on the answer,
\* which may be lost.
OrderServer(w) ==
  /\ step[w] = "order"
  /\ orders' = [orders EXCEPT ![job[w]] = @ + 1]
  /\ \/ Goto(w, "poll") /\ UNCHANGED <<queue, job, cutOff>>
     \/ Throws(w) /\ UNCHANGED stalls
  /\ UNCHANGED cancelling

\* Plausible bug: the handler orders again until the server runs.
BugPollOrders(w) ==
  /\ step[w] = "poll"
  /\ Goto(w, "order")
  /\ UNCHANGED <<queue, job, cancelling, orders, cutOff>>

\* waitForVPSReady returns.
ServerRuns(w) ==
  /\ step[w] = "poll"
  /\ Goto(w, "details")
  /\ UNCHANGED <<queue, job, cancelling, orders, cutOff>>

\* The address of the server is read and the handler returns.
Deployed(w) ==
  /\ step[w] = "details"
  /\ Returns(w)
  /\ UNCHANGED <<attemptsMade, stalls, cancelling, orders>>

\* A call to the provider is refused or fails, the server fails, does not run
\* within ten minutes, or the progress of the job cannot be stored: the
\* handler throws. A server that was ordered stays.
DeployFails(w) ==
  /\ step[w] \in {"order", "poll", "details"}
  /\ Throws(w)
  /\ UNCHANGED <<stalls, cancelling, orders>>

\* The calls have no timeout of their own.
Hang(w) ==
  /\ "hang" \in Faults
  /\ step[w] \in {"order", "poll", "details"}
  /\ Goto(w, "hung")
  /\ UNCHANGED <<queue, job, cancelling, orders, cutOff>>

-----------------------------------------------------------------------------
Handler(w) == OrderServer(w) \/ ServerRuns(w) \/ Deployed(w) \/ DeployFails(w)

Next ==
  \/ \E j \in Jobs :
       \/ CreateDeploymentJob(j) \/ CancelRead(j) \/ CancelRemove(j)
       \/ Promote(j) \/ LockLapses(j) \/ RecoverStalled(j)
       \/ \E w \in Workers : Take(w, j)
  \/ \E w \in Workers : Handler(w) \/ Hang(w) \/ Crash(w)

Spec == Init /\ [][Next]_vars

\* A worker goes on with its handler, every call of which ends (waiting for the
\* server is bounded by the clock); Bull takes jobs, ends back-offs and looks
\* for jobs whose worker is gone.
Fairness ==
  /\ \A w \in Workers : WF_vars(Handler(w))
  /\ \A j \in Jobs :
       /\ WF_vars(\E w \in Workers : Take(w, j))
       /\ WF_vars(Promote(j)) /\ WF_vars(RecoverStalled(j))
       /\ WF_vars(LockLapses(j) /\ job[lock[j]] # j)

FairSpec == Spec /\ Fairness

-----------------------------------------------------------------------------
(* Properties *)

\* Whatever fails, crashes or is cut off, a job orders no more servers than it
\* has attempts and re-runs: no run orders twice, and no run is uncounted.
OrdersBounded ==
  \A j \in Jobs : orders[j] <= MaxAttempts + MaxStalls

\* Servers are ordered for a job by the worker that holds its lock, so not for
\* a job that ended or was cancelled; only a worker cut off from Redis, which
\* outlived its lock, does not know.
OrdersUnderLock ==
  [][\A w \in Workers : OrderServer(w) => Holds(w, job[w]) \/ w \in cutOff]_vars

\* Every job that was created is completed, failed or removed in the end,
\* whatever fails, unless a worker waits for a call that is never answered.
JobsEnd ==
  \A j \in Jobs :
    state[j] = "waiting" ~> \/ state[j] \in {"completed", "failed", "removed"}
                            \/ \E w \in Workers : step[w] = "hung"
=============================================================================
