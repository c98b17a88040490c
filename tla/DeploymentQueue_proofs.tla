---------------------- MODULE DeploymentQueue_proofs ----------------------
(***************************************************************************)
(* Proofs about DeploymentQueue, for any jobs, workers, attempts, re-runs  *)
(* and faults. A server is counted from the moment on when a worker is     *)
(* about to order it: what was ordered for a job and what its workers will *)
(* still order never exceeds the runs the queue has counted.               *)
(***************************************************************************)
EXTENDS DeploymentQueue, FiniteSetTheorems, TLAPS

\* TypeOK without the bounds of the counters.
Types ==
  /\ state \in [Jobs -> States]
  /\ attemptsMade \in [Jobs -> Nat]
  /\ stalls \in [Jobs -> Nat]
  /\ lock \in [Jobs -> Workers \union {None}]
  /\ step \in [Workers -> Steps]
  /\ job \in [Workers -> Jobs \union {None}]
  /\ cancelling \subseteq Jobs
  /\ orders \in [Jobs -> Nat]
  /\ cutOff \subseteq Workers
  /\ \A w \in Workers : step[w] # "idle" => job[w] \in Jobs

\* A worker holds the lock of its job unless it was cut off.
LocksKept ==
  \A w \in Workers :
    step[w] # "idle" /\ w \notin cutOff => Holds(w, job[w])

\* A job that is not over has an attempt left and has not stalled too often.
Open(j) == state[j] \in {"absent", "waiting", "delayed", "active"}

RunsLeft ==
  \A j \in Jobs :
    /\ attemptsMade[j] <= MaxAttempts /\ stalls[j] <= MaxStalls + 1
    /\ Open(j) => attemptsMade[j] < MaxAttempts /\ stalls[j] <= MaxStalls

Inv0 == Types /\ LocksKept /\ RunsLeft

\* The workers that are about to order a server for job j.
Ordering(j) == {w \in Workers : step[w] = "order" /\ job[w] = j}

\* Servers ordered, and about to be ordered, for job j.
Load(j) == orders[j] + Cardinality(Ordering(j))

Finite == \A j \in Jobs : IsFiniteSet(Ordering(j))

\* Runs of an open job so far: those that failed or stalled and the one it is in.
Runs(j) == attemptsMade[j] + stalls[j] + (IF state[j] = "active" THEN 1 ELSE 0)

Counted ==
  \A j \in Jobs : IF Open(j) THEN Load(j) <= Runs(j)
                             ELSE Load(j) <= MaxAttempts + MaxStalls

Inv == Inv0 /\ Finite /\ Counted

-----------------------------------------------------------------------------
(* What holds the lock *)

LEMMA InitInv0 == Init => Inv0
  BY DeploymentQueueAssumption, NoneAssumption
     DEF Init, Inv0, Types, LocksKept, RunsLeft, Open, States, Steps

LEMMA SettleInv0 ==
  ASSUME Inv0, NEW w \in Workers, step[w] # "idle", Settle(w),
         UNCHANGED <<queue, cancelling>>, orders' \in [Jobs -> Nat]
  PROVE  Inv0'
<1>1. Types'
  BY DEF Inv0, Types, Settle, Goto, queue, Steps
<1>2. LocksKept'
  BY DEF Inv0, Types, LocksKept, Holds, Settle, Goto, queue
<1>3. RunsLeft'
  BY DEF Inv0, RunsLeft, Open, queue
<1> QED
  BY <1>1, <1>2, <1>3 DEF Inv0

LEMMA ThrowsInv0 ==
  ASSUME Inv0, NEW w \in Workers, step[w] # "idle", Throws(w),
         UNCHANGED <<stalls, cancelling>>, orders' \in [Jobs -> Nat]
  PROVE  Inv0'
<1> USE DeploymentQueueAssumption, NoneAssumption
<1>0. job[w] \in Jobs
  BY DEF Inv0, Types
<1>1. CASE Holds(w, job[w])
  <2>1. Types'
    <3>1. PICK s \in {"delayed", "failed"} : Become(job[w], s)
      BY <1>1 DEF Throws, AttemptFails
    <3>2. attemptsMade' = [attemptsMade EXCEPT ![job[w]] = @ + 1]
      BY <1>1 DEF Throws, AttemptFails
    <3>3. attemptsMade' \in [Jobs -> Nat]
      BY <1>0, <3>2 DEF Inv0, Types
    <3> QED
      BY <1>0, <1>1, <3>1, <3>3 DEF Inv0, Types, Throws, Settle, Goto, Become, Unlock, Steps, States
  <2>2. LocksKept'
    BY <1>0, <1>1 DEF Inv0, Types, LocksKept, Holds, Throws, Settle, Goto, AttemptFails, Become, Unlock
  <2>3. RunsLeft'
    BY <1>0, <1>1 DEF Inv0, Types, RunsLeft, Open, Holds, Throws, Settle, AttemptFails, Become
  <2> QED
    BY <2>1, <2>2, <2>3 DEF Inv0
<1>2. CASE ~Holds(w, job[w])
  BY <1>2, SettleInv0 DEF Throws, queue
<1> QED
  BY <1>1, <1>2

LEMMA ReturnsInv0 ==
  ASSUME Inv0, NEW w \in Workers, step[w] # "idle", Returns(w),
         UNCHANGED <<attemptsMade, stalls, cancelling, orders>>
  PROVE  Inv0'
<1>0. job[w] \in Jobs
  BY DEF Inv0, Types
<1>1. CASE Holds(w, job[w])
  <2>1. Types'
    BY <1>0, <1>1 DEF Inv0, Types, Returns, Settle, Goto, Become, Unlock, Steps, States
  <2>2. LocksKept'
    BY <1>0, <1>1 DEF Inv0, Types, LocksKept, Holds, Returns, Settle, Goto, Become, Unlock
  <2>3. RunsLeft'
    BY <1>0, <1>1 DEF Inv0, Types, RunsLeft, Open, Returns, Become
  <2> QED
    BY <2>1, <2>2, <2>3 DEF Inv0
<1>2. CASE ~Holds(w, job[w])
  <2>1. orders' \in [Jobs -> Nat]
    BY DEF Inv0, Types
  <2> QED
    BY <1>2, <2>1, SettleInv0 DEF Returns, queue
<1> QED
  BY <1>1, <1>2

\* A step of a worker within its handler.
LEMMA GotoInv0 ==
  ASSUME Inv0, NEW w \in Workers, step[w] # "idle", NEW s \in Steps, Goto(w, s),
         UNCHANGED <<queue, job, cutOff, cancelling>>, orders' \in [Jobs -> Nat]
  PROVE  Inv0'
<1>1. Types'
  BY DEF Inv0, Types, Goto, queue
<1>2. LocksKept'
  BY DEF Inv0, Types, LocksKept, Holds, Goto, queue
<1>3. RunsLeft'
  BY DEF Inv0, RunsLeft, Open, queue
<1> QED
  BY <1>1, <1>2, <1>3 DEF Inv0

LEMMA OrderedIsTyped ==
  ASSUME Inv0, NEW w \in Workers, OrderServer(w)
  PROVE  orders' \in [Jobs -> Nat] /\ job[w] \in Jobs /\ step[w] = "order"
  BY DEF Inv0, Types, OrderServer

\* Every step keeps types, locks and the bounds of the counters.
LEMMA StepInv0 == ASSUME Inv0, [Next]_vars PROVE Inv0'
<1> USE DeploymentQueueAssumption, NoneAssumption
<1>1. ASSUME NEW j \in Jobs, CreateDeploymentJob(j) \/ Promote(j) PROVE Inv0'
  <2>1. Types' /\ RunsLeft'
    BY <1>1 DEF Inv0, Types, RunsLeft, Open, CreateDeploymentJob, Promote, Become, workers, States
  <2>2. LocksKept'
    BY <1>1 DEF Inv0, Types, LocksKept, Holds, CreateDeploymentJob, Promote, Become, workers
  <2> QED
    BY <2>1, <2>2 DEF Inv0
<1>2. ASSUME NEW j \in Jobs, CancelRead(j) PROVE Inv0'
  BY <1>2 DEF Inv0, Types, LocksKept, Holds, RunsLeft, Open, CancelRead, queue, workers
<1>3. ASSUME NEW j \in Jobs, CancelRemove(j) PROVE Inv0'
  <2>1. Types' /\ RunsLeft'
    BY <1>3 DEF Inv0, Types, RunsLeft, Open, CancelRemove, Become, workers, States
  <2>2. LocksKept'
    BY <1>3 DEF Inv0, Types, LocksKept, Holds, CancelRemove, Become, workers
  <2> QED
    BY <2>1, <2>2 DEF Inv0
<1>4. ASSUME NEW j \in Jobs, LockLapses(j) PROVE Inv0'
  <2>1. Types' /\ RunsLeft'
    BY <1>4 DEF Inv0, Types, RunsLeft, Open, LockLapses, Unlock, workers
  <2>2. LocksKept'
    BY <1>4 DEF Inv0, Types, LocksKept, Holds, LockLapses, Unlock, workers
  <2> QED
    BY <2>1, <2>2 DEF Inv0
<1>5. ASSUME NEW j \in Jobs, RecoverStalled(j) PROVE Inv0'
  <2>1. Types' /\ RunsLeft'
    BY <1>5 DEF Inv0, Types, RunsLeft, Open, RecoverStalled, Become, workers, States
  <2>2. LocksKept'
    BY <1>5 DEF Inv0, Types, LocksKept, Holds, RecoverStalled, Become, workers
  <2> QED
    BY <2>1, <2>2 DEF Inv0
<1>6. ASSUME NEW j \in Jobs, NEW w \in Workers, Take(w, j) PROVE Inv0'
  <2>1. Types' /\ RunsLeft'
    BY <1>6 DEF Inv0, Types, RunsLeft, Open, Take, Become, Goto, States, Steps
  <2>2. LocksKept'
    BY <1>6 DEF Inv0, Types, LocksKept, Holds, Take, Become, Goto
  <2> QED
    BY <2>1, <2>2 DEF Inv0
<1>7. ASSUME NEW w \in Workers, OrderServer(w) PROVE Inv0'
  <2>1. orders' \in [Jobs -> Nat] /\ step[w] # "idle" /\ UNCHANGED cancelling
    BY <1>7, OrderedIsTyped DEF OrderServer
  <2>2. CASE Goto(w, "poll") /\ UNCHANGED <<queue, job, cutOff>>
    BY <2>1, <2>2, GotoInv0 DEF Steps
  <2>3. CASE Throws(w) /\ UNCHANGED stalls
    BY <2>1, <2>3, ThrowsInv0
  <2> QED
    BY <1>7, <2>2, <2>3 DEF OrderServer
<1>8. ASSUME NEW w \in Workers, ServerRuns(w) \/ Hang(w) PROVE Inv0'
  <2>1. orders' \in [Jobs -> Nat] /\ step[w] # "idle"
    BY <1>8 DEF Inv0, Types, ServerRuns, Hang
  <2> QED
    BY <1>8, <2>1, GotoInv0 DEF ServerRuns, Hang, Steps
<1>9. ASSUME NEW w \in Workers, Deployed(w) PROVE Inv0'
  BY <1>9, ReturnsInv0 DEF Deployed
<1>10. ASSUME NEW w \in Workers, DeployFails(w) PROVE Inv0'
  <2>1. orders' \in [Jobs -> Nat] /\ step[w] # "idle"
    BY <1>10 DEF Inv0, Types, DeployFails
  <2> QED
    BY <1>10, <2>1, ThrowsInv0 DEF DeployFails
<1>11. ASSUME NEW w \in Workers, Crash(w) PROVE Inv0'
  <2>1. orders' \in [Jobs -> Nat]
    BY <1>11 DEF Inv0, Types, Crash
  <2> QED
    BY <1>11, <2>1, SettleInv0 DEF Crash
<1>12. CASE UNCHANGED vars
  BY <1>12 DEF vars, Inv0, Types, LocksKept, Holds, RunsLeft, Open
<1> QED
  BY <1>1, <1>2, <1>3, <1>4, <1>5, <1>6, <1>7, <1>8, <1>9, <1>10, <1>11, <1>12 DEF Next, Handler

LEMMA InvariantInv0 == Spec => []Inv0
<1>1. Init => Inv0
  BY InitInv0
<1>2. Inv0 /\ [Next]_vars => Inv0'
  BY StepInv0
<1> QED
  BY <1>1, <1>2, PTL DEF Spec

-----------------------------------------------------------------------------
(* Orders *)

\* The load of a job is a number.
LEMMA LoadIsNat ==
  ASSUME Inv0, Finite, NEW j \in Jobs
  PROVE  Load(j) \in Nat /\ orders[j] \in Nat /\ Cardinality(Ordering(j)) \in Nat
<1>1. Cardinality(Ordering(j)) \in Nat
  BY FS_CardinalityType DEF Finite
<1> QED
  BY <1>1 DEF Load, Inv0, Types

\* What a step may do that is no Take: no worker is newly about to order, and
\* the load of no job grows.
Lightens ==
  /\ Finite'
  /\ \A j \in Jobs : Load(j)' \in Nat /\ Load(j)' <= Load(j)

LEMMA NoneOrders ==
  ASSUME Inv0, Finite, UNCHANGED orders,
         \A w \in Workers : step'[w] = "order" => step[w] = "order" /\ job'[w] = job[w]
  PROVE  Lightens
<1>1. ASSUME NEW j \in Jobs
      PROVE  IsFiniteSet(Ordering(j)') /\ Load(j)' \in Nat /\ Load(j)' <= Load(j)
  <2>1. Ordering(j)' \subseteq Ordering(j)
    BY DEF Ordering
  <2>2. IsFiniteSet(Ordering(j))
    BY DEF Finite
  <2>3. IsFiniteSet(Ordering(j)') /\ Cardinality(Ordering(j)') <= Cardinality(Ordering(j))
    BY <2>1, <2>2, FS_Subset
  <2>4. Cardinality(Ordering(j)') \in Nat
    BY <2>3, FS_CardinalityType
  <2>5. Load(j)' = orders[j] + Cardinality(Ordering(j)')
    BY DEF Load
  <2> QED
    BY <2>3, <2>4, <2>5, LoadIsNat DEF Load
<1> QED
  BY <1>1 DEF Lightens, Finite

\* A worker that orders is no longer about to.
LEMMA OneOrders ==
  ASSUME Inv0, Finite, NEW w \in Workers, step[w] = "order", step'[w] # "order",
         orders' = [orders EXCEPT ![job[w]] = @ + 1],
         \A v \in Workers \ {w} : step'[v] = step[v] /\ job'[v] = job[v]
  PROVE  Lightens
<1>0. job[w] \in Jobs
  BY DEF Inv0, Types
<1>1. ASSUME NEW j \in Jobs
      PROVE  IsFiniteSet(Ordering(j)') /\ Load(j)' \in Nat /\ Load(j)' <= Load(j)
  <2>1. Ordering(j)' = Ordering(j) \ {w}
    BY DEF Ordering
  <2>2. IsFiniteSet(Ordering(j))
    BY DEF Finite
  <2>3. /\ IsFiniteSet(Ordering(j)')
        /\ Cardinality(Ordering(j)') = IF w \in Ordering(j) THEN Cardinality(Ordering(j)) - 1
                                                            ELSE Cardinality(Ordering(j))
    BY <2>1, <2>2, FS_RemoveElement
  <2>4. Cardinality(Ordering(j)') \in Nat
    BY <2>3, FS_CardinalityType
  <2>5. w \in Ordering(j) <=> job[w] = j
    BY DEF Ordering
  <2>6. orders'[j] = IF job[w] = j THEN orders[j] + 1 ELSE orders[j]
    BY <1>0 DEF Inv0, Types
  <2>7. Load(j)' = orders'[j] + Cardinality(Ordering(j)')
    BY DEF Load
  <2> QED
    BY <2>3, <2>4, <2>5, <2>6, <2>7, LoadIsNat DEF Load
<1> QED
  BY <1>1 DEF Lightens, Finite

\* A Take puts one worker in the place from which it orders.
LEMMA OneTakes ==
  ASSUME Inv0, Finite, NEW i \in Jobs, NEW w \in Workers, Take(w, i)
  PROVE  /\ Finite'
         /\ \A j \in Jobs : /\ Load(j)' \in Nat
                            /\ Load(j)' = IF j = i THEN Load(j) + 1 ELSE Load(j)
<1>1. ASSUME NEW j \in Jobs
      PROVE  /\ IsFiniteSet(Ordering(j)') /\ Load(j)' \in Nat
             /\ Load(j)' = IF j = i THEN Load(j) + 1 ELSE Load(j)
  <2>0. /\ step' = [step EXCEPT ![w] = "order"] /\ job' = [job EXCEPT ![w] = i]
        /\ step[w] = "idle" /\ orders' = orders
    BY DEF Take, Goto
  <2>1. Ordering(j)' = IF j = i THEN Ordering(j) \union {w} ELSE Ordering(j)
    BY <2>0 DEF Ordering, Inv0, Types
  <2>2. IsFiniteSet(Ordering(j)) /\ w \notin Ordering(j)
    BY <2>0 DEF Finite, Ordering
  <2>3. /\ IsFiniteSet(Ordering(j)')
        /\ Cardinality(Ordering(j)') = IF j = i THEN Cardinality(Ordering(j)) + 1
                                                ELSE Cardinality(Ordering(j))
    BY <2>1, <2>2, FS_AddElement
  <2>4. Load(j)' = orders[j] + Cardinality(Ordering(j)')
    BY <2>0 DEF Load
  <2> QED
    BY <2>3, <2>4, LoadIsNat DEF Load
<1> QED
  BY <1>1 DEF Finite

\* The runs of a job that is open after a step that is no Take: it was open
\* before, and no run was forgotten.
Remembers ==
  \A j \in Jobs : Open(j)' => Open(j) /\ Runs(j)' \in Nat /\ Runs(j) <= Runs(j)'

LEMMA ThrowsRemembers ==
  ASSUME Inv0, NEW w \in Workers, step[w] # "idle", Throws(w), UNCHANGED stalls
  PROVE  Remembers
<1>0. job[w] \in Jobs
  BY DEF Inv0, Types
<1>1. CASE Holds(w, job[w])
  <2>1. state[job[w]] = "active" /\ state'[job[w]] \in {"delayed", "failed"}
    BY <1>0, <1>1 DEF Holds, Inv0, Types, Throws, AttemptFails, Become
  <2>2. attemptsMade'[job[w]] = attemptsMade[job[w]] + 1
    BY <1>0, <1>1 DEF Inv0, Types, Throws, AttemptFails
  <2>3. \A j \in Jobs \ {job[w]} : state'[j] = state[j] /\ attemptsMade'[j] = attemptsMade[j]
    BY <1>0, <1>1 DEF Inv0, Types, Throws, AttemptFails, Become
  <2> QED
    BY <1>0, <2>1, <2>2, <2>3 DEF Remembers, Open, Runs, Inv0, Types
<1>2. CASE ~Holds(w, job[w])
  BY <1>2 DEF Remembers, Open, Runs, Throws, Inv0, Types
<1> QED
  BY <1>1, <1>2

\* A worker that is done, or gone, orders nothing more.
LEMMA SettleLightens ==
  ASSUME Inv0, Finite, NEW w \in Workers, Settle(w), UNCHANGED orders
  PROVE  Lightens
<1>1. \A v \in Workers : step'[v] = "order" => step[v] = "order" /\ job'[v] = job[v]
  BY DEF Inv0, Types, Settle, Goto
<1> QED
  BY <1>1, NoneOrders

LEMMA GotoLightens ==
  ASSUME Inv0, Finite, NEW w \in Workers, NEW s \in Steps \ {"order"}, Goto(w, s),
         UNCHANGED <<job, orders>>
  PROVE  Lightens
<1>1. \A v \in Workers : step'[v] = "order" => step[v] = "order" /\ job'[v] = job[v]
  BY DEF Inv0, Types, Goto
<1> QED
  BY <1>1, NoneOrders

LEMMA OrderServerLightens ==
  ASSUME Inv0, Finite, NEW w \in Workers, OrderServer(w)
  PROVE  Lightens
<1>1. step[w] = "order" /\ orders' = [orders EXCEPT ![job[w]] = @ + 1]
  BY DEF OrderServer
<1>2. \/ Goto(w, "poll") /\ job' = job
      \/ Settle(w)
  BY DEF OrderServer, Throws
<1>3. step'[w] # "order"
  BY <1>2 DEF Goto, Settle, Inv0, Types
<1>4. \A v \in Workers \ {w} : step'[v] = step[v] /\ job'[v] = job[v]
  BY <1>2 DEF Goto, Settle, Inv0, Types
<1> QED
  BY <1>1, <1>3, <1>4, OneOrders

\* Every step but a Take lightens the loads and remembers the runs.
LEMMA StepCounts ==
  ASSUME Inv0, Finite, [Next]_vars
  PROVE  \/ Lightens /\ Remembers
         \/ \E w \in Workers, j \in Jobs : Take(w, j)
<1> USE DeploymentQueueAssumption, NoneAssumption
<1>1. ASSUME NEW j \in Jobs, \/ CreateDeploymentJob(j) \/ CancelRead(j) \/ CancelRemove(j)
                             \/ Promote(j) \/ LockLapses(j) \/ RecoverStalled(j)
      PROVE  Lightens /\ Remembers
  <2>1. UNCHANGED <<step, job, orders>>
    BY <1>1 DEF CreateDeploymentJob, CancelRead, CancelRemove, Promote, LockLapses,
                RecoverStalled, workers, queue
  <2>2. Lightens
    BY <2>1, NoneOrders
  <2>3. \A i \in Jobs :
          /\ attemptsMade'[i] = attemptsMade[i] /\ stalls'[i] \in Nat
          /\ \/ stalls'[i] = stalls[i] /\ state'[i] \in {state[i], "removed"}
             \/ stalls'[i] = stalls[i] /\ state[i] \in {"absent", "delayed"}
                /\ state'[i] = "waiting"
             \/ stalls'[i] = stalls[i] + 1 /\ state[i] = "active"
                /\ state'[i] \in {"waiting", "failed"}
    <3>1. CASE CreateDeploymentJob(j) \/ Promote(j)
      BY <3>1 DEF Inv0, Types, CreateDeploymentJob, Promote, Become
    <3>2. CASE CancelRead(j) \/ LockLapses(j)
      BY <3>2 DEF Inv0, Types, CancelRead, LockLapses, queue
    <3>3. CASE CancelRemove(j)
      BY <3>3 DEF Inv0, Types, CancelRemove, Become
    <3>4. CASE RecoverStalled(j)
      BY <3>4 DEF Inv0, Types, RecoverStalled, Become
    <3> QED
      BY <1>1, <3>1, <3>2, <3>3, <3>4
  <2>4. Remembers
    <3> SUFFICES ASSUME NEW i \in Jobs, Open(i)'
                 PROVE  Open(i) /\ Runs(i)' \in Nat /\ Runs(i) <= Runs(i)'
      BY DEF Remembers
    <3>1. state'[i] # "removed" /\ state'[i] # "failed"
      BY DEF Open
    <3>2. Open(i)
      BY <2>3, <3>1 DEF Open
    <3>3. attemptsMade[i] \in Nat /\ stalls[i] \in Nat
      BY DEF Inv0, Types
    <3>4. Runs(i)' = attemptsMade'[i] + stalls'[i] + (IF state'[i] = "active" THEN 1 ELSE 0)
      BY DEF Runs
    <3> QED
      BY <2>3, <3>1, <3>2, <3>3, <3>4 DEF Runs
  <2> QED
    BY <2>2, <2>4
<1>2. ASSUME NEW w \in Workers, OrderServer(w) PROVE Lightens /\ Remembers
  <2>0. Lightens
    BY <1>2, OrderServerLightens
  <2>1. CASE Goto(w, "poll") /\ UNCHANGED <<queue, job, cutOff>>
    <3>1. UNCHANGED <<state, attemptsMade, stalls>>
      BY <2>1 DEF queue
    <3> QED
      BY <2>0, <3>1 DEF Remembers, Open, Runs, Inv0, Types
  <2>2. CASE Throws(w) /\ UNCHANGED stalls
    <3>1. step[w] # "idle"
      BY <1>2 DEF OrderServer
    <3> QED
      BY <2>0, <2>2, <3>1, ThrowsRemembers
  <2> QED
    BY <1>2, <2>1, <2>2 DEF OrderServer
<1>3. ASSUME NEW w \in Workers, ServerRuns(w) \/ Hang(w) PROVE Lightens /\ Remembers
  <2>1. Lightens
    BY <1>3, GotoLightens DEF ServerRuns, Hang, Steps
  <2>2. Remembers
    BY <1>3 DEF Remembers, Open, Runs, Inv0, Types, ServerRuns, Hang, queue
  <2> QED
    BY <2>1, <2>2
<1>4. ASSUME NEW w \in Workers, Deployed(w) PROVE Lightens /\ Remembers
  <2>1. Lightens
    BY <1>4, SettleLightens DEF Deployed, Returns
  <2>2. \A j \in Jobs : state'[j] = state[j] \/ state'[j] = "completed"
    BY <1>4 DEF Deployed, Returns, Become, Inv0, Types
  <2>3. Remembers
    BY <1>4, <2>2 DEF Remembers, Open, Runs, Inv0, Types, Deployed
  <2> QED
    BY <2>1, <2>3
<1>5. ASSUME NEW w \in Workers, DeployFails(w) PROVE Lightens /\ Remembers
  <2>1. Lightens
    BY <1>5, SettleLightens DEF DeployFails, Throws
  <2>2. Remembers
    BY <1>5, ThrowsRemembers DEF DeployFails
  <2> QED
    BY <2>1, <2>2
<1>6. ASSUME NEW w \in Workers, Crash(w) PROVE Lightens /\ Remembers
  <2>1. Lightens
    BY <1>6, SettleLightens DEF Crash
  <2>2. Remembers
    BY <1>6 DEF Remembers, Open, Runs, Inv0, Types, Crash, queue
  <2> QED
    BY <2>1, <2>2
<1>7. CASE UNCHANGED vars
  <2>1. Lightens
    BY <1>7, NoneOrders DEF vars
  <2>2. Remembers
    BY <1>7 DEF Remembers, Open, Runs, Inv0, Types, vars
  <2> QED
    BY <2>1, <2>2
<1> QED
  BY <1>1, <1>2, <1>3, <1>4, <1>5, <1>6, <1>7 DEF Next, Handler

\* The load of a job is within the bound whatever its state.
LEMMA LoadBounded ==
  ASSUME Inv, NEW j \in Jobs
  PROVE  Load(j) <= MaxAttempts + MaxStalls
<1> USE DeploymentQueueAssumption
<1>1. CASE Open(j)
  <2>1. Runs(j) \in Nat /\ Runs(j) <= MaxAttempts + MaxStalls
    BY <1>1 DEF Inv, Inv0, Types, RunsLeft, Runs
  <2> QED
    BY <1>1, <2>1, LoadIsNat DEF Inv, Counted
<1>2. CASE ~Open(j)
  BY <1>2 DEF Inv, Counted
<1> QED
  BY <1>1, <1>2

LEMMA StepInv == ASSUME Inv, [Next]_vars PROVE Inv'
<1> USE DeploymentQueueAssumption
<1>0. Inv0 /\ Finite /\ Counted /\ Inv0'
  BY StepInv0 DEF Inv
<1>1. CASE Lightens /\ Remembers
  <2>1. ASSUME NEW j \in Jobs
        PROVE  IF Open(j)' THEN Load(j)' <= Runs(j)' ELSE Load(j)' <= MaxAttempts + MaxStalls
    <3>1. Load(j) \in Nat /\ Load(j) <= MaxAttempts + MaxStalls
      BY <1>0, LoadBounded, LoadIsNat
    <3>2. Load(j)' \in Nat /\ Load(j)' <= Load(j)
      BY <1>1 DEF Lightens
    <3>3. CASE Open(j)'
      <4>1. Open(j) /\ Runs(j)' \in Nat /\ Runs(j) <= Runs(j)'
        BY <1>1, <3>3 DEF Remembers
      <4>2. Load(j) <= Runs(j) /\ Runs(j) \in Nat
        BY <1>0, <4>1 DEF Counted, Runs, Inv0, Types
      <4> QED
        BY <3>1, <3>2, <3>3, <4>1, <4>2
    <3>4. CASE ~Open(j)'
      BY <3>1, <3>2, <3>4
    <3> QED
      BY <3>3, <3>4
  <2>2. Counted'
    BY <2>1 DEF Counted
  <2> QED
    BY <1>0, <1>1, <2>2 DEF Inv, Lightens
<1>2. ASSUME NEW w \in Workers, NEW i \in Jobs, Take(w, i)
      PROVE  Inv'
  <2>1. ASSUME NEW j \in Jobs
        PROVE  IF Open(j)' THEN Load(j)' <= Runs(j)' ELSE Load(j)' <= MaxAttempts + MaxStalls
    <3>1. Load(j)' \in Nat /\ Load(j)' = IF j = i THEN Load(j) + 1 ELSE Load(j)
      BY <1>0, <1>2, OneTakes
    <3>2. CASE j = i
      <4>1. Open(j) /\ Open(j)' /\ Runs(j)' = Runs(j) + 1
        BY <1>0, <1>2, <3>2 DEF Take, Become, Open, Runs, Inv0, Types
      <4>2. Load(j) <= Runs(j) /\ Runs(j) \in Nat /\ Load(j) \in Nat
        BY <1>0, <4>1, LoadIsNat DEF Counted, Runs, Inv0, Types
      <4> QED
        BY <3>1, <3>2, <4>1, <4>2
    <3>3. CASE j # i
      <4>1. Open(j)' = Open(j) /\ Runs(j)' = Runs(j)
        BY <1>0, <1>2, <3>3 DEF Take, Become, Open, Runs, Inv0, Types
      <4> QED
        BY <1>0, <3>1, <3>3, <4>1 DEF Counted
    <3> QED
      BY <3>2, <3>3
  <2>2. Counted'
    BY <2>1 DEF Counted
  <2>3. Finite'
    BY <1>0, <1>2, OneTakes
  <2> QED
    BY <1>0, <2>2, <2>3 DEF Inv
<1> QED
  BY <1>0, <1>1, <1>2, StepCounts

LEMMA InitInv == Init => Inv
<1> SUFFICES ASSUME Init PROVE Inv
  OBVIOUS
<1>1. \A j \in Jobs : Ordering(j) = {}
  BY DEF Init, Ordering
<1>2. \A j \in Jobs : IsFiniteSet(Ordering(j)) /\ Cardinality(Ordering(j)) = 0
  BY <1>1, FS_EmptySet
<1>3. Counted
  <2>1. ASSUME NEW j \in Jobs PROVE Open(j) /\ Load(j) <= Runs(j)
    <3>1. state[j] = "absent" /\ attemptsMade[j] = 0 /\ stalls[j] = 0 /\ orders[j] = 0
      BY DEF Init
    <3> QED
      BY <1>2, <3>1 DEF Open, Load, Runs
  <2> QED
    BY <2>1 DEF Counted
<1> QED
  BY <1>2, <1>3, InitInv0 DEF Inv, Finite

LEMMA Invariant == Spec => []Inv
<1>1. Init => Inv
  BY InitInv
<1>2. Inv /\ [Next]_vars => Inv'
  BY StepInv
<1> QED
  BY <1>1, <1>2, PTL DEF Spec

-----------------------------------------------------------------------------
(* What the queue promises *)

\* Every variable keeps its type: a job is given up after MaxAttempts failed
\* attempts and after MaxStalls re-runs (AttemptFails and RecoverStalled).
THEOREM TypeCorrect == Spec => []TypeOK
<1>1. Inv0 => TypeOK
  BY DeploymentQueueAssumption DEF Inv0, Types, RunsLeft, TypeOK
<1> QED
  BY <1>1, InvariantInv0, PTL

\* However often workers fail, die or are cut off, a job orders no more servers
\* than it has attempts and re-runs.
THEOREM OrdersBoundedHolds == Spec => []OrdersBounded
<1>1. Inv => OrdersBounded
  <2> SUFFICES ASSUME Inv, NEW j \in Jobs PROVE orders[j] <= MaxAttempts + MaxStalls
    BY DEF OrdersBounded
  <2>1. /\ orders[j] \in Nat /\ Cardinality(Ordering(j)) \in Nat
        /\ orders[j] + Cardinality(Ordering(j)) <= MaxAttempts + MaxStalls
    BY LoadIsNat, LoadBounded DEF Inv, Load
  <2> QED
    BY <2>1, DeploymentQueueAssumption
<1> QED
  BY <1>1, Invariant, PTL

\* Servers are ordered for a job only by the worker that holds its lock, or by
\* one that was cut off from Redis.
THEOREM OrdersUnderLockHolds == Spec => OrdersUnderLock
<1>1. Inv0 => \A w \in Workers : OrderServer(w) => Holds(w, job[w]) \/ w \in cutOff
  BY DEF Inv0, LocksKept, OrderServer
<1> QED
  BY <1>1, InvariantInv0, PTL DEF OrdersUnderLock

=============================================================================
