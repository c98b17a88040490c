------------------------------ MODULE Payment ------------------------------
(***************************************************************************)
(* Payment transactions of the payroll product (paylinq): initiation,      *)
(* processing, failure, retry and the scheduled-payments job.              *)
(*                                                                         *)
(* Every statement PaymentRepository sends is a transaction of its own, so *)
(* the handlers of two requests interleave at each await: a handler that   *)
(* reads the row, decides and then writes is three steps apart from the    *)
(* database, and its write (WHERE id = ...) does not look at the status    *)
(* again. A worker is one request in flight or one run of the scheduled    *)
(* job; pc[w] is the await it stands at.                                   *)
(***************************************************************************)
EXTENDS Integers

CONSTANTS
  Payments,        \* rows of payroll.payment_transaction
  Workers,         \* request handlers and scheduled jobs that may run at once
  Due,             \* payments whose scheduled_date has come
  MaxRetries,      \* the limit retryPayment enforces (3 in the code)
  ManualStatuses,  \* statuses callers of updatePaymentStatus write
  ManualCounts,    \* retry counts callers give along with "failed"
  MaxFailures,     \* bound: failures recorded per payment in a run
  MaxOpenings,     \* bound: openings up to which a caller reopens a payment
  MaxGranted       \* bound: attempts callers grant per payment

Statuses == {"pending", "processing", "processed", "failed", "cancelled", "reconciled"}

ASSUME PaymentAssumption ==
  /\ Due \subseteq Payments
  /\ MaxRetries \in Nat \ {0}
  /\ ManualStatuses \subseteq Statuses
  /\ ManualCounts \subseteq Nat
  /\ MaxFailures \in Nat /\ MaxOpenings \in Nat /\ MaxGranted \in Nat

VARIABLES
  status,      \* payment_status of each row, "absent" before the INSERT
  retryCount,  \* retry_count of each row
  pc,          \* where each worker stands
  target,      \* the payment the worker is busy with
  cron,        \* is the worker running processScheduledPayments?
  todo,        \* what is left of the list the scheduled job read
  opened,      \* history: how often the row was made pending
  paidBy,      \* history: how often a worker marked the payment processed
  resetBy,     \* history: how often a worker's retry made it pending again
  granted,     \* history: failures callers wrote that retry_count does not show
  since        \* history: payments that went out behind a scheduled job's back
               \* since it read its list

rows    == <<status, retryCount>>
worker  == <<pc, target, cron, todo>>
history == <<opened, paidBy, resetBy, granted, since>>
vars    == <<status, retryCount, pc, target, cron, todo, opened, paidBy, resetBy,
             granted, since>>

TypeOK ==
  /\ status \in [Payments -> Statuses \union {"absent"}]
  /\ retryCount \in [Payments -> Nat]
  /\ pc \in [Workers -> {"idle", "write", "reset", "reread", "loop", "fail"}]
  /\ target \in [Workers -> Payments]
  /\ cron \in [Workers -> BOOLEAN]
  /\ todo \in [Workers -> SUBSET Payments]
  /\ opened \in [Payments -> Nat]
  /\ paidBy \in [Workers -> [Payments -> Nat]]
  /\ resetBy \in [Workers -> [Payments -> Nat]]
  /\ granted \in [Payments -> Nat]
  /\ since \in [Workers -> SUBSET Payments]

Init ==
  /\ status = [p \in Payments |-> "absent"]
  /\ retryCount = [p \in Payments |-> 0]
  /\ pc = [w \in Workers |-> "idle"]
  /\ target \in [Workers -> Payments]
  /\ cron = [w \in Workers |-> FALSE]
  /\ todo = [w \in Workers |-> {}]
  /\ opened = [p \in Payments |-> 0]
  /\ paidBy = [w \in Workers |-> [p \in Payments |-> 0]]
  /\ resetBy = [w \in Workers |-> [p \in Payments |-> 0]]
  /\ granted = [p \in Payments |-> 0]
  /\ since = [w \in Workers |-> {}]

-----------------------------------------------------------------------------
(* Helpers *)

Goto(w, there) == pc' = [pc EXCEPT ![w] = there]

\* The UPDATE of payment_status, and the column history keeps of it.
SetStatus(p, s) == status' = [status EXCEPT ![p] = s]

\* After processPayment returned: the scheduled job goes on with its list, a
\* request answers its client.
AfterProcess(w) == IF cron[w] THEN "loop" ELSE "idle"

\* After processPayment threw: the scheduled job records a failure, a request
\* answers its client with the error.
AfterThrow(w) == IF cron[w] THEN "fail" ELSE "idle"

\* History: p has gone out without the scheduled jobs among W knowing of it.
GoesOutBehind(W, p) ==
  since' = [v \in Workers |-> IF v \in W /\ cron[v] THEN since[v] \union {p} ELSE since[v]]

-----------------------------------------------------------------------------
(* Handlers of a single statement *)

\* initiatePayment / bulkInitiatePayments: the INSERT of a pending row.
InitiatePayment(p) ==
  /\ status[p] = "absent"
  /\ SetStatus(p, "pending")
  /\ opened' = [opened EXCEPT ![p] = @ + 1]
  /\ UNCHANGED <<retryCount, worker, paidBy, resetBy, granted, since>>

\* Plausible bug: retry_count as a countdown of what is left.
BugFailureCountsDown(p) ==
  /\ status[p] # "absent"
  /\ retryCount[p] < MaxFailures
  /\ SetStatus(p, "failed")
  /\ retryCount' = [retryCount EXCEPT ![p] = @ - 1]

\* handlePaymentFailure: failed and retry_count + 1, whatever the status was.
RecordPaymentFailure(p) ==
  /\ status[p] # "absent"
  /\ retryCount[p] < MaxFailures
  /\ SetStatus(p, "failed")
  /\ retryCount' = [retryCount EXCEPT ![p] = @ + 1]

HandlePaymentFailure(p) ==
  /\ RecordPaymentFailure(p)
  /\ UNCHANGED <<worker, history>>

\* reconcilePayment: reconciled, whatever the status was.
ReconcilePayment(p) ==
  /\ status[p] # "absent"
  /\ SetStatus(p, "reconciled")
  /\ UNCHANGED <<retryCount, worker, history>>

\* updatePaymentStatus with a status of the caller's choice, whatever the
\* status was: "failed" sets retry_count only if the caller gives one, and then
\* to any number.
UpdatePaymentStatus(p, s) ==
  /\ status[p] # "absent"
  /\ SetStatus(p, s)
  /\ \E n \in {retryCount[p]} \union (IF s = "failed" THEN ManualCounts ELSE {}) :
       /\ retryCount' = [retryCount EXCEPT ![p] = n]
       /\ granted' = [granted EXCEPT ![p] =
            @ + (IF s = "failed" /\ n <= retryCount[p] THEN retryCount[p] + 1 - n ELSE 0)]
       /\ granted'[p] <= MaxGranted
  /\ s = "pending" => opened[p] < MaxOpenings
  /\ opened' = [opened EXCEPT ![p] = @ + (IF s = "pending" THEN 1 ELSE 0)]
  /\ GoesOutBehind(IF s = "processed" THEN Workers ELSE {}, p)
  /\ UNCHANGED <<worker, paidBy, resetBy>>

-----------------------------------------------------------------------------
(* processPayment: read, require pending, write processed *)

\* Plausible bug: the status check left out.
BugProcessAnyStatus(w, p) ==
  /\ pc[w] = "idle"
  /\ status[p] # "absent"
  /\ Goto(w, "write")
  /\ target' = [target EXCEPT ![w] = p]
  /\ UNCHANGED <<rows, cron, todo, history>>

\* The read. A row that is not pending ends the request with an error and
\* changes nothing.
ProcessRead(w, p) ==
  /\ pc[w] = "idle"
  /\ status[p] = "pending"
  /\ Goto(w, "write")
  /\ target' = [target EXCEPT ![w] = p]
  /\ UNCHANGED <<rows, cron, todo, history>>

\* The write, with a fresh processor transaction id: the money goes out.
ProcessWrite(w) ==
  /\ pc[w] = "write"
  /\ SetStatus(target[w], "processed")
  /\ paidBy' = [paidBy EXCEPT ![w][target[w]] = @ + 1]
  /\ GoesOutBehind(Workers \ {w}, target[w])
  /\ Goto(w, AfterProcess(w))
  /\ UNCHANGED <<retryCount, target, cron, todo, opened, resetBy, granted>>

\* The write is committed but its answer is lost: processPayment throws although
\* the money goes out, and the scheduled job takes it for a failure.
ProcessWriteUnanswered(w) ==
  /\ pc[w] = "write"
  /\ SetStatus(target[w], "processed")
  /\ paidBy' = [paidBy EXCEPT ![w][target[w]] = @ + 1]
  /\ GoesOutBehind(Workers, target[w])
  /\ Goto(w, AfterThrow(w))
  /\ UNCHANGED <<retryCount, target, cron, todo, opened, resetBy, granted>>

\* The write is rejected by the database and processPayment throws.
ProcessWriteError(w) ==
  /\ pc[w] = "write"
  /\ Goto(w, AfterThrow(w))
  /\ UNCHANGED <<rows, target, cron, todo, history>>

-----------------------------------------------------------------------------
(* retryPayment: read, require failed and retries left, write pending,     *)
(* then processPayment from its own read on                                *)

\* Plausible bug: one retry too many (> instead of >= in the limit).
BugRetryAtLimit(w, p) ==
  /\ pc[w] = "idle"
  /\ status[p] = "failed"
  /\ retryCount[p] <= MaxRetries
  /\ Goto(w, "reset")
  /\ target' = [target EXCEPT ![w] = p]
  /\ UNCHANGED <<rows, cron, todo, history>>

RetryRead(w, p) ==
  /\ pc[w] = "idle"
  /\ status[p] = "failed"
  /\ retryCount[p] < MaxRetries
  /\ Goto(w, "reset")
  /\ target' = [target EXCEPT ![w] = p]
  /\ UNCHANGED <<rows, cron, todo, history>>

RetryReset(w) ==
  /\ pc[w] = "reset"
  /\ SetStatus(target[w], "pending")
  /\ opened' = [opened EXCEPT ![target[w]] = @ + 1]
  /\ resetBy' = [resetBy EXCEPT ![w][target[w]] = @ + 1]
  /\ Goto(w, "reread")
  /\ UNCHANGED <<retryCount, target, cron, todo, paidBy, granted, since>>

RetryProcessRead(w) ==
  /\ pc[w] = "reread"
  /\ Goto(w, IF status[target[w]] = "pending" THEN "write" ELSE "idle")
  /\ UNCHANGED <<rows, target, cron, todo, history>>

-----------------------------------------------------------------------------
(* processScheduledPayments: list what is pending and due, then process    *)
(* one after the other; what cannot be processed is recorded as failed     *)

\* Plausible bug: the list is not restricted to pending payments.
BugListEverythingDue(w) ==
  /\ pc[w] = "idle"
  /\ todo' = [todo EXCEPT ![w] = {p \in Due : status[p] # "absent"}]
  /\ cron' = [cron EXCEPT ![w] = TRUE]
  /\ since' = [since EXCEPT ![w] = {}]
  /\ Goto(w, "loop")
  /\ UNCHANGED <<rows, target, opened, paidBy, resetBy, granted>>

ScheduledList(w) ==
  /\ pc[w] = "idle"
  /\ todo' = [todo EXCEPT ![w] = {p \in Due : status[p] = "pending"}]
  /\ cron' = [cron EXCEPT ![w] = TRUE]
  /\ since' = [since EXCEPT ![w] = {}]
  /\ Goto(w, "loop")
  /\ UNCHANGED <<rows, target, opened, paidBy, resetBy, granted>>

ScheduledVisit(w, p) ==
  /\ pc[w] = "loop"
  /\ p \in todo[w]
  /\ todo' = [todo EXCEPT ![w] = @ \ {p}]
  /\ target' = [target EXCEPT ![w] = p]
  /\ Goto(w, IF status[p] = "pending" THEN "write" ELSE AfterThrow(w))
  /\ UNCHANGED <<rows, cron, history>>

ScheduledFailure(w) ==
  /\ pc[w] = "fail"
  /\ RecordPaymentFailure(target[w])
  /\ Goto(w, "loop")
  /\ UNCHANGED <<target, cron, todo, history>>

ScheduledDone(w) ==
  /\ pc[w] = "loop"
  /\ todo[w] = {}
  /\ cron' = [cron EXCEPT ![w] = FALSE]
  /\ Goto(w, "idle")
  /\ UNCHANGED <<rows, target, todo, history>>

\* A worker stops where it stands: its process dies, or a statement outside
\* processPayment is rejected and the error leaves the handler. For the
\* scheduled job this includes a failure that could not be recorded: the throw
\* inside the catch block ends the whole loop.
Abort(w) ==
  /\ pc[w] # "idle"
  /\ Goto(w, "idle")
  /\ cron' = [cron EXCEPT ![w] = FALSE]
  /\ todo' = [todo EXCEPT ![w] = {}]
  /\ UNCHANGED <<rows, target, history>>

-----------------------------------------------------------------------------
Environment ==
  \E p \in Payments :
    \/ InitiatePayment(p)
    \/ HandlePaymentFailure(p)
    \/ ReconcilePayment(p)
    \/ \E s \in ManualStatuses : UpdatePaymentStatus(p, s)

Worker(w) ==
  \/ \E p \in Payments : ProcessRead(w, p) \/ RetryRead(w, p) \/ ScheduledVisit(w, p)
  \/ ProcessWrite(w) \/ ProcessWriteUnanswered(w) \/ ProcessWriteError(w)
  \/ RetryReset(w) \/ RetryProcessRead(w)
  \/ ScheduledList(w) \/ ScheduledFailure(w) \/ ScheduledDone(w)
  \/ Abort(w)

Next == Environment \/ \E w \in Workers : Worker(w)

Spec == Init /\ [][Next]_vars

-----------------------------------------------------------------------------
(* Properties *)

\* However many handlers and scheduled jobs race, one of them marks a payment
\* processed at most once for each time the row was made pending: the re-read
\* in processPayment protects a worker from its own earlier write, also across
\* its retries and aborted runs.
PaidOncePerOpening ==
  \A w \in Workers, p \in Payments : paidBy[w][p] <= opened[p]

\* However its retries race with failures, other retries, callers who set the
\* status or the count and the scheduled job, one worker makes a failed payment
\* pending again fewer than MaxRetries times, but for the failures that callers
\* wrote without counting them: the count a worker compared is never older than
\* the failure it retries.
RetryBudget ==
  \A w \in Workers, p \in Payments : resetBy[w][p] < MaxRetries + granted[p]

\* The scheduled job never records a failure on a payment that had gone out
\* before it listed what is pending, nor on one it has paid and knows to have
\* paid: a processed payment it fails went out during its run by another worker,
\* a caller of updatePaymentStatus, or a write of its own whose answer was lost.
ScheduledJobFailsNoPaidPayment ==
  [][\A w \in Workers :
       ScheduledFailure(w) /\ status[target[w]] = "processed" => target[w] \in since[w]]_vars

=============================================================================
