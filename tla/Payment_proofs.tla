--------------------------- MODULE Payment_proofs ---------------------------
(***************************************************************************)
(* For any number of payments, workers, retries and failures: type         *)
(* correctness of Payment, the two limits that survive every race, and     *)
(* what the scheduled job does to payments that are paid already.          *)
(***************************************************************************)
EXTENDS Payment, TLAPS

\* While a payment is pending, or a worker that read it as pending has not
\* written yet, that worker still has an opening of it left to use.
OpeningLeft ==
  \A w \in Workers, p \in Payments :
    status[p] = "pending" \/ (pc[w] = "write" /\ target[w] = p)
      => paidBy[w][p] < opened[p]

\* A worker's retries of a payment never outnumber its failures, counted or
\* written by a caller; a failed payment, or one a worker is about to reset, has
\* a failure left to retry.
FailureLeft ==
  \A w \in Workers, p \in Payments :
    /\ resetBy[w][p] <= retryCount[p] + granted[p]
    /\ status[p] = "failed" => resetBy[w][p] < retryCount[p] + granted[p]
    /\ pc[w] = "reset" /\ target[w] = p =>
         /\ resetBy[w][p] < retryCount[p] + granted[p]
         /\ resetBy[w][p] + 1 < MaxRetries + granted[p]

IInv == TypeOK /\ PaidOncePerOpening /\ OpeningLeft /\ RetryBudget /\ FailureLeft

-----------------------------------------------------------------------------
LEMMA InitIInv == Init => IInv
  BY PaymentAssumption
  DEF Init, IInv, TypeOK, PaidOncePerOpening, OpeningLeft, RetryBudget, FailureLeft, Statuses

LEMMA NextIInv == IInv /\ [Next]_vars => IInv'
<1> SUFFICES ASSUME IInv, [Next]_vars PROVE IInv'
  OBVIOUS
<1> USE PaymentAssumption DEF IInv, TypeOK, PaidOncePerOpening, OpeningLeft, RetryBudget,
        FailureLeft, Statuses, SetStatus, Goto, GoesOutBehind, rows, worker, history
<1>1. ASSUME NEW p \in Payments, InitiatePayment(p) PROVE IInv'
  BY <1>1 DEF InitiatePayment
<1>2. ASSUME NEW p \in Payments, HandlePaymentFailure(p) PROVE IInv'
  BY <1>2 DEF HandlePaymentFailure, RecordPaymentFailure
<1>3. ASSUME NEW p \in Payments, ReconcilePayment(p) PROVE IInv'
  BY <1>3 DEF ReconcilePayment
<1>4. ASSUME NEW p \in Payments, NEW s \in ManualStatuses, UpdatePaymentStatus(p, s) PROVE IInv'
  BY <1>4 DEF UpdatePaymentStatus
<1>5. ASSUME NEW w \in Workers, NEW p \in Payments, ProcessRead(w, p) PROVE IInv'
  BY <1>5 DEF ProcessRead
<1>6. ASSUME NEW w \in Workers, ProcessWrite(w) PROVE IInv'
  BY <1>6 DEF ProcessWrite, AfterProcess
<1>17. ASSUME NEW w \in Workers, ProcessWriteUnanswered(w) PROVE IInv'
  BY <1>17 DEF ProcessWriteUnanswered, AfterThrow
<1>7. ASSUME NEW w \in Workers, ProcessWriteError(w) PROVE IInv'
  BY <1>7 DEF ProcessWriteError, AfterThrow
<1>8. ASSUME NEW w \in Workers, NEW p \in Payments, RetryRead(w, p) PROVE IInv'
  BY <1>8 DEF RetryRead
<1>9. ASSUME NEW w \in Workers, RetryReset(w) PROVE IInv'
  BY <1>9 DEF RetryReset
<1>10. ASSUME NEW w \in Workers, RetryProcessRead(w) PROVE IInv'
  BY <1>10 DEF RetryProcessRead
<1>11. ASSUME NEW w \in Workers, ScheduledList(w) PROVE IInv'
  BY <1>11 DEF ScheduledList
<1>12. ASSUME NEW w \in Workers, NEW p \in Payments, ScheduledVisit(w, p) PROVE IInv'
  BY <1>12 DEF ScheduledVisit, AfterThrow
<1>13. ASSUME NEW w \in Workers, ScheduledFailure(w) PROVE IInv'
  BY <1>13 DEF ScheduledFailure, RecordPaymentFailure
<1>14. ASSUME NEW w \in Workers, ScheduledDone(w) PROVE IInv'
  BY <1>14 DEF ScheduledDone
<1>15. ASSUME NEW w \in Workers, Abort(w) PROVE IInv'
  BY <1>15 DEF Abort
<1>16. CASE UNCHANGED vars
  BY <1>16 DEF vars
<1>18. QED
  BY <1>1, <1>2, <1>3, <1>4, <1>5, <1>6, <1>7, <1>8, <1>9, <1>10, <1>11, <1>12, <1>13,
     <1>14, <1>15, <1>16, <1>17 DEF Next, Environment, Worker

LEMMA SpecIInv == Spec => []IInv
  BY InitIInv, NextIInv, PTL DEF Spec

\* Every variable keeps its type, for any payments and workers.
THEOREM TypeCorrect == Spec => []TypeOK
<1>1. IInv => TypeOK
  BY DEF IInv
<1>2. QED
  BY <1>1, SpecIInv, PTL

\* No handler or scheduled job marks a payment processed more often than the
\* payment was made pending (processPayment against itself, retryPayment and
\* processScheduledPayments).
THEOREM PaidOncePerOpeningHolds == Spec => []PaidOncePerOpening
<1>1. IInv => PaidOncePerOpening
  BY DEF IInv
<1>2. QED
  BY <1>1, SpecIInv, PTL

\* No handler retries a payment MaxRetries times or more, but for the failures
\* callers wrote without counting them (retryPayment, updatePaymentStatus).
THEOREM RetryBudgetHolds == Spec => []RetryBudget
<1>1. IInv => RetryBudget
  BY DEF IInv
<1>2. QED
  BY <1>1, SpecIInv, PTL

-----------------------------------------------------------------------------
(* The scheduled job *)

\* Only the scheduled job has a list and records failures; a payment it works
\* on has left the list.
JobsOnly ==
  \A w \in Workers :
    /\ pc[w] \in {"idle", "reset", "reread"} => ~cron[w]
    /\ pc[w] \in {"loop", "fail"} => cron[w]
    /\ ~cron[w] => todo[w] = {}
    /\ pc[w] \in {"write", "fail"} => target[w] \notin todo[w]

\* The payments a scheduled job has yet to pay.
Ahead(w, p) ==
  p \in todo[w] \/ (cron[w] /\ pc[w] \in {"write", "fail"} /\ target[w] = p)

\* What a job has listed is not processed before the job knows to have paid it,
\* unless it went out behind the job's back.
AheadIsUnpaid ==
  \A w \in Workers, p \in Payments :
    Ahead(w, p) /\ p \notin since[w] => status[p] # "processed"

JobsInv == JobsOnly /\ AheadIsUnpaid

LEMMA NextJobsInv == IInv /\ JobsInv /\ [Next]_vars => JobsInv'
<1> SUFFICES ASSUME IInv, JobsInv, [Next]_vars PROVE JobsInv'
  OBVIOUS
<1> USE PaymentAssumption DEF IInv, TypeOK, JobsInv, Statuses, SetStatus, Goto, rows, worker, history
<1>1. ASSUME NEW p \in Payments, InitiatePayment(p) \/ HandlePaymentFailure(p) \/ ReconcilePayment(p) PROVE JobsInv'
  <2>1. JobsOnly'
    BY <1>1 DEF JobsOnly, InitiatePayment, HandlePaymentFailure, RecordPaymentFailure, ReconcilePayment
  <2>2. AheadIsUnpaid'
    BY <1>1 DEF JobsOnly, AheadIsUnpaid, Ahead, InitiatePayment, HandlePaymentFailure, RecordPaymentFailure, ReconcilePayment
  <2> QED
    BY <2>1, <2>2
<1>2. ASSUME NEW p \in Payments, NEW s \in ManualStatuses, UpdatePaymentStatus(p, s) PROVE JobsInv'
  <2>1. UNCHANGED <<pc, target, cron, todo>> /\ status' = [status EXCEPT ![p] = s]
        /\ GoesOutBehind(IF s = "processed" THEN Workers ELSE {}, p)
    BY <1>2, Zenon DEF UpdatePaymentStatus
  <2>2. JobsOnly'
    BY <2>1 DEF JobsOnly
  <2>3. ASSUME NEW v \in Workers, NEW q \in Payments, Ahead(v, q)', q \notin since'[v]
        PROVE  status'[q] # "processed"
    <3>1. Ahead(v, q)
      BY <2>1, <2>3 DEF Ahead
    <3>2. cron[v]
      BY <3>1, Zenon DEF Ahead, JobsOnly
    <3>3. q \notin since[v] /\ (q = p => s # "processed")
      BY <2>1, <2>3, <3>2 DEF GoesOutBehind
    <3> QED
      BY <2>1, <3>1, <3>3 DEF AheadIsUnpaid
  <2> QED
    BY <2>2, <2>3 DEF AheadIsUnpaid
<1>3. ASSUME NEW w \in Workers, NEW p \in Payments, ProcessRead(w, p) \/ RetryRead(w, p) PROVE JobsInv'
  <2>1. JobsOnly'
    BY <1>3 DEF JobsOnly, ProcessRead, RetryRead
  <2>2. AheadIsUnpaid'
    BY <1>3 DEF JobsOnly, AheadIsUnpaid, Ahead, ProcessRead, RetryRead
  <2> QED
    BY <2>1, <2>2
<1>4. ASSUME NEW w \in Workers, ProcessWrite(w) PROVE JobsInv'
  <2>1. JobsOnly'
    BY <1>4 DEF JobsOnly, ProcessWrite, AfterProcess
  <2>2. ASSUME NEW v \in Workers, NEW p \in Payments, Ahead(v, p)', p \notin since'[v]
        PROVE  status'[p] # "processed"
    <3>1. Ahead(v, p)
      BY <1>4, <2>2 DEF Ahead, ProcessWrite, AfterProcess
    <3>2. cron[v]
      BY <3>1, Zenon DEF Ahead, JobsOnly
    <3>3. p # target[w]
      BY <1>4, <2>2, <3>2 DEF ProcessWrite, AfterProcess, GoesOutBehind, Ahead, JobsOnly
    <3>4. p \notin since[v]
      BY <1>4, <2>2, <3>2 DEF ProcessWrite, GoesOutBehind
    <3>5. status'[p] = status[p]
      BY <1>4, <3>3 DEF ProcessWrite
    <3> QED
      BY <3>1, <3>4, <3>5 DEF AheadIsUnpaid
  <2> QED
    BY <2>1, <2>2 DEF AheadIsUnpaid
<1>13. ASSUME NEW w \in Workers, ProcessWriteUnanswered(w) PROVE JobsInv'
  <2>1. JobsOnly'
    BY <1>13 DEF JobsOnly, ProcessWriteUnanswered, AfterThrow
  <2>2. ASSUME NEW v \in Workers, NEW p \in Payments, Ahead(v, p)', p \notin since'[v]
        PROVE  status'[p] # "processed"
    <3>1. Ahead(v, p)
      BY <1>13, <2>2 DEF Ahead, ProcessWriteUnanswered, AfterThrow
    <3>2. cron[v]
      BY <3>1, Zenon DEF Ahead, JobsOnly
    <3>3. p # target[w]
      BY <1>13, <2>2, <3>2 DEF ProcessWriteUnanswered, AfterThrow, GoesOutBehind, Ahead, JobsOnly
    <3>4. p \notin since[v]
      BY <1>13, <2>2, <3>2 DEF ProcessWriteUnanswered, GoesOutBehind
    <3>5. status'[p] = status[p]
      BY <1>13, <3>3 DEF ProcessWriteUnanswered
    <3> QED
      BY <3>1, <3>4, <3>5 DEF AheadIsUnpaid
  <2> QED
    BY <2>1, <2>2 DEF AheadIsUnpaid
<1>5. ASSUME NEW w \in Workers, ProcessWriteError(w) PROVE JobsInv'
  <2>1. JobsOnly'
    BY <1>5 DEF JobsOnly, ProcessWriteError, AfterThrow
  <2>2. AheadIsUnpaid'
    BY <1>5 DEF JobsOnly, AheadIsUnpaid, Ahead, ProcessWriteError, AfterThrow
  <2> QED
    BY <2>1, <2>2
<1>6. ASSUME NEW w \in Workers, RetryReset(w) PROVE JobsInv'
  <2>1. JobsOnly'
    BY <1>6 DEF JobsOnly, RetryReset
  <2>2. AheadIsUnpaid'
    BY <1>6 DEF JobsOnly, AheadIsUnpaid, Ahead, RetryReset
  <2> QED
    BY <2>1, <2>2
<1>7. ASSUME NEW w \in Workers, RetryProcessRead(w) PROVE JobsInv'
  <2>1. JobsOnly'
    BY <1>7 DEF JobsOnly, RetryProcessRead
  <2>2. AheadIsUnpaid'
    BY <1>7 DEF JobsOnly, AheadIsUnpaid, Ahead, RetryProcessRead
  <2> QED
    BY <2>1, <2>2
<1>8. ASSUME NEW w \in Workers, ScheduledList(w) PROVE JobsInv'
  <2>1. JobsOnly'
    BY <1>8 DEF JobsOnly, ScheduledList
  <2>2. AheadIsUnpaid'
    BY <1>8 DEF JobsOnly, AheadIsUnpaid, Ahead, ScheduledList
  <2> QED
    BY <2>1, <2>2
<1>9. ASSUME NEW w \in Workers, NEW p \in Payments, ScheduledVisit(w, p) PROVE JobsInv'
  <2>1. JobsOnly'
    BY <1>9 DEF JobsOnly, ScheduledVisit, AfterThrow
  <2>2. AheadIsUnpaid'
    BY <1>9 DEF JobsOnly, AheadIsUnpaid, Ahead, ScheduledVisit, AfterThrow
  <2> QED
    BY <2>1, <2>2
<1>10. ASSUME NEW w \in Workers, ScheduledFailure(w) PROVE JobsInv'
  <2>1. JobsOnly'
    BY <1>10 DEF JobsOnly, ScheduledFailure, RecordPaymentFailure
  <2>2. AheadIsUnpaid'
    BY <1>10 DEF JobsOnly, AheadIsUnpaid, Ahead, ScheduledFailure, RecordPaymentFailure
  <2> QED
    BY <2>1, <2>2
<1>11. ASSUME NEW w \in Workers, ScheduledDone(w) \/ Abort(w) PROVE JobsInv'
  <2>1. JobsOnly'
    <3>1. CASE ScheduledDone(w)
      BY <3>1 DEF JobsOnly, ScheduledDone
    <3>2. CASE Abort(w)
      <4>1. /\ pc'[w] = "idle" /\ ~cron'[w] /\ todo'[w] = {}
            /\ UNCHANGED target
            /\ \A v \in Workers \ {w} :
                 pc'[v] = pc[v] /\ todo'[v] = todo[v] /\ cron'[v] = cron[v]
        BY <3>2, Zenon DEF Abort
      <4>2. ASSUME NEW v \in Workers \ {w}
            PROVE  /\ pc'[v] \in {"idle", "reset", "reread"} => ~cron'[v]
                   /\ pc'[v] \in {"loop", "fail"} => cron'[v]
                   /\ ~cron'[v] => todo'[v] = {}
                   /\ pc'[v] \in {"write", "fail"} => target'[v] \notin todo'[v]
        BY <4>1, Zenon DEF JobsOnly
      <4> QED
        BY <4>1, <4>2 DEF JobsOnly
    <3> QED
      BY <1>11, <3>1, <3>2
  <2>2. AheadIsUnpaid'
    <3>1. UNCHANGED <<status, since>>
      BY <1>11, Zenon DEF ScheduledDone, Abort
    <3>2. ASSUME NEW v \in Workers, NEW p \in Payments, Ahead(v, p)' PROVE Ahead(v, p)
      <4>1. CASE ScheduledDone(w)
        BY <3>2, <4>1 DEF Ahead, ScheduledDone
      <4>2. CASE Abort(w)
        BY <3>2, <4>2 DEF Ahead, Abort
      <4> QED
        BY <1>11, <4>1, <4>2
    <3> QED
      BY <3>1, <3>2 DEF AheadIsUnpaid
  <2> QED
    BY <2>1, <2>2
<1>12. CASE UNCHANGED vars
  BY <1>12 DEF vars, JobsOnly, AheadIsUnpaid, Ahead
<1> QED
  BY <1>1, <1>2, <1>3, <1>4, <1>5, <1>6, <1>7, <1>8, <1>9, <1>10, <1>11, <1>12, <1>13
     DEF Next, Environment, Worker

\* A scheduled job records a failure on a processed payment only if that payment
\* went out behind its back since it read its list (processScheduledPayments:
\* what it knows to have paid it does not visit again, and what was paid before
\* it does not list).
THEOREM ScheduledJobFailsNoPaidPaymentHolds == Spec => ScheduledJobFailsNoPaidPayment
<1>1. Init => JobsInv
  BY DEF Init, JobsInv, JobsOnly, AheadIsUnpaid, Ahead
<1>2. IInv /\ JobsInv =>
        \A w \in Workers :
          ScheduledFailure(w) /\ status[target[w]] = "processed" => target[w] \in since[w]
  BY DEF IInv, TypeOK, JobsInv, JobsOnly, AheadIsUnpaid, Ahead, ScheduledFailure
<1> QED
  BY <1>1, <1>2, SpecIInv, NextJobsInv, PTL DEF Spec, ScheduledJobFailsNoPaidPayment

=============================================================================
