----------------------------- MODULE PayrollRun -----------------------------
(***************************************************************************)
(* One payroll run (payroll.payroll_run) with its paychecks: calculation,  *)
(* review, approval, cancellation, deletion, and the operations on single  *)
(* paychecks, as the requests of PayrollService.                           *)
(*                                                                         *)
(* Every SQL statement commits on its own, so a request is a sequence of   *)
(* awaits between which other requests run; pc says at which await it      *)
(* stands. The writes are UPDATE ... WHERE id = ... AND deleted_at IS NULL *)
(* and do not look at the status again. Amounts are abstracted: of the     *)
(* totals only the number of employees counted is kept.                    *)
(***************************************************************************)
EXTENDS Integers, Sequences, FiniteSets

CONSTANTS
  Requests,       \* requests that may be in flight at once
  Listing,        \* the employee on each row of the query of findByOrganization,
                  \* in its order, before the LIMIT: the LEFT JOIN names an active
                  \* employee once for each current compensation, at least once
  PageLimit,      \* rows findByOrganization returns (10 in the code)
  Operations,     \* operations clients use in this instance
  RunUpdates,     \* statuses clients write with PUT /payroll-runs/:id
  CheckUpdates,   \* statuses clients write with PUT /paychecks/:id
  Faults,         \* "crash": a request may stop at any await;
                  \* "employee": one employee's calculation may throw
  MaxPaychecks    \* bound: rows ever inserted into payroll.paycheck

RunStatuses == {"draft", "calculating", "calculated", "approved", "processing",
                "processed", "cancelled"}
CheckStatuses == {"pending", "draft", "approved", "paid", "voided"}
Lines == 1..Len(Listing)
Employees == {Listing[l] : l \in Lines}
Rows == 1..MaxPaychecks
Died == 0                        \* in failed, no line: a calculation died half-way

ASSUME PayrollRunAssumption ==
  /\ Listing \in Seq(Nat) /\ Listing # <<>>
  /\ PageLimit \in Nat
  /\ RunUpdates \subseteq RunStatuses
  /\ CheckUpdates \subseteq CheckStatuses
  /\ MaxPaychecks \in Nat

VARIABLES
  status, deleted, summary,          \* the run: status, deleted_at set, total_employees
  row, line, checkStatus, complete,  \* the paychecks, by row: "absent" before the INSERT,
                                     \* "gone" once hard-deleted; the line of the list
                                     \* it pays; all components stored?
  pc, todo, counted, check, process, \* what each request remembers between awaits
  failed                             \* history: lines a calculation went past
                                     \* with an error, or left behind when it died,
                                     \* since the last one began

runRow   == <<status, deleted, summary>>
checks   == <<row, line, checkStatus, complete>>
locals   == <<todo, counted, check, process>>
requests == <<pc, todo, counted, check, process>>
vars     == <<status, deleted, summary, row, line, checkStatus, complete,
              pc, todo, counted, check, process, failed>>

RunTypeOK == status \in RunStatuses /\ deleted \in BOOLEAN /\ summary \in Nat

ChecksTypeOK ==
  /\ row \in [Rows -> {"absent", "live", "deleted", "gone"}]
  /\ line \in [Rows -> Lines]
  /\ checkStatus \in [Rows -> CheckStatuses]
  /\ complete \in [Rows -> BOOLEAN]

Awaits == {"idle", "calculate", "purge", "mark", "loop", "components", "list", "review",
           "finalize", "approve", "cancel", "delete", "void", "reissue", "deleteCheck"}

\* Awaits of a request that works on one paycheck.
WithCheck == {"components", "void", "reissue", "deleteCheck"}

RequestsTypeOK ==
  /\ pc \in [Requests -> Awaits]
  /\ todo \in [Requests -> SUBSET Lines]
  /\ counted \in [Requests -> Nat]
  /\ check \in [Requests -> Nat]
  /\ process \in [Requests -> BOOLEAN]
  /\ \A r \in Requests : pc[r] \in WithCheck => check[r] \in Rows

TypeOK ==
  RunTypeOK /\ ChecksTypeOK /\ RequestsTypeOK /\ failed \subseteq Lines \union {Died}

Init ==
  /\ status = "draft" /\ deleted = FALSE /\ summary = 0
  /\ row = [i \in Rows |-> "absent"]
  /\ line = [i \in Rows |-> 1]
  /\ checkStatus = [i \in Rows |-> "pending"]
  /\ complete = [i \in Rows |-> FALSE]
  /\ pc = [r \in Requests |-> "idle"]
  /\ todo = [r \in Requests |-> {}]
  /\ counted = [r \in Requests |-> 0]
  /\ check = [r \in Requests |-> 0]
  /\ process = [r \in Requests |-> FALSE]
  /\ failed = {}

-----------------------------------------------------------------------------
(* Helpers *)

\* A request goes on to its next await, or answers and forgets everything.
Goto(r, there) == pc' = [pc EXCEPT ![r] = there] /\ UNCHANGED locals
End(r) ==
  /\ pc' = [pc EXCEPT ![r] = "idle"]
  /\ todo' = [todo EXCEPT ![r] = {}]
  /\ counted' = [counted EXCEPT ![r] = 0]
  /\ check' = [check EXCEPT ![r] = 0]
  /\ process' = [process EXCEPT ![r] = FALSE]

\* Plausible bug: the update forgets deleted_at IS NULL.
BugWriteDeleted(s) == status' = s /\ UNCHANGED <<deleted, summary>>

\* updatePayrollRun of the repository with a status: no row is found, and
\* nothing written, once the run is deleted.
WriteStatus(s) == status' = (IF deleted THEN status ELSE s) /\ UNCHANGED <<deleted, summary>>

LiveChecks == {i \in Rows : row[i] = "live"}

\* createPaycheck: the next row, 'pending'; its components come later.
InsertPaycheck(i, l) ==
  /\ row[i] = "absent" /\ \A j \in 1..(i - 1) : row[j] # "absent"
  /\ row' = [row EXCEPT ![i] = "live"]
  /\ line' = [line EXCEPT ![i] = l]
  /\ checkStatus' = [checkStatus EXCEPT ![i] = "pending"]
  /\ complete' = [complete EXCEPT ![i] = FALSE]

\* findByOrganization returns one page of the rows of its query.
ListedLines == {l \in Lines : l <= PageLimit}

-----------------------------------------------------------------------------
(* calculatePayroll *)

\* Plausible bug: a recalculation keeps the paychecks there are.
BugNoPurge(r) ==
  /\ \/ pc[r] = "idle" /\ "calculate" \in Operations
     \/ pc[r] = "calculate"
  /\ ~deleted /\ status \in {"draft", "calculating"}
  /\ pc' = [pc EXCEPT ![r] = "mark"]
  /\ process' = [process EXCEPT ![r] = pc[r] = "calculate"]
  /\ UNCHANGED <<todo, counted, check>>
  /\ UNCHANGED <<runRow, checks, failed>>

\* The request, alone or called by processPayrollRun, reads the run; a
\* calculation that starts from 'calculating' is a recalculation.
CalculateRead(r) ==
  /\ \/ pc[r] = "idle" /\ "calculate" \in Operations
     \/ pc[r] = "calculate"
  /\ ~deleted /\ status \in {"draft", "calculating"}
  /\ pc' = [pc EXCEPT ![r] = IF status = "calculating" THEN "purge" ELSE "mark"]
  /\ process' = [process EXCEPT ![r] = pc[r] = "calculate"]
  /\ UNCHANGED <<todo, counted, check>>
  /\ UNCHANGED <<runRow, checks, failed>>

\* Called by processPayrollRun, and the run is no longer in such a status.
CalculateRefused(r) ==
  /\ pc[r] = "calculate"
  /\ deleted \/ status \notin {"draft", "calculating"}
  /\ End(r)
  /\ UNCHANGED <<runRow, checks, failed>>

\* deletePaychecksByPayrollRun: hard delete, voided and deleted ones included.
CalculatePurge(r) ==
  /\ pc[r] = "purge"
  /\ row' = [i \in Rows |-> IF row[i] = "absent" THEN "absent" ELSE "gone"]
  /\ Goto(r, "mark")
  /\ UNCHANGED <<runRow, line, checkStatus, complete, failed>>

\* The status becomes 'calculating', whatever it is by now (the result of the
\* update is not looked at), and the employees are listed, one line at a time.
CalculateMark(r) ==
  /\ pc[r] = "mark"
  /\ WriteStatus("calculating")
  /\ pc' = [pc EXCEPT ![r] = "loop"]
  /\ todo' = [todo EXCEPT ![r] = ListedLines]
  /\ failed' = {}
  /\ UNCHANGED <<checks, counted, check, process>>

\* An employee whose calculation throws before the paycheck is inserted.
CalculateEmployeeFails(r, l) ==
  /\ pc[r] = "loop"
  /\ l \in todo[r]
  /\ "employee" \in Faults
  /\ todo' = [todo EXCEPT ![r] = @ \ {l}]
  /\ failed' = failed \union {l}
  /\ UNCHANGED <<runRow, checks, pc, counted, check, process>>

CalculatePaycheck(r, l, i) ==
  /\ pc[r] = "loop"
  /\ l \in todo[r]
  /\ InsertPaycheck(i, l)
  /\ pc' = [pc EXCEPT ![r] = "components"]
  /\ todo' = [todo EXCEPT ![r] = @ \ {l}]
  /\ check' = [check EXCEPT ![r] = i]
  /\ UNCHANGED <<runRow, counted, process, failed>>

\* All components of the paycheck are stored: only now the employee counts.
CalculateComponents(r) ==
  /\ pc[r] = "components"
  /\ row[check[r]] # "gone"
  /\ complete' = [complete EXCEPT ![check[r]] = TRUE]
  /\ pc' = [pc EXCEPT ![r] = "loop"]
  /\ counted' = [counted EXCEPT ![r] = @ + 1]
  /\ UNCHANGED <<runRow, row, line, checkStatus, todo, check, process, failed>>

\* Plausible bug: an employee counts although components are missing.
BugCountIncomplete(r) ==
  /\ pc[r] = "components"
  /\ "employee" \in Faults \/ row[check[r]] = "gone"
  /\ pc' = [pc EXCEPT ![r] = "loop"]
  /\ counted' = [counted EXCEPT ![r] = @ + 1]
  /\ failed' = failed \union {line[check[r]]}
  /\ UNCHANGED <<runRow, checks, todo, check, process>>

\* A component is rejected, by a fault or because another request purged the
\* paycheck: "continue with next employee", the paycheck stays.
CalculateComponentsFail(r) ==
  /\ pc[r] = "components"
  /\ "employee" \in Faults \/ row[check[r]] = "gone"
  /\ Goto(r, "loop")
  /\ failed' = failed \union {line[check[r]]}
  /\ UNCHANGED <<runRow, checks>>

\* Plausible bug: the summary does not wait for all employees.
BugSummaryEarly(r) ==
  /\ pc[r] = "loop"
  /\ IF deleted
     THEN UNCHANGED runRow
     ELSE status' = "calculating" /\ summary' = counted[r] /\ UNCHANGED deleted
  /\ IF process[r] THEN Goto(r, "finalize") ELSE End(r)
  /\ UNCHANGED <<checks, failed>>

\* updatePayrollRunSummary: the totals, and status 'calculating' once more.
CalculateSummary(r) ==
  /\ pc[r] = "loop"
  /\ todo[r] = {}
  /\ IF deleted
     THEN UNCHANGED runRow
     ELSE status' = "calculating" /\ summary' = counted[r] /\ UNCHANGED deleted
  /\ IF process[r] THEN Goto(r, "finalize") ELSE End(r)
  /\ UNCHANGED <<checks, failed>>

-----------------------------------------------------------------------------
(* Review, approval, processing, cancellation, deletion, update *)

ReviewRead(r) ==
  /\ pc[r] = "idle" /\ "review" \in Operations
  /\ ~deleted /\ status = "calculating"
  /\ Goto(r, "list")
  /\ UNCHANGED <<runRow, checks, failed>>

\* Plausible bug: the review does not look for paychecks.
BugReviewEmpty(r) ==
  /\ pc[r] = "list"
  /\ Goto(r, "review")
  /\ UNCHANGED <<runRow, checks, failed>>

\* markPayrollRunForReview requires that paychecks exist.
ReviewList(r) ==
  /\ pc[r] = "list"
  /\ IF LiveChecks = {} THEN End(r) ELSE Goto(r, "review")
  /\ UNCHANGED <<runRow, checks, failed>>

ReviewWrite(r) ==
  /\ pc[r] = "review"
  /\ WriteStatus("calculated")
  /\ End(r)
  /\ UNCHANGED <<checks, failed>>

\* finalizePayrollRun, which approvePayrollRun is too, and the last part of
\* processPayrollRun.
FinalizeRead(r) ==
  /\ \/ pc[r] = "idle" /\ "finalize" \in Operations
     \/ pc[r] = "finalize"
  /\ ~deleted /\ status = "calculated"
  /\ Goto(r, "approve")
  /\ UNCHANGED <<runRow, checks, failed>>

FinalizeRefused(r) ==
  /\ pc[r] = "finalize"
  /\ deleted \/ status # "calculated"
  /\ End(r)
  /\ UNCHANGED <<runRow, checks, failed>>

\* Plausible bug: the status name deletePayrollRun tests for.
BugFinalizedStatus(r) ==
  /\ pc[r] = "approve"
  /\ WriteStatus("finalized")
  /\ End(r)
  /\ UNCHANGED <<checks, failed>>

FinalizeWrite(r) ==
  /\ pc[r] = "approve"
  /\ WriteStatus("approved")
  /\ End(r)
  /\ UNCHANGED <<checks, failed>>

\* processPayrollRun: a draft is calculated first, anything else finalized.
ProcessRead(r) ==
  /\ pc[r] = "idle" /\ "process" \in Operations
  /\ ~deleted
  /\ pc' = [pc EXCEPT ![r] = IF status = "draft" THEN "calculate" ELSE "finalize"]
  /\ process' = [process EXCEPT ![r] = TRUE]
  /\ UNCHANGED <<runRow, checks, todo, counted, check, failed>>

CancelRead(r) ==
  /\ pc[r] = "idle" /\ "cancel" \in Operations
  /\ ~deleted /\ status # "processed"
  /\ Goto(r, "cancel")
  /\ UNCHANGED <<runRow, checks, failed>>

CancelWrite(r) ==
  /\ pc[r] = "cancel"
  /\ WriteStatus("cancelled")
  /\ End(r)
  /\ UNCHANGED <<checks, failed>>

\* deletePayrollRun refuses 'finalized' and 'paid', which no run ever is.
DeleteRead(r) ==
  /\ pc[r] = "idle" /\ "delete" \in Operations
  /\ ~deleted /\ status \notin {"finalized", "paid"}
  /\ Goto(r, "delete")
  /\ UNCHANGED <<runRow, checks, failed>>

DeleteWrite(r) ==
  /\ pc[r] = "delete"
  /\ deleted' = TRUE
  /\ End(r)
  /\ UNCHANGED <<status, summary, checks, failed>>

UpdateRun(s) ==
  /\ ~deleted
  /\ WriteStatus(s)
  /\ UNCHANGED <<checks, requests, failed>>

-----------------------------------------------------------------------------
(* Operations on one paycheck: read, decide, write *)

PaycheckRead(r, i, op, refused) ==
  /\ pc[r] = "idle" /\ op \in Operations
  /\ row[i] = "live" /\ checkStatus[i] \notin refused
  /\ pc' = [pc EXCEPT ![r] = op]
  /\ check' = [check EXCEPT ![r] = i]
  /\ UNCHANGED <<runRow, checks, todo, counted, process, failed>>

VoidRead(r, i) == PaycheckRead(r, i, "void", {"voided", "paid"})

\* reissuePaycheck takes voided paychecks only.
ReissueRead(r, i) == PaycheckRead(r, i, "reissue", CheckStatuses \ {"voided"})

DeletePaycheckRead(r, i) == PaycheckRead(r, i, "deleteCheck", {"paid"})

VoidWrite(r) ==
  /\ pc[r] = "void"
  /\ checkStatus' = [checkStatus EXCEPT ![check[r]] = IF row[check[r]] = "live" THEN "voided" ELSE @]
  /\ End(r)
  /\ UNCHANGED <<runRow, row, line, complete, failed>>

\* The new paycheck of the same employee; the original keeps its status.
ReissueWrite(r, i) ==
  /\ pc[r] = "reissue"
  /\ InsertPaycheck(i, line[check[r]])
  /\ End(r)
  /\ UNCHANGED <<runRow, failed>>

DeletePaycheckWrite(r) ==
  /\ pc[r] = "deleteCheck"
  /\ row' = [row EXCEPT ![check[r]] = IF @ = "live" THEN "deleted" ELSE @]
  /\ End(r)
  /\ UNCHANGED <<runRow, line, checkStatus, complete, failed>>

UpdatePaycheck(i, s) ==
  /\ row[i] = "live"
  /\ checkStatus' = [checkStatus EXCEPT ![i] = s]
  /\ UNCHANGED <<runRow, row, line, complete, requests, failed>>

\* The process dies, or a statement is rejected outside the employee loop. A
\* calculation dies with paychecks missing, or the totals.
Abort(r) ==
  /\ pc[r] # "idle" /\ "crash" \in Faults
  /\ End(r)
  /\ failed' = IF pc[r] \in {"loop", "components"} THEN failed \union todo[r] \union {Died} ELSE failed
  /\ UNCHANGED <<runRow, checks>>

-----------------------------------------------------------------------------
Calculate(r) ==
  \/ CalculateRead(r) \/ CalculateRefused(r) \/ CalculatePurge(r) \/ CalculateMark(r)
  \/ \E l \in Lines : CalculateEmployeeFails(r, l)
  \/ \E l \in Lines, i \in Rows : CalculatePaycheck(r, l, i)
  \/ CalculateComponents(r) \/ CalculateComponentsFail(r) \/ CalculateSummary(r)

Lifecycle(r) ==
  \/ ReviewRead(r) \/ ReviewList(r) \/ ReviewWrite(r)
  \/ FinalizeRead(r) \/ FinalizeRefused(r) \/ FinalizeWrite(r)
  \/ ProcessRead(r)
  \/ CancelRead(r) \/ CancelWrite(r) \/ DeleteRead(r) \/ DeleteWrite(r)

OnPaycheck(r) ==
  \/ \E i \in Rows :
       VoidRead(r, i) \/ ReissueRead(r, i) \/ DeletePaycheckRead(r, i) \/ ReissueWrite(r, i)
  \/ VoidWrite(r) \/ DeletePaycheckWrite(r)

Next ==
  \/ \E r \in Requests : Calculate(r) \/ Lifecycle(r) \/ OnPaycheck(r) \/ Abort(r)
  \/ \E s \in RunUpdates : UpdateRun(s)
  \/ \E i \in Rows, s \in CheckUpdates : UpdatePaycheck(i, s)

Spec == Init /\ [][Next]_vars

-----------------------------------------------------------------------------

(* Properties *)

Reviewed == status \in {"calculated", "approved"}

\* No employee holds more valid paychecks of the run than the list of the
\* calculation names the employee: recalculations, errors and crashes in the
\* middle of a calculation included ("if recalculating, delete existing paychecks
\* first"). An employee with two current compensations is listed, and paid, twice.
PaychecksAsListed ==
  \A e \in Employees :
    Cardinality({i \in LiveChecks : checkStatus[i] # "voided" /\ Listing[line[i]] = e})
      <= Cardinality({l \in ListedLines : Listing[l] = e})

\* The employee total shown for a reviewed run is the number of paychecks that
\* were stored with all their components, whichever employees failed, unless the
\* calculation died: nothing keeps such a run from its review.
SummaryCountsComplete ==
  Reviewed /\ Died \notin failed => summary = Cardinality({i \in LiveChecks : complete[i]})

\* A reviewed run has a paycheck for every row of the list its calculation worked
\* off except those it reported an error for or, when it died, had not come to.
ListedArePaid ==
  Reviewed => \A l \in ListedLines \ failed : \E i \in LiveChecks : line[i] = l

HadPaycheck == \E i \in Rows : row[i] # "absent"

\* Under every race, no run is reviewed or approved that never had a paycheck
\* (the check of markPayrollRunForReview).
NeverApprovedWithoutPaychecks == Reviewed => HadPaycheck

\* Under every race, the row of a deleted run never changes again, whatever
\* requests were in flight when it was deleted.
DeletedRunIsFrozen == [][deleted => runRow' = runRow]_vars
=============================================================================
