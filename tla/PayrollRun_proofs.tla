------------------------- MODULE PayrollRun_proofs -------------------------
(***************************************************************************)
(* For any number of requests, employees and paychecks: type correctness   *)
(* of PayrollRun, what survives every race, and what requests that do not  *)
(* overlap leave behind: nobody with two valid paychecks, totals that      *)
(* agree with the paychecks, and nobody unpaid.                            *)
(***************************************************************************)
EXTENDS PayrollRun, FiniteSetTheorems, TLAPS

LEMMA RowsAreNat == Rows \subseteq Nat
  BY DEF Rows

LEMMA InitTypeOK == Init => TypeOK
<1> SUFFICES ASSUME Init PROVE TypeOK
  OBVIOUS
<1>1. 1 \in Lines
  <2>1. Len(Listing) \in Nat /\ Len(Listing) # 0
    BY PayrollRunAssumption
  <2> QED
    BY <2>1 DEF Lines
<1>2. ChecksTypeOK
  BY <1>1 DEF Init, ChecksTypeOK, CheckStatuses
<1>3. RunTypeOK /\ RequestsTypeOK /\ failed \subseteq Lines \union {Died}
  BY DEF Init, RunTypeOK, RequestsTypeOK, RunStatuses, Awaits, WithCheck
<1>4. QED
  BY <1>2, <1>3 DEF TypeOK

LEMMA GotoTypeOK ==
  ASSUME RequestsTypeOK, NEW r \in Requests, NEW there \in Awaits \ WithCheck, Goto(r, there)
  PROVE  RequestsTypeOK'
  BY DEF RequestsTypeOK, Goto, locals, Awaits, WithCheck

LEMMA EndTypeOK ==
  ASSUME RequestsTypeOK, NEW r \in Requests, End(r)
  PROVE  RequestsTypeOK'
<1>1. /\ pc' \in [Requests -> Awaits] /\ todo' \in [Requests -> SUBSET Lines]
      /\ counted' \in [Requests -> Nat] /\ check' \in [Requests -> Nat]
      /\ process' \in [Requests -> BOOLEAN]
  BY DEF RequestsTypeOK, End, Awaits
<1>2. ASSUME NEW q \in Requests, pc'[q] \in WithCheck PROVE check'[q] \in Rows
  <2>1. q # r /\ pc'[q] = pc[q] /\ check'[q] = check[q]
    BY <1>2 DEF RequestsTypeOK, End, WithCheck
  <2>2. QED
    BY <1>2, <2>1 DEF RequestsTypeOK
<1>3. QED
  BY <1>1, <1>2 DEF RequestsTypeOK

LEMMA NextTypeOK == TypeOK /\ [Next]_vars => TypeOK'
<1> SUFFICES ASSUME TypeOK, [Next]_vars PROVE TypeOK'
  OBVIOUS
<1> USE DEF TypeOK, runRow, checks
<1>1. ASSUME NEW r \in Requests, Calculate(r) PROVE TypeOK'
  <2>1. CASE CalculateRead(r)
    BY <2>1 DEF CalculateRead, RunTypeOK, ChecksTypeOK, RequestsTypeOK, Awaits, WithCheck
  <2>2. CASE CalculateRefused(r)
    BY <2>2, EndTypeOK DEF CalculateRefused, RunTypeOK, ChecksTypeOK
  <2>3. CASE CalculatePurge(r)
    <3>1. RequestsTypeOK'
      BY <2>3, GotoTypeOK DEF CalculatePurge, Awaits, WithCheck
    <3>2. QED
      BY <2>3, <3>1 DEF CalculatePurge, RunTypeOK, ChecksTypeOK
  <2>4. CASE CalculateMark(r)
    <3>1. RequestsTypeOK'
      BY <2>4 DEF CalculateMark, RequestsTypeOK, Awaits, WithCheck, ListedLines
    <3>2. QED
      BY <2>4, <3>1 DEF CalculateMark, WriteStatus, RunTypeOK, ChecksTypeOK, RunStatuses
  <2>5. ASSUME NEW l \in Lines, CalculateEmployeeFails(r, l) PROVE TypeOK'
    BY <2>5 DEF CalculateEmployeeFails, RunTypeOK, ChecksTypeOK, RequestsTypeOK, WithCheck
  <2>6. ASSUME NEW l \in Lines, NEW i \in Rows, CalculatePaycheck(r, l, i) PROVE TypeOK'
    <3>1. RequestsTypeOK'
      BY <2>6, RowsAreNat DEF CalculatePaycheck, RequestsTypeOK, Awaits, WithCheck
    <3>2. ChecksTypeOK'
      BY <2>6 DEF CalculatePaycheck, InsertPaycheck, ChecksTypeOK, CheckStatuses
    <3>3. QED
      BY <2>6, <3>1, <3>2 DEF CalculatePaycheck, RunTypeOK
  <2>7. CASE CalculateComponents(r)
    <3>1. RequestsTypeOK'
      BY <2>7 DEF CalculateComponents, RequestsTypeOK, Awaits, WithCheck
    <3>2. QED
      BY <2>7, <3>1 DEF CalculateComponents, RunTypeOK, ChecksTypeOK
  <2>8. CASE CalculateComponentsFail(r)
    <3>1. RequestsTypeOK'
      BY <2>8, GotoTypeOK DEF CalculateComponentsFail, Awaits, WithCheck
    <3>2. check[r] \in Rows
      BY <2>8 DEF CalculateComponentsFail, RequestsTypeOK, WithCheck
    <3>3. QED
      BY <2>8, <3>1, <3>2 DEF CalculateComponentsFail, RunTypeOK, ChecksTypeOK
  <2>9. CASE CalculateSummary(r)
    <3>1. RequestsTypeOK'
      BY <2>9, GotoTypeOK, EndTypeOK DEF CalculateSummary, Awaits, WithCheck
    <3>2. counted[r] \in Nat
      BY DEF RequestsTypeOK
    <3>3. QED
      BY <2>9, <3>1, <3>2 DEF CalculateSummary, RunTypeOK, ChecksTypeOK, RunStatuses
  <2>10. QED
    BY <1>1, <2>1, <2>2, <2>3, <2>4, <2>5, <2>6, <2>7, <2>8, <2>9 DEF Calculate
<1>2. ASSUME NEW r \in Requests, Lifecycle(r) PROVE TypeOK'
  <2>1. CASE ReviewRead(r) \/ ReviewList(r) \/ FinalizeRead(r) \/ FinalizeRefused(r)
             \/ CancelRead(r) \/ DeleteRead(r)
    <3>1. RequestsTypeOK'
      BY <2>1, GotoTypeOK, EndTypeOK DEF ReviewRead, ReviewList, FinalizeRead,
         FinalizeRefused, CancelRead, DeleteRead, Awaits, WithCheck
    <3>2. QED
      BY <2>1, <3>1 DEF ReviewRead, ReviewList, FinalizeRead, FinalizeRefused, CancelRead,
         DeleteRead, RunTypeOK, ChecksTypeOK
  <2>2. CASE ReviewWrite(r) \/ FinalizeWrite(r) \/ CancelWrite(r) \/ DeleteWrite(r)
    <3>1. RequestsTypeOK'
      BY <2>2, EndTypeOK DEF ReviewWrite, FinalizeWrite, CancelWrite, DeleteWrite
    <3>2. QED
      BY <2>2, <3>1 DEF ReviewWrite, FinalizeWrite, CancelWrite, DeleteWrite, WriteStatus,
         RunTypeOK, ChecksTypeOK, RunStatuses
  <2>3. CASE ProcessRead(r)
    BY <2>3 DEF ProcessRead, RunTypeOK, ChecksTypeOK, RequestsTypeOK, Awaits, WithCheck
  <2>4. QED
    BY <1>2, <2>1, <2>2, <2>3 DEF Lifecycle
<1>3. ASSUME NEW r \in Requests, OnPaycheck(r) PROVE TypeOK'
  <2>1. ASSUME NEW i \in Rows, VoidRead(r, i) \/ ReissueRead(r, i) \/ DeletePaycheckRead(r, i)
        PROVE  TypeOK'
    BY <2>1, RowsAreNat DEF VoidRead, ReissueRead, DeletePaycheckRead, PaycheckRead,
       RunTypeOK, ChecksTypeOK, RequestsTypeOK, Awaits, WithCheck
  <2>2. CASE VoidWrite(r)
    BY <2>2, EndTypeOK DEF VoidWrite, RunTypeOK, ChecksTypeOK, CheckStatuses
  <2>3. ASSUME NEW i \in Rows, ReissueWrite(r, i) PROVE TypeOK'
    <3>1. line[check[r]] \in Lines
      BY <2>3 DEF ReissueWrite, RequestsTypeOK, ChecksTypeOK, WithCheck
    <3>2. ChecksTypeOK'
      BY <2>3, <3>1 DEF ReissueWrite, InsertPaycheck, ChecksTypeOK, CheckStatuses
    <3>3. QED
      BY <2>3, <3>2, EndTypeOK DEF ReissueWrite, RunTypeOK
  <2>4. CASE DeletePaycheckWrite(r)
    BY <2>4, EndTypeOK DEF DeletePaycheckWrite, RunTypeOK, ChecksTypeOK
  <2>5. QED
    BY <1>3, <2>1, <2>2, <2>3, <2>4 DEF OnPaycheck
<1>4. ASSUME NEW r \in Requests, Abort(r) PROVE TypeOK'
  <2>1. todo[r] \subseteq Lines
    BY DEF RequestsTypeOK
  <2>2. failed' \subseteq Lines \union {Died}
    BY <1>4, <2>1 DEF Abort
  <2>3. QED
    BY <1>4, <2>2, EndTypeOK DEF Abort, RunTypeOK, ChecksTypeOK
<1>5. ASSUME NEW s \in RunUpdates, UpdateRun(s) PROVE TypeOK'
  BY <1>5, PayrollRunAssumption DEF UpdateRun, WriteStatus, requests, RunTypeOK,
     ChecksTypeOK, RequestsTypeOK
<1>6. ASSUME NEW i \in Rows, NEW s \in CheckUpdates, UpdatePaycheck(i, s) PROVE TypeOK'
  BY <1>6, PayrollRunAssumption DEF UpdatePaycheck, requests, RunTypeOK, ChecksTypeOK,
     RequestsTypeOK
<1>7. CASE UNCHANGED vars
  BY <1>7 DEF vars, RunTypeOK, ChecksTypeOK, RequestsTypeOK
<1>8. QED
  BY <1>1, <1>2, <1>3, <1>4, <1>5, <1>6, <1>7 DEF Next

\* Every variable keeps its type, and a request that works on a paycheck holds
\* the index of a row.
THEOREM TypeCorrect == Spec => []TypeOK
  BY InitTypeOK, NextTypeOK, PTL DEF Spec

-----------------------------------------------------------------------------
(* What survives every race *)

\* The row of a deleted run never changes again (deleted_at IS NULL in every
\* UPDATE of payroll_run).
THEOREM DeletedRunIsFrozenHolds == Spec => DeletedRunIsFrozen
<1>1. TypeOK /\ [Next]_vars => [deleted => runRow' = runRow]_vars
  <2> SUFFICES ASSUME TypeOK, Next, deleted PROVE runRow' = runRow
    BY DEF vars, runRow
  <2>1. ASSUME NEW r \in Requests, Calculate(r) PROVE runRow' = runRow
    BY <2>1 DEF Calculate, CalculateRead, CalculateRefused, CalculatePurge, CalculateMark,
       CalculateEmployeeFails, CalculatePaycheck, CalculateComponents,
       CalculateComponentsFail, CalculateSummary, WriteStatus, runRow
  <2>2. ASSUME NEW r \in Requests, Lifecycle(r) PROVE runRow' = runRow
    BY <2>2 DEF TypeOK, Lifecycle, ReviewRead, ReviewList, ReviewWrite, FinalizeRead,
       FinalizeRefused, FinalizeWrite, ProcessRead, CancelRead, CancelWrite, DeleteRead,
       DeleteWrite, WriteStatus, runRow
  <2>3. ASSUME NEW r \in Requests, OnPaycheck(r) \/ Abort(r) PROVE runRow' = runRow
    BY <2>3 DEF OnPaycheck, VoidRead, ReissueRead, DeletePaycheckRead, PaycheckRead,
       VoidWrite, ReissueWrite, DeletePaycheckWrite, Abort, runRow
  <2>4. QED
    BY <2>1, <2>2, <2>3 DEF Next, UpdateRun, UpdatePaycheck, WriteStatus, runRow
<1>2. QED
  BY <1>1, TypeCorrect, PTL DEF Spec, DeletedRunIsFrozen

\* A row that was inserted stays: at most it is marked deleted, or gone.
LEMMA RowsStay ==
  TypeOK /\ [Next]_vars => \A i \in Rows : row[i] # "absent" => row'[i] # "absent"
<1> SUFFICES ASSUME TypeOK, [Next]_vars, NEW i \in Rows, row[i] # "absent"
             PROVE  row'[i] # "absent"
  OBVIOUS
<1> USE DEF TypeOK, RunTypeOK, ChecksTypeOK, RequestsTypeOK
<1>1. ASSUME NEW r \in Requests, Calculate(r) PROVE row'[i] # "absent"
  BY <1>1 DEF Calculate, CalculateRead, CalculateRefused, CalculatePurge, CalculateMark,
     CalculateEmployeeFails, CalculatePaycheck, CalculateComponents, CalculateComponentsFail,
     CalculateSummary, InsertPaycheck, checks
<1>2. ASSUME NEW r \in Requests, Lifecycle(r) PROVE row'[i] # "absent"
  BY <1>2 DEF Lifecycle, ReviewRead, ReviewList, ReviewWrite, FinalizeRead, FinalizeRefused,
     FinalizeWrite, ProcessRead, CancelRead, CancelWrite, DeleteRead, DeleteWrite, checks
<1>3. ASSUME NEW r \in Requests, OnPaycheck(r) \/ Abort(r) PROVE row'[i] # "absent"
  BY <1>3 DEF OnPaycheck, VoidRead, ReissueRead, DeletePaycheckRead, PaycheckRead, VoidWrite,
     ReissueWrite, DeletePaycheckWrite, Abort, InsertPaycheck, checks
<1>4. QED
  BY <1>1, <1>2, <1>3 DEF Next, UpdateRun, UpdatePaycheck, checks, vars

\* A request that is about to write 'calculated' or 'approved' has seen the run
\* with paychecks.
ReviewSawPaycheck ==
  HadPaycheck \/ (~Reviewed /\ \A r \in Requests : pc[r] \notin {"review", "approve"})

LEMMA NextReviewSawPaycheck ==
  ASSUME RunUpdates \cap {"calculated", "approved"} = {}
  PROVE  TypeOK /\ ReviewSawPaycheck /\ [Next]_vars => ReviewSawPaycheck'
<1> SUFFICES ASSUME TypeOK, ReviewSawPaycheck, [Next]_vars PROVE ReviewSawPaycheck'
  OBVIOUS
<1>1. CASE HadPaycheck
  BY <1>1, RowsStay DEF HadPaycheck, ReviewSawPaycheck
<1>2. CASE ~HadPaycheck
  <2> USE <1>2 DEF TypeOK, RunTypeOK, ChecksTypeOK, RequestsTypeOK, ReviewSawPaycheck, Reviewed, Goto, End
  <2>1. ASSUME NEW r \in Requests, Calculate(r) PROVE ReviewSawPaycheck'
    BY <2>1 DEF Calculate, CalculateRead, CalculateRefused, CalculatePurge, CalculateMark,
       CalculateEmployeeFails, CalculatePaycheck, CalculateComponents,
       CalculateComponentsFail, CalculateSummary, WriteStatus, runRow
  <2>2. ASSUME NEW r \in Requests, Lifecycle(r) PROVE ReviewSawPaycheck'
    BY <2>2 DEF Lifecycle, ReviewRead, ReviewList, ReviewWrite, FinalizeRead,
       FinalizeRefused, FinalizeWrite, ProcessRead, CancelRead, CancelWrite, DeleteRead,
       DeleteWrite, WriteStatus, LiveChecks, HadPaycheck, runRow
  <2>3. ASSUME NEW r \in Requests, OnPaycheck(r) \/ Abort(r) PROVE ReviewSawPaycheck'
    BY <2>3 DEF OnPaycheck, VoidRead, ReissueRead, DeletePaycheckRead, PaycheckRead,
       VoidWrite, ReissueWrite, DeletePaycheckWrite, Abort, runRow
  <2>4. ASSUME NEW s \in RunUpdates, UpdateRun(s) PROVE ReviewSawPaycheck'
    BY <2>4 DEF UpdateRun, WriteStatus, requests
  <2>5. QED
    BY <2>1, <2>2, <2>3, <2>4 DEF Next, UpdatePaycheck, vars, runRow, requests
<1>3. QED
  BY <1>1, <1>2

\* Unless a client writes such a status with PUT, no run is reviewed or approved
\* that never had a paycheck, however the requests interleave
\* (markPayrollRunForReview, finalizePayrollRun).
THEOREM NeverApprovedWithoutPaychecksHolds ==
  ASSUME RunUpdates \cap {"calculated", "approved"} = {}
  PROVE  Spec => []NeverApprovedWithoutPaychecks
<1>1. Init => ReviewSawPaycheck
  BY DEF Init, ReviewSawPaycheck, Reviewed
<1>2. ReviewSawPaycheck => NeverApprovedWithoutPaychecks
  BY DEF ReviewSawPaycheck, NeverApprovedWithoutPaychecks
<1>3. QED
  BY <1>1, <1>2, TypeCorrect, NextReviewSawPaycheck, PTL DEF Spec

-----------------------------------------------------------------------------
(* Requests that do not overlap *)

NonOverlapping == \A q, r \in Requests : q = r

NoLiveCheck == \A i \in Rows : row[i] # "live"

\* A run that can be calculated without a purge has no live paycheck, nor has a
\* run about to be calculated; a running calculation has paid nobody it still has
\* to pay, all of it on its page; no line has two live paychecks. The second conjunct of the loop
\* keeps the first from breaking: a run in the loop has left 'draft' for good, or
\* was deleted and is never calculated again.
PaidOnce ==
  /\ status = "draft" /\ ~deleted => NoLiveCheck
  /\ \A r \in Requests :
       /\ pc[r] # "reissue"
       /\ pc[r] = "mark" => NoLiveCheck
       /\ pc[r] \in {"loop", "components"} =>
            /\ status # "draft" \/ deleted
            /\ todo[r] \subseteq ListedLines
            /\ \A i \in Rows : row[i] = "live" => line[i] \notin todo[r]
  /\ \A i \in Rows : row[i] = "live" => line[i] \in ListedLines
  /\ \A i, j \in Rows : row[i] = "live" /\ row[j] = "live" /\ line[i] = line[j] => i = j

\* A step that inserts no paycheck, reopens no run and starts no loop keeps PaidOnce.
LEMMA QuietStep ==
  ASSUME PaidOnce,
         \A i \in Rows : row'[i] = "live" => row[i] = "live" /\ line'[i] = line[i],
         status' = "draft" => status = "draft",
         deleted => deleted',
         \A r \in Requests :
           /\ pc'[r] # "reissue"
           /\ pc'[r] = "mark" => NoLiveCheck' \/ pc[r] = "mark"
           /\ pc'[r] \in {"loop", "components"} =>
                pc[r] \in {"loop", "components"} /\ todo'[r] \subseteq todo[r]
  PROVE  PaidOnce'
  BY DEF PaidOnce, NoLiveCheck

LEMMA NextPaidOnce ==
  ASSUME NonOverlapping, "reissue" \notin Operations, "draft" \notin RunUpdates
  PROVE  TypeOK /\ PaidOnce /\ [Next]_vars => PaidOnce'
<1> SUFFICES ASSUME TypeOK, PaidOnce, [Next]_vars PROVE PaidOnce'
  OBVIOUS
<1> USE DEF TypeOK, RunTypeOK, ChecksTypeOK, RequestsTypeOK, Goto, End, runRow, checks, locals
<1>1. ASSUME NEW r \in Requests, Calculate(r) PROVE PaidOnce'
  <2>1. CASE CalculateRead(r)
    <3>1. status = "draft" => NoLiveCheck'
      BY <2>1 DEF CalculateRead, PaidOnce, NoLiveCheck
    <3>2. QED
      BY <2>1, <3>1, QuietStep DEF CalculateRead, PaidOnce
  <2>2. CASE CalculateRefused(r)
    BY <2>2, QuietStep DEF CalculateRefused, PaidOnce
  <2>3. CASE CalculatePurge(r)
    BY <2>3, QuietStep DEF CalculatePurge, PaidOnce, NoLiveCheck
  <2>4. CASE CalculateMark(r)
    <3>1. NoLiveCheck /\ NoLiveCheck'
      BY <2>4 DEF CalculateMark, PaidOnce, NoLiveCheck
    <3>2. status' # "draft" \/ deleted'
      BY <2>4 DEF CalculateMark, WriteStatus
    <3>3. \A q \in Requests : q = r /\ pc'[q] = "loop" /\ todo'[q] = ListedLines
      BY <2>4 DEF CalculateMark, NonOverlapping
    <3>4. QED
      BY <3>1, <3>2, <3>3 DEF PaidOnce, NoLiveCheck
  <2>5. ASSUME NEW l \in Lines, CalculateEmployeeFails(r, l) PROVE PaidOnce'
    BY <2>5, QuietStep DEF CalculateEmployeeFails, PaidOnce
  <2>6. ASSUME NEW l \in Lines, NEW i \in Rows, CalculatePaycheck(r, l, i) PROVE PaidOnce'
    <3>1. status' # "draft" \/ deleted'
      BY <2>6 DEF CalculatePaycheck, PaidOnce
    <3>2. \A j \in Rows : row'[j] = "live" =>
            (j = i /\ line'[j] = l) \/ (j # i /\ row[j] = "live" /\ line'[j] = line[j])
      BY <2>6 DEF CalculatePaycheck, InsertPaycheck
    <3>3. \A j \in Rows : row[j] = "live" => line[j] \notin todo[r]
      BY <2>6 DEF CalculatePaycheck, PaidOnce
    <3>4. /\ l \in todo[r] /\ todo'[r] = todo[r] \ {l} /\ pc'[r] = "components"
          /\ l \in ListedLines /\ todo[r] \subseteq ListedLines
      BY <2>6 DEF CalculatePaycheck, PaidOnce
    <3>5. \A q \in Requests : q = r
      BY DEF NonOverlapping
    <3>6. \A j, k \in Rows :
            row'[j] = "live" /\ row'[k] = "live" /\ line'[j] = line'[k] => j = k
      BY <3>2, <3>3, <3>4 DEF PaidOnce
    <3>7. QED
      BY <3>1, <3>2, <3>3, <3>4, <3>5, <3>6 DEF PaidOnce
  <2>7. CASE CalculateComponents(r)
    BY <2>7, QuietStep DEF CalculateComponents, PaidOnce
  <2>8. CASE CalculateComponentsFail(r)
    BY <2>8, QuietStep DEF CalculateComponentsFail, PaidOnce
  <2>9. CASE CalculateSummary(r)
    BY <2>9, QuietStep DEF CalculateSummary, PaidOnce
  <2>10. QED
    BY <1>1, <2>1, <2>2, <2>3, <2>4, <2>5, <2>6, <2>7, <2>8, <2>9 DEF Calculate
<1>2. ASSUME NEW r \in Requests, Lifecycle(r) PROVE PaidOnce'
  <2>1. CASE ReviewRead(r) \/ ReviewList(r) \/ FinalizeRead(r) \/ FinalizeRefused(r)
             \/ CancelRead(r) \/ DeleteRead(r) \/ ProcessRead(r)
    BY <2>1, QuietStep DEF ReviewRead, ReviewList, FinalizeRead, FinalizeRefused,
       CancelRead, DeleteRead, ProcessRead, PaidOnce
  <2>2. CASE ReviewWrite(r) \/ FinalizeWrite(r) \/ CancelWrite(r) \/ DeleteWrite(r)
    BY <2>2, QuietStep DEF ReviewWrite, FinalizeWrite, CancelWrite, DeleteWrite,
       WriteStatus, PaidOnce
  <2>3. QED
    BY <1>2, <2>1, <2>2 DEF Lifecycle
<1>3. ASSUME NEW r \in Requests, OnPaycheck(r) PROVE PaidOnce'
  <2>1. ASSUME NEW i \in Rows, VoidRead(r, i) \/ DeletePaycheckRead(r, i) PROVE PaidOnce'
    BY <2>1, QuietStep DEF VoidRead, DeletePaycheckRead, PaycheckRead, PaidOnce
  <2>2. ASSUME NEW i \in Rows PROVE ~ReissueRead(r, i) /\ ~ReissueWrite(r, i)
    BY DEF ReissueRead, PaycheckRead, ReissueWrite, PaidOnce
  <2>3. CASE VoidWrite(r)
    BY <2>3, QuietStep DEF VoidWrite, PaidOnce
  <2>4. CASE DeletePaycheckWrite(r)
    BY <2>4, QuietStep DEF DeletePaycheckWrite, PaidOnce
  <2>5. QED
    BY <1>3, <2>1, <2>2, <2>3, <2>4 DEF OnPaycheck
<1>4. ASSUME NEW r \in Requests, Abort(r) PROVE PaidOnce'
  BY <1>4, QuietStep DEF Abort, PaidOnce
<1>5. ASSUME NEW s \in RunUpdates, UpdateRun(s) PROVE PaidOnce'
  BY <1>5, QuietStep DEF UpdateRun, WriteStatus, requests, PaidOnce
<1>6. ASSUME NEW i \in Rows, NEW s \in CheckUpdates, UpdatePaycheck(i, s) PROVE PaidOnce'
  BY <1>6, QuietStep DEF UpdatePaycheck, requests, PaidOnce
<1>7. CASE UNCHANGED vars
  BY <1>7 DEF vars, PaidOnce, NoLiveCheck
<1>8. QED
  BY <1>1, <1>2, <1>3, <1>4, <1>5, <1>6, <1>7 DEF Next

\* Lines of an employee that have a paycheck are among those the list names.
LEMMA AtMostListed ==
  ASSUME PaidOnce, NEW e
  PROVE  Cardinality({i \in LiveChecks : checkStatus[i] # "voided" /\ Listing[line[i]] = e})
           <= Cardinality({l \in ListedLines : Listing[l] = e})
<1> DEFINE Valid == {i \in LiveChecks : checkStatus[i] # "voided" /\ Listing[line[i]] = e}
           Named == {l \in ListedLines : Listing[l] = e}
           lineOf == [i \in Valid |-> line[i]]
<1>1. IsFiniteSet(Named)
  <2>1. Named \subseteq Lines /\ Len(Listing) \in Nat
    BY PayrollRunAssumption DEF ListedLines
  <2>2. IsFiniteSet(Lines)
    BY <2>1, FS_Interval DEF Lines
  <2> QED
    BY <2>1, <2>2, FS_Subset
<1>2. \A i \in Valid : i \in Rows /\ row[i] = "live" /\ Listing[line[i]] = e
  BY DEF LiveChecks
<1>3. \A i \in Valid : line[i] \in Named
  BY <1>2 DEF PaidOnce
<1>4. \A i, j \in Valid : line[i] = line[j] => i = j
  BY <1>2 DEF PaidOnce
<1>5. lineOf \in Injection(Valid, Named)
  BY <1>3, <1>4 DEF Injection, IsInjective
<1>6. Cardinality(Valid) <= Cardinality(Named)
  BY ONLY <1>1, <1>5, FS_Injection
<1> QED
  BY <1>6

\* As long as requests do not overlap, nothing is reissued and no client sets a run
\* back to 'draft', no employee ever holds more valid paychecks of the run than the
\* list names the employee: whatever fails or crashes in the middle of a
\* calculation, the next one starts clean (calculatePayroll, "If recalculating,
\* delete existing paychecks first").
THEOREM PaychecksAsListedHolds ==
  ASSUME NonOverlapping, "reissue" \notin Operations, "draft" \notin RunUpdates
  PROVE  Spec => []PaychecksAsListed
<1>1. Init => PaidOnce
  BY DEF Init, PaidOnce, NoLiveCheck
<1>2. PaidOnce => PaychecksAsListed
  BY AtMostListed DEF PaychecksAsListed
<1>3. QED
  BY <1>1, <1>2, TypeCorrect, NextPaidOnce, PTL DEF Spec

-----------------------------------------------------------------------------
(* Everyone on the list is paid *)

Looping     == {"loop", "components"}
Calculating == {"purge", "mark"} \union Looping

Paid(l) == \E i \in Rows : row[i] = "live" /\ line[i] = l
ListPaid == \A l \in ListedLines \ failed : Paid(l)

\* A calculation in its loop still has to pay those it has not paid and not
\* reported. Outside of the loop the run has no paycheck at all, and cannot be
\* reviewed, or everyone has one that no error is known of.
PaysTheList ==
  /\ Reviewed => ListPaid
  /\ \A r \in Requests :
       /\ pc[r] \in Calculating => ~Reviewed
       /\ pc[r] \in Looping => \A l \in ListedLines \ failed : l \in todo[r] \/ Paid(l)
       /\ pc[r] \in {"review", "approve", "reissue"} => ListPaid
  /\ (\A r \in Requests : pc[r] \notin Looping) => NoLiveCheck \/ ListPaid

\* A step that forgets no failure and takes no paycheck away.
LEMMA PayingStep ==
  ASSUME PaysTheList, NonOverlapping, NEW r \in Requests,
         failed \subseteq failed',
         \A i \in Rows : row[i] = "live" => row'[i] = "live" /\ line'[i] = line[i],
         NoLiveCheck => NoLiveCheck' \/ pc'[r] \in Looping,
         Reviewed' => Reviewed \/ ListPaid,
         pc'[r] \in Calculating => ~Reviewed',
         pc'[r] \in Looping =>
           /\ pc[r] \in Looping
           /\ \A l \in todo[r] : l \in todo'[r] \/ l \in failed' \/ Paid(l)',
         pc[r] \in Looping /\ pc'[r] \notin Looping => todo[r] \subseteq failed',
         pc'[r] \in {"review", "approve", "reissue"} => ListPaid
  PROVE  PaysTheList'
<1>1. \A l \in ListedLines : Paid(l) => Paid(l)'
  BY DEF Paid
<1>2. ListPaid => ListPaid'
  BY <1>1 DEF ListPaid
<1>3. \A q \in Requests : q = r
  BY DEF NonOverlapping
<1>4. ASSUME pc'[r] \in Looping
      PROVE  \A l \in ListedLines \ failed' : l \in todo'[r] \/ Paid(l)'
  BY <1>1, <1>4 DEF PaysTheList
<1>5. ASSUME pc'[r] \notin Looping
      PROVE  NoLiveCheck' \/ ListPaid'
  <2>1. CASE pc[r] \in Looping
    <3>1. \A l \in ListedLines \ failed' : Paid(l)
      BY <1>5, <2>1 DEF PaysTheList
    <3> QED
      BY <1>1, <3>1 DEF ListPaid
  <2>2. CASE pc[r] \notin Looping
    BY <1>2, <1>3, <1>5, <2>2 DEF PaysTheList
  <2> QED
    BY <2>1, <2>2
<1>6. Reviewed' => ListPaid'
  BY <1>2 DEF PaysTheList
<1> QED
  BY <1>2, <1>3, <1>4, <1>5, <1>6 DEF PaysTheList

LEMMA NextPaysTheList ==
  ASSUME NonOverlapping, "deleteCheck" \notin Operations,
         RunUpdates \cap {"calculated", "approved"} = {}
  PROVE  TypeOK /\ PaysTheList /\ (\A r \in Requests : pc[r] # "deleteCheck") /\ [Next]_vars
           => PaysTheList'
<1> SUFFICES ASSUME TypeOK, PaysTheList, \A r \in Requests : pc[r] # "deleteCheck", [Next]_vars
             PROVE  PaysTheList'
  OBVIOUS
<1> USE DEF TypeOK, RunTypeOK, ChecksTypeOK, RequestsTypeOK, Goto, End, runRow, checks, locals
<1>1. ASSUME NEW r \in Requests, Calculate(r) PROVE PaysTheList'
  <2>1. CASE CalculateRead(r) \/ CalculateRefused(r)
    BY <2>1, PayingStep DEF CalculateRead, CalculateRefused, NoLiveCheck, Reviewed, Looping,
       Calculating
  <2>2. CASE CalculatePurge(r)
    <3>1. NoLiveCheck' /\ ~Reviewed' /\ pc'[r] = "mark" /\ \A q \in Requests : q = r
      BY <2>2 DEF CalculatePurge, NoLiveCheck, PaysTheList, Reviewed, Calculating, NonOverlapping
    <3> QED
      BY <3>1 DEF PaysTheList, Looping
  <2>3. CASE CalculateMark(r)
    <3>1. todo'[r] = ListedLines
      BY <2>3 DEF CalculateMark
    <3>2. ~Reviewed' /\ pc'[r] = "loop" /\ \A q \in Requests : q = r
      BY <2>3 DEF CalculateMark, PaysTheList, Reviewed, Calculating, NonOverlapping, WriteStatus
    <3> QED
      BY <3>1, <3>2 DEF PaysTheList, Looping
  <2>4. ASSUME NEW l \in Lines, CalculateEmployeeFails(r, l) PROVE PaysTheList'
    <3>1. ~Reviewed
      BY <2>4 DEF CalculateEmployeeFails, PaysTheList, Calculating, Looping
    <3> QED
      BY <2>4, <3>1, PayingStep DEF CalculateEmployeeFails, NoLiveCheck, Reviewed, Looping,
         Calculating
  <2>5. ASSUME NEW l \in Lines, NEW i \in Rows, CalculatePaycheck(r, l, i) PROVE PaysTheList'
    <3>1. ~Reviewed
      BY <2>5 DEF CalculatePaycheck, PaysTheList, Calculating, Looping
    <3>2. \A j \in Rows : row[j] = "live" => row'[j] = "live" /\ line'[j] = line[j]
      BY <2>5 DEF CalculatePaycheck, InsertPaycheck
    <3>3. Paid(l)'
      <4>1. row'[i] = "live" /\ line'[i] = l
        BY <2>5 DEF CalculatePaycheck, InsertPaycheck
      <4> QED
        BY <4>1 DEF Paid
    <3>4. /\ failed' = failed /\ status' = status
          /\ pc[r] = "loop" /\ pc'[r] = "components" /\ todo'[r] = todo[r] \ {l}
      BY <2>5 DEF CalculatePaycheck
    <3> QED
      BY <3>1, <3>2, <3>3, <3>4, PayingStep DEF Reviewed, Looping, Calculating
  <2>6. CASE CalculateComponents(r) \/ CalculateComponentsFail(r)
    <3>1. ~Reviewed
      BY <2>6 DEF CalculateComponents, CalculateComponentsFail, PaysTheList, Calculating, Looping
    <3> QED
      BY <2>6, <3>1, PayingStep DEF CalculateComponents, CalculateComponentsFail, NoLiveCheck,
         Reviewed, Looping, Calculating
  <2>7. CASE CalculateSummary(r)
    <3>1. ~Reviewed
      BY <2>7 DEF CalculateSummary, PaysTheList, Calculating, Looping
    <3>2. ~Reviewed' /\ todo[r] = {} /\ pc'[r] \in {"idle", "finalize"}
      BY <2>7, <3>1 DEF CalculateSummary, Reviewed
    <3>3. failed' = failed /\ row' = row /\ line' = line
      BY <2>7 DEF CalculateSummary
    <3> QED
      BY <3>2, <3>3, PayingStep DEF NoLiveCheck, Looping, Calculating
  <2> QED
    BY <1>1, <2>1, <2>2, <2>3, <2>4, <2>5, <2>6, <2>7 DEF Calculate
<1>2. ASSUME NEW r \in Requests, Lifecycle(r) PROVE PaysTheList'
  <2>1. failed' = failed /\ row' = row /\ line' = line
    BY <1>2 DEF Lifecycle, ReviewRead, ReviewList, ReviewWrite, FinalizeRead, FinalizeRefused,
       FinalizeWrite, ProcessRead, CancelRead, CancelWrite, DeleteRead, DeleteWrite
  <2>2. pc[r] \notin Looping /\ pc'[r] \notin Calculating \union {"reissue"}
    BY <1>2 DEF Lifecycle, ReviewRead, ReviewList, ReviewWrite, FinalizeRead, FinalizeRefused,
       FinalizeWrite, ProcessRead, CancelRead, CancelWrite, DeleteRead, DeleteWrite, Calculating,
       Looping
  <2>3. pc'[r] = "review" => ListPaid
    <3> SUFFICES ASSUME pc'[r] = "review" PROVE ListPaid
      OBVIOUS
    <3>1. ReviewList(r)
      BY <1>2 DEF Lifecycle, ReviewRead, ReviewList, ReviewWrite, FinalizeRead, FinalizeRefused,
         FinalizeWrite, ProcessRead, CancelRead, CancelWrite, DeleteRead, DeleteWrite
    <3>2. ~NoLiveCheck /\ \A q \in Requests : q = r
      BY <3>1 DEF ReviewList, LiveChecks, NoLiveCheck, NonOverlapping
    <3> QED
      BY <2>2, <3>2 DEF PaysTheList
  <2>4. pc'[r] = "approve" => ListPaid
    <3> SUFFICES ASSUME pc'[r] = "approve" PROVE ListPaid
      OBVIOUS
    <3>1. FinalizeRead(r)
      BY <1>2 DEF Lifecycle, ReviewRead, ReviewList, ReviewWrite, FinalizeRead, FinalizeRefused,
         FinalizeWrite, ProcessRead, CancelRead, CancelWrite, DeleteRead, DeleteWrite
    <3> QED
      BY <3>1 DEF FinalizeRead, Reviewed, PaysTheList
  <2>5. Reviewed' => Reviewed \/ ListPaid
    <3>1. CASE ReviewWrite(r) \/ FinalizeWrite(r)
      BY <3>1 DEF ReviewWrite, FinalizeWrite, PaysTheList
    <3>2. CASE ~(ReviewWrite(r) \/ FinalizeWrite(r))
      BY <1>2, <3>2 DEF Lifecycle, ReviewRead, ReviewList, FinalizeRead, FinalizeRefused,
         ProcessRead, CancelRead, CancelWrite, DeleteRead, DeleteWrite, WriteStatus, Reviewed
    <3> QED
      BY <3>1, <3>2
  <2> QED
    BY <2>1, <2>2, <2>3, <2>4, <2>5, PayingStep DEF NoLiveCheck, Calculating
<1>3. ASSUME NEW r \in Requests, OnPaycheck(r) PROVE PaysTheList'
  <2>1. ASSUME NEW i \in Rows, VoidRead(r, i) PROVE PaysTheList'
    BY <2>1, PayingStep DEF VoidRead, PaycheckRead, NoLiveCheck, Reviewed, Looping, Calculating
  <2>2. ASSUME NEW i \in Rows, ReissueRead(r, i) PROVE PaysTheList'
    <3>1. ListPaid
      <4>1. ~NoLiveCheck /\ \A q \in Requests : pc[q] = "idle"
        BY <2>2 DEF ReissueRead, PaycheckRead, NoLiveCheck, NonOverlapping
      <4> QED
        BY <4>1 DEF PaysTheList, Looping
    <3> QED
      BY <2>2, <3>1, PayingStep DEF ReissueRead, PaycheckRead, NoLiveCheck, Reviewed, Looping,
         Calculating
  <2>3. ASSUME NEW i \in Rows PROVE ~DeletePaycheckRead(r, i)
    BY DEF DeletePaycheckRead, PaycheckRead
  <2>4. CASE VoidWrite(r)
    BY <2>4, PayingStep DEF VoidWrite, NoLiveCheck, Reviewed, Looping, Calculating
  <2>5. ASSUME NEW i \in Rows, ReissueWrite(r, i) PROVE PaysTheList'
    <3>1. ListPaid /\ failed' = failed /\ status' = status
      BY <2>5 DEF ReissueWrite, PaysTheList
    <3>2. \A j \in Rows : row[j] = "live" => row'[j] = "live" /\ line'[j] = line[j]
      BY <2>5 DEF ReissueWrite, InsertPaycheck
    <3>3. ListPaid'
      BY <3>1, <3>2 DEF ListPaid, Paid
    <3>4. pc'[r] = "idle" /\ \A q \in Requests : q = r
      BY <2>5 DEF ReissueWrite, NonOverlapping
    <3> QED
      BY <3>3, <3>4 DEF PaysTheList, Looping, Calculating
  <2>6. ~DeletePaycheckWrite(r)
    BY DEF DeletePaycheckWrite
  <2> QED
    BY <1>3, <2>1, <2>2, <2>3, <2>4, <2>5, <2>6 DEF OnPaycheck
<1>4. ASSUME NEW r \in Requests, Abort(r) PROVE PaysTheList'
  BY <1>4, PayingStep DEF Abort, NoLiveCheck, Reviewed, Looping, Calculating
<1>5. ASSUME UNCHANGED <<row, line, pc, todo, failed>>, Reviewed' => Reviewed PROVE PaysTheList'
  <2>1. /\ ListPaid' = ListPaid /\ NoLiveCheck' = NoLiveCheck
        /\ \A l \in ListedLines : Paid(l)' = Paid(l)
    BY <1>5 DEF ListPaid, Paid, NoLiveCheck
  <2> QED
    BY <1>5, <2>1 DEF PaysTheList
<1>6. ASSUME NEW s \in RunUpdates, UpdateRun(s) PROVE PaysTheList'
  BY <1>5, <1>6 DEF UpdateRun, WriteStatus, requests, Reviewed
<1>7. ASSUME NEW i \in Rows, NEW s \in CheckUpdates, UpdatePaycheck(i, s) PROVE PaysTheList'
  BY <1>5, <1>7 DEF UpdatePaycheck, requests, Reviewed
<1>8. CASE UNCHANGED vars
  BY <1>5, <1>8 DEF vars, Reviewed
<1> QED
  BY <1>1, <1>2, <1>3, <1>4, <1>6, <1>7, <1>8 DEF Next

\* Nobody works on the deletion of a paycheck when no client asks for one.
LEMMA NobodyDeletes ==
  ASSUME "deleteCheck" \notin Operations
  PROVE  Spec => [](\A r \in Requests : pc[r] # "deleteCheck")
<1> DEFINE Nobody == \A r \in Requests : pc[r] # "deleteCheck"
<1>1. Init => Nobody
  BY DEF Init
<1>2. TypeOK /\ Nobody /\ [Next]_vars => Nobody'
  <2> SUFFICES ASSUME TypeOK, Nobody, [Next]_vars PROVE Nobody'
    OBVIOUS
  <2> USE DEF TypeOK, RequestsTypeOK, Goto, End
  <2>1. ASSUME NEW r \in Requests, Calculate(r) \/ Lifecycle(r) PROVE Nobody'
    BY <2>1 DEF Calculate, CalculateRead, CalculateRefused, CalculatePurge, CalculateMark,
       CalculateEmployeeFails, CalculatePaycheck, CalculateComponents, CalculateComponentsFail,
       CalculateSummary, Lifecycle, ReviewRead, ReviewList, ReviewWrite, FinalizeRead,
       FinalizeRefused, FinalizeWrite, ProcessRead, CancelRead, CancelWrite, DeleteRead, DeleteWrite
  <2>2. ASSUME NEW r \in Requests, OnPaycheck(r) \/ Abort(r) PROVE Nobody'
    BY <2>2 DEF OnPaycheck, VoidRead, ReissueRead, DeletePaycheckRead, PaycheckRead, VoidWrite,
       ReissueWrite, DeletePaycheckWrite, Abort
  <2> QED
    BY <2>1, <2>2 DEF Next, UpdateRun, UpdatePaycheck, requests, vars
<1> QED
  BY <1>1, <1>2, TypeCorrect, PTL DEF Spec

\* As long as requests do not overlap, the organisation has no more employees
\* than one page lists, no paycheck is deleted by hand and no client writes such
\* a status itself, a reviewed run has a paycheck for every employee but those
\* its last calculation reported or, dying, left behind (calculatePayroll and
\* markPayrollRunForReview).
THEOREM ListedArePaidHolds ==
  ASSUME NonOverlapping, "deleteCheck" \notin Operations,
         RunUpdates \cap {"calculated", "approved"} = {}
  PROVE  Spec => []ListedArePaid
<1>1. Init => PaysTheList
  BY DEF Init, PaysTheList, Reviewed, Calculating, Looping, NoLiveCheck
<1>2. PaysTheList => ListedArePaid
  BY DEF PaysTheList, ListPaid, Paid, ListedArePaid, LiveChecks
<1> QED
  BY <1>1, <1>2, TypeCorrect, NobodyDeletes, NextPaysTheList, PTL DEF Spec

-----------------------------------------------------------------------------
(* The summary counts the complete paychecks *)

Complete == {i \in Rows : row[i] = "live" /\ complete[i]}

SummaryIsRight == Died \in failed \/ summary = Cardinality(Complete)

\* A loop has counted the complete paychecks so far, because it began with none:
\* a run that can be calculated without a purge has no live paycheck. Outside of
\* the loop the summary is right unless a calculation died, or none is left.
CountsComplete ==
  /\ Reviewed => SummaryIsRight
  /\ status = "draft" /\ ~deleted => NoLiveCheck
  /\ \A r \in Requests :
       /\ pc[r] \in {"idle", "calculate", "purge", "mark"} => counted[r] = 0
       /\ pc[r] \in Calculating => ~Reviewed /\ ~deleted
       /\ pc[r] = "mark" => NoLiveCheck
       /\ pc[r] \in Looping \union {"reissue"} => status # "draft" \/ deleted
       /\ pc[r] \in Looping => counted[r] = Cardinality(Complete)
       /\ pc[r] = "components" => row[check[r]] = "live" /\ ~complete[check[r]]
       /\ pc[r] \in {"review", "approve", "reissue"} => SummaryIsRight
  /\ (\A r \in Requests : pc[r] \notin Looping) => NoLiveCheck \/ SummaryIsRight

LEMMA CompleteIsFinite == IsFiniteSet(Complete) /\ Cardinality(Complete) \in Nat
<1>1. IsFiniteSet(Rows)
  BY FS_Interval, PayrollRunAssumption DEF Rows
<1>2. Complete \subseteq Rows
  BY DEF Complete
<1> QED
  BY <1>1, <1>2, FS_Subset, FS_CardinalityType

\* A run without a paycheck counts none.
LEMMA NoneIsComplete == NoLiveCheck => Cardinality(Complete) = 0
<1>1. NoLiveCheck => Complete = {}
  BY DEF NoLiveCheck, Complete
<1> QED
  BY <1>1, FS_EmptySet

\* A new paycheck does not count before it has its components.
LEMMA InsertedIsIncomplete ==
  ASSUME ChecksTypeOK, NEW i \in Rows, NEW l, InsertPaycheck(i, l)
  PROVE  /\ Complete' = Complete /\ row'[i] = "live" /\ ~complete'[i]
         /\ ~NoLiveCheck'
<1>1. row[i] = "absent" /\ row'[i] = "live" /\ ~complete'[i]
  BY DEF ChecksTypeOK, InsertPaycheck
<1>2. \A j \in Rows \ {i} : row'[j] = row[j] /\ complete'[j] = complete[j]
  BY DEF ChecksTypeOK, InsertPaycheck
<1> QED
  BY <1>1, <1>2 DEF Complete, NoLiveCheck

\* A step that leaves the rows and the summary alone and works in no loop.
LEMMA CountingStep ==
  ASSUME CountsComplete, NonOverlapping, NEW r \in Requests,
         UNCHANGED <<row, complete, summary>>,
         failed \subseteq failed',
         status' = "draft" /\ ~deleted' => status = "draft" /\ ~deleted,
         Reviewed' => Reviewed \/ SummaryIsRight,
         pc[r] \in Looping => pc'[r] \notin Looping /\ Died \in failed',
         pc'[r] \in {"idle", "calculate", "purge", "mark"} => counted'[r] = 0,
         pc'[r] \in Calculating => ~Reviewed' /\ ~deleted' /\ pc'[r] \notin Looping,
         pc'[r] = "mark" => NoLiveCheck,
         pc'[r] = "reissue" => status' # "draft" \/ deleted',
         pc'[r] \in {"review", "approve", "reissue"} => SummaryIsRight
  PROVE  CountsComplete'
<1>1. \A q \in Requests : q = r
  BY DEF NonOverlapping
<1>2. Complete' = Complete
  BY DEF Complete
<1>3. (NoLiveCheck' <=> NoLiveCheck) /\ (SummaryIsRight => SummaryIsRight')
  BY <1>2 DEF NoLiveCheck, SummaryIsRight
<1>4. Reviewed' => SummaryIsRight'
  BY <1>3 DEF CountsComplete
<1>5. status' = "draft" /\ ~deleted' => NoLiveCheck'
  BY <1>3 DEF CountsComplete
<1>6. NoLiveCheck' \/ SummaryIsRight'
  <2>1. CASE pc[r] \in Looping
    BY <2>1 DEF SummaryIsRight
  <2>2. CASE pc[r] \notin Looping
    BY <1>1, <1>3, <2>2 DEF CountsComplete
  <2> QED
    BY <2>1, <2>2
<1>7. pc'[r] \notin Looping
  BY DEF Calculating
<1> QED
  BY <1>1, <1>3, <1>4, <1>5, <1>6, <1>7 DEF CountsComplete, Looping

\* A step of a loop: it stays in the loop, and what it has counted is complete.
LEMMA LoopingStep ==
  ASSUME CountsComplete, NonOverlapping, NEW r \in Requests,
         pc[r] \in Looping, pc'[r] \in Looping,
         UNCHANGED <<status, deleted>>,
         counted'[r] = Cardinality(Complete'),
         pc'[r] = "components" => row'[check'[r]] = "live" /\ ~complete'[check'[r]]
  PROVE  CountsComplete'
<1>1. \A q \in Requests : q = r
  BY DEF NonOverlapping
<1>2. ~Reviewed /\ ~deleted /\ status # "draft"
  BY DEF CountsComplete, Calculating
<1>3. ~Reviewed'
  BY <1>2 DEF Reviewed
<1>4. pc'[r] \notin {"idle", "calculate", "purge", "mark", "review", "approve", "reissue"}
  BY DEF Looping
<1> QED
  BY <1>1, <1>2, <1>3, <1>4 DEF CountsComplete

LEMMA NextCountsComplete ==
  ASSUME NonOverlapping, "deleteCheck" \notin Operations,
         RunUpdates \cap {"draft", "calculated", "approved"} = {}
  PROVE  TypeOK /\ CountsComplete /\ (\A r \in Requests : pc[r] # "deleteCheck") /\ [Next]_vars
           => CountsComplete'
<1> SUFFICES ASSUME TypeOK, CountsComplete, \A r \in Requests : pc[r] # "deleteCheck", [Next]_vars
             PROVE  CountsComplete'
  OBVIOUS
<1> USE DEF TypeOK, RunTypeOK, ChecksTypeOK, RequestsTypeOK, Goto, End, runRow, checks, locals
<1>1. ASSUME NEW r \in Requests, Calculate(r) PROVE CountsComplete'
  <2>0. pc[r] \in Looping =>
          ~Reviewed /\ ~deleted /\ status # "draft" /\ counted[r] = Cardinality(Complete)
    BY DEF CountsComplete, Calculating
  <2>1. CASE CalculateRead(r)
    <3>1. status = "draft" => NoLiveCheck
      BY <2>1 DEF CalculateRead, CountsComplete
    <3>2. counted'[r] = 0
      BY <2>1 DEF CalculateRead, CountsComplete
    <3> QED
      BY <2>1, <3>1, <3>2, CountingStep DEF CalculateRead, Reviewed, Looping, Calculating
  <2>2. CASE CalculateRefused(r)
    BY <2>2, CountingStep DEF CalculateRefused, Reviewed, Looping, Calculating
  <2>3. CASE CalculatePurge(r)
    <3>1. /\ NoLiveCheck' /\ pc'[r] = "mark" /\ counted'[r] = 0
          /\ ~Reviewed' /\ ~deleted' /\ \A q \in Requests : q = r
      BY <2>3 DEF CalculatePurge, NoLiveCheck, CountsComplete, Reviewed, Calculating, NonOverlapping
    <3> QED
      BY <3>1 DEF CountsComplete, Looping
  <2>4. CASE CalculateMark(r)
    <3>1. /\ NoLiveCheck /\ counted[r] = 0 /\ ~deleted
          /\ pc'[r] = "loop" /\ counted'[r] = 0 /\ ~deleted' /\ status' = "calculating"
          /\ row' = row /\ complete' = complete
      BY <2>4 DEF CalculateMark, CountsComplete, WriteStatus, Calculating
    <3>2. NoLiveCheck' /\ Complete' = Complete
      BY <3>1 DEF NoLiveCheck, Complete
    <3>3. counted'[r] = Cardinality(Complete')
      BY <3>1, <3>2, NoneIsComplete
    <3>4. ~Reviewed' /\ \A q \in Requests : q = r
      BY <3>1 DEF Reviewed, NonOverlapping
    <3> QED
      BY <3>1, <3>2, <3>3, <3>4 DEF CountsComplete, Looping
  <2>5. ASSUME NEW l \in Lines, CalculateEmployeeFails(r, l) PROVE CountsComplete'
    <3>1. pc[r] = "loop" /\ pc'[r] = "loop" /\ counted' = counted /\ Complete' = Complete
      BY <2>5 DEF CalculateEmployeeFails, Complete
    <3> QED
      BY <2>0, <2>5, <3>1, LoopingStep DEF CalculateEmployeeFails, Looping
  <2>6. ASSUME NEW l \in Lines, NEW i \in Rows, CalculatePaycheck(r, l, i) PROVE CountsComplete'
    <3>1. /\ pc[r] = "loop" /\ pc'[r] = "components" /\ counted' = counted /\ check'[r] = i
          /\ InsertPaycheck(i, l) /\ UNCHANGED <<status, deleted>>
      BY <2>6 DEF CalculatePaycheck
    <3>2. Complete' = Complete /\ row'[i] = "live" /\ ~complete'[i]
      BY <3>1, InsertedIsIncomplete
    <3> QED
      BY <2>0, <3>1, <3>2, LoopingStep DEF Looping
  <2>7. CASE CalculateComponents(r)
    <3>1. /\ pc[r] = "components" /\ pc'[r] = "loop" /\ counted'[r] = counted[r] + 1
          /\ complete' = [complete EXCEPT ![check[r]] = TRUE] /\ row' = row
          /\ UNCHANGED <<status, deleted>>
      BY <2>7 DEF CalculateComponents
    <3>2. check[r] \in Rows /\ row[check[r]] = "live" /\ ~complete[check[r]]
      BY <3>1 DEF CountsComplete, WithCheck
    <3>3. Complete' = Complete \union {check[r]} /\ check[r] \notin Complete
      BY <3>1, <3>2 DEF Complete
    <3>4. Cardinality(Complete') = Cardinality(Complete) + 1
      BY <3>3, CompleteIsFinite, FS_AddElement
    <3>5. counted'[r] = Cardinality(Complete')
      BY <2>0, <3>1, <3>4 DEF Looping
    <3> QED
      BY <3>1, <3>5, LoopingStep DEF Looping
  <2>8. CASE CalculateComponentsFail(r)
    <3>1. pc[r] = "components" /\ pc'[r] = "loop" /\ counted' = counted /\ Complete' = Complete
      BY <2>8 DEF CalculateComponentsFail, Complete
    <3> QED
      BY <2>0, <2>8, <3>1, LoopingStep DEF CalculateComponentsFail, Looping
  <2>9. CASE CalculateSummary(r)
    <3>1. pc[r] = "loop" /\ row' = row /\ complete' = complete /\ failed' = failed
      BY <2>9 DEF CalculateSummary
    <3>2. status' = "calculating" /\ summary' = counted[r] /\ ~deleted'
      BY <2>0, <2>9, <3>1 DEF CalculateSummary, Looping
    <3>3. /\ pc'[r] \in {"idle", "finalize"}
          /\ pc'[r] = "idle" => counted'[r] = 0
      BY <2>9 DEF CalculateSummary
    <3>4. Complete' = Complete
      BY <3>1 DEF Complete
    <3>5. SummaryIsRight'
      BY <2>0, <3>1, <3>2, <3>4 DEF SummaryIsRight, Looping
    <3>6. ~Reviewed' /\ \A q \in Requests : q = r
      BY <3>2 DEF Reviewed, NonOverlapping
    <3> QED
      BY <3>2, <3>3, <3>5, <3>6 DEF CountsComplete, Looping, Calculating
  <2> QED
    BY <1>1, <2>1, <2>2, <2>3, <2>4, <2>5, <2>6, <2>7, <2>8, <2>9 DEF Calculate
<1>2. ASSUME NEW r \in Requests, Lifecycle(r) PROVE CountsComplete'
  <2>1. failed' = failed /\ row' = row /\ complete' = complete /\ summary' = summary
    BY <1>2 DEF Lifecycle, ReviewRead, ReviewList, ReviewWrite, FinalizeRead, FinalizeRefused,
       FinalizeWrite, ProcessRead, CancelRead, CancelWrite, DeleteRead, DeleteWrite, WriteStatus
  <2>2. pc[r] \notin Looping /\ pc'[r] \notin Calculating \union {"reissue"}
    BY <1>2 DEF Lifecycle, ReviewRead, ReviewList, ReviewWrite, FinalizeRead, FinalizeRefused,
       FinalizeWrite, ProcessRead, CancelRead, CancelWrite, DeleteRead, DeleteWrite, Calculating,
       Looping
  <2>3. pc'[r] = "review" => SummaryIsRight
    <3> SUFFICES ASSUME pc'[r] = "review" PROVE SummaryIsRight
      OBVIOUS
    <3>1. ReviewList(r)
      BY <1>2 DEF Lifecycle, ReviewRead, ReviewList, ReviewWrite, FinalizeRead, FinalizeRefused,
         FinalizeWrite, ProcessRead, CancelRead, CancelWrite, DeleteRead, DeleteWrite
    <3>2. ~NoLiveCheck /\ \A q \in Requests : q = r
      BY <3>1 DEF ReviewList, LiveChecks, NoLiveCheck, NonOverlapping
    <3> QED
      BY <2>2, <3>2 DEF CountsComplete
  <2>4. pc'[r] = "approve" => SummaryIsRight
    <3> SUFFICES ASSUME pc'[r] = "approve" PROVE SummaryIsRight
      OBVIOUS
    <3>1. FinalizeRead(r)
      BY <1>2 DEF Lifecycle, ReviewRead, ReviewList, ReviewWrite, FinalizeRead, FinalizeRefused,
         FinalizeWrite, ProcessRead, CancelRead, CancelWrite, DeleteRead, DeleteWrite
    <3> QED
      BY <3>1 DEF FinalizeRead, Reviewed, CountsComplete
  <2>5. Reviewed' => Reviewed \/ SummaryIsRight
    <3>1. CASE ReviewWrite(r) \/ FinalizeWrite(r)
      BY <3>1 DEF ReviewWrite, FinalizeWrite, CountsComplete
    <3>2. CASE ~(ReviewWrite(r) \/ FinalizeWrite(r))
      BY <1>2, <3>2 DEF Lifecycle, ReviewRead, ReviewList, FinalizeRead, FinalizeRefused,
         ProcessRead, CancelRead, CancelWrite, DeleteRead, DeleteWrite, WriteStatus, Reviewed
    <3> QED
      BY <3>1, <3>2
  <2>6. status' = "draft" /\ ~deleted' => status = "draft" /\ ~deleted
    BY <1>2 DEF Lifecycle, ReviewRead, ReviewList, ReviewWrite, FinalizeRead, FinalizeRefused,
       FinalizeWrite, ProcessRead, CancelRead, CancelWrite, DeleteRead, DeleteWrite, WriteStatus
  <2>7. pc'[r] \in {"idle", "calculate"} => counted'[r] = 0
    <3>1. CASE ProcessRead(r)
      BY <3>1 DEF ProcessRead, CountsComplete
    <3>2. CASE ~ProcessRead(r)
      BY <1>2, <3>2 DEF Lifecycle, ReviewRead, ReviewList, ReviewWrite, FinalizeRead,
         FinalizeRefused, FinalizeWrite, CancelRead, CancelWrite, DeleteRead, DeleteWrite
    <3> QED
      BY <3>1, <3>2
  <2> QED
    BY <2>1, <2>2, <2>3, <2>4, <2>5, <2>6, <2>7, CountingStep DEF Calculating
<1>3. ASSUME NEW r \in Requests, OnPaycheck(r) PROVE CountsComplete'
  <2>1. ASSUME NEW i \in Rows, VoidRead(r, i) PROVE CountsComplete'
    BY <2>1, CountingStep DEF VoidRead, PaycheckRead, Reviewed, Looping, Calculating
  <2>2. ASSUME NEW i \in Rows, ReissueRead(r, i) PROVE CountsComplete'
    <3>1. ~NoLiveCheck /\ \A q \in Requests : pc[q] = "idle"
      BY <2>2 DEF ReissueRead, PaycheckRead, NoLiveCheck, NonOverlapping
    <3>2. SummaryIsRight /\ (status # "draft" \/ deleted)
      BY <3>1 DEF CountsComplete, Looping
    <3> QED
      BY <2>2, <3>2, CountingStep DEF ReissueRead, PaycheckRead, Reviewed, Looping, Calculating
  <2>3. ASSUME NEW i \in Rows PROVE ~DeletePaycheckRead(r, i)
    BY DEF DeletePaycheckRead, PaycheckRead
  <2>4. CASE VoidWrite(r)
    BY <2>4, CountingStep DEF VoidWrite, Reviewed, Looping, Calculating
  <2>5. ASSUME NEW i \in Rows, ReissueWrite(r, i) PROVE CountsComplete'
    <3>1. /\ pc[r] = "reissue" /\ InsertPaycheck(i, line[check[r]])
          /\ UNCHANGED <<status, deleted, summary, failed>>
          /\ pc'[r] = "idle" /\ counted'[r] = 0
      BY <2>5 DEF ReissueWrite
    <3>2. SummaryIsRight /\ (status # "draft" \/ deleted) /\ \A q \in Requests : q = r
      BY <3>1 DEF CountsComplete, NonOverlapping
    <3>3. Complete' = Complete
      BY <3>1, InsertedIsIncomplete
    <3>4. SummaryIsRight'
      BY <3>1, <3>2, <3>3 DEF SummaryIsRight
    <3> QED
      BY <3>1, <3>2, <3>4 DEF CountsComplete, Looping, Calculating
  <2>6. ~DeletePaycheckWrite(r)
    BY DEF DeletePaycheckWrite
  <2> QED
    BY <1>3, <2>1, <2>2, <2>3, <2>4, <2>5, <2>6 DEF OnPaycheck
<1>4. ASSUME NEW r \in Requests, Abort(r) PROVE CountsComplete'
  BY <1>4, CountingStep DEF Abort, Reviewed, Looping, Calculating
<1>5. ASSUME UNCHANGED <<row, complete, summary, deleted, pc, counted, check, failed>>,
             \/ status' = status
             \/ status' \notin {"draft", "calculated", "approved"}
      PROVE  CountsComplete'
  <2>1. Complete' = Complete
    BY <1>5 DEF Complete
  <2>2. NoLiveCheck' = NoLiveCheck /\ SummaryIsRight' = SummaryIsRight
    BY <1>5, <2>1 DEF NoLiveCheck, SummaryIsRight
  <2>3. Reviewed' => Reviewed
    BY <1>5 DEF Reviewed
  <2> QED
    BY <1>5, <2>1, <2>2, <2>3 DEF CountsComplete
<1>6. ASSUME NEW s \in RunUpdates, UpdateRun(s) PROVE CountsComplete'
  BY <1>5, <1>6 DEF UpdateRun, WriteStatus, requests
<1>7. ASSUME NEW i \in Rows, NEW s \in CheckUpdates, UpdatePaycheck(i, s) PROVE CountsComplete'
  BY <1>5, <1>7 DEF UpdatePaycheck, requests
<1>8. CASE UNCHANGED vars
  BY <1>5, <1>8 DEF vars
<1> QED
  BY <1>1, <1>2, <1>3, <1>4, <1>6, <1>7, <1>8 DEF Next

\* As long as requests do not overlap, no paycheck is deleted by hand and no
\* client writes such a status itself, the employee total of a reviewed run is
\* the number of its complete paychecks, whichever employees failed, unless a
\* calculation died (calculatePayroll counts an employee after the last of the
\* components, updatePayrollRunSummary writes the count).
THEOREM SummaryCountsCompleteHolds ==
  ASSUME NonOverlapping, "deleteCheck" \notin Operations,
         RunUpdates \cap {"draft", "calculated", "approved"} = {}
  PROVE  Spec => []SummaryCountsComplete
<1>1. Init => CountsComplete
  BY DEF Init, CountsComplete, Reviewed, Calculating, Looping, NoLiveCheck
<1>2. CountsComplete => SummaryCountsComplete
  <2>1. Complete = {i \in LiveChecks : complete[i]}
    BY DEF Complete, LiveChecks
  <2> QED
    BY <2>1 DEF CountsComplete, SummaryIsRight, SummaryCountsComplete
<1> QED
  BY <1>1, <1>2, TypeCorrect, NobodyDeletes, NextCountsComplete, PTL DEF Spec

=============================================================================
