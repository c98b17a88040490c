---------------------------- MODULE Compensation ----------------------------
(***************************************************************************)
(* What one employee is paid: the rows of payroll.compensation, and the    *)
(* employee's payroll record, whose metadata notes an amount of its own    *)
(* that every edit of the record copies into the rows.                     *)
(*                                                                         *)
(* Nothing runs in a transaction: a creation upserts one row and retires   *)
(* the others in a second statement, an edit of the record is up to four   *)
(* statements. The database keeps one row per effective date, deleted rows *)
(* included, and refuses an effective_to before the effective_from. A      *)
(* payroll run lists the employee once for every current row.              *)
(*                                                                         *)
(* A request whose process dies, or whose statement is rejected for a      *)
(* reason that is not modelled, is one that never takes its next step.     *)
(***************************************************************************)
EXTENDS Integers

CONSTANTS
  Requests,    \* requests that may be in flight at once
  Rows,        \* compensations, at least as many as Dates
  Dates,       \* bound: days on which a compensation may begin or end
  Amounts,     \* amounts a compensation may have, all positive
  None,        \* no date, no amount, no row
  Keep         \* a field that a request leaves out

ASSUME CompensationAssumption ==
  /\ Dates \subseteq Int
  /\ None \notin Dates \union Amounts \union Rows
  /\ Keep \notin Dates \union Amounts \union {None}

VARIABLES
  from, until,     \* effective_from (None: there is no such row), effective_to
  current,         \* is_current
  deleted,         \* deleted_at is set
  amount,
  today,
  noted,           \* the amount in the record's metadata, or None
  recordDeleted,   \* the record's deleted_at is set
  pc,              \* the await each request stands at
  date,            \* the effective date of the row it upserted
  salary,          \* the amount an edit of the record is about
  byEmployee,      \* it names the employee, not the payroll record
  target,          \* the row it found to amend
  late,            \* history: rows made current under a row with a later date
  redated          \* history: some row has had its effective_from edited

table   == <<from, until, current, deleted, amount>>
record  == <<noted, recordDeleted>>
edit    == <<salary, byEmployee, target>>
history == <<late, redated>>
vars    == <<from, until, current, deleted, amount, today, noted, recordDeleted,
             pc, date, salary, byEmployee, target, late, redated>>

TableOK ==
  /\ from \in [Rows -> Dates \union {None}]
  /\ until \in [Rows -> Dates \union {None}]
  /\ current \in [Rows -> BOOLEAN]
  /\ deleted \in [Rows -> BOOLEAN]
  /\ amount \in [Rows -> Amounts \union {None}]
  /\ \A i \in Rows : from[i] = None => ~current[i] /\ ~deleted[i] /\ until[i] = None
  /\ \A i \in Rows : until[i] # None => until[i] >= from[i]
  /\ \A i, j \in Rows : from[i] = from[j] /\ from[i] # None => i = j

RequestsOK ==
  /\ pc \in [Requests -> {"idle", "retire", "record", "sync", "adopt", "amend"}]
  /\ date \in [Requests -> Dates \union {None}]
  /\ salary \in [Requests -> Amounts \union {None, Keep}]
  /\ byEmployee \in [Requests -> BOOLEAN]
  /\ target \in [Requests -> Rows \union {None}]
  /\ \A r \in Requests :
       /\ pc[r] = "retire" => date[r] \in Dates
       /\ pc[r] \in {"sync", "adopt", "amend"} => salary[r] \in Amounts
       /\ pc[r] = "amend" => target[r] \in Rows /\ from[target[r]] # None

TypeOK ==
  /\ TableOK
  /\ RequestsOK
  /\ today \in Dates
  /\ noted \in Amounts \union {None}
  /\ recordDeleted \in BOOLEAN
  /\ late \subseteq Rows
  /\ redated \in BOOLEAN

Init ==
  /\ from = [i \in Rows |-> None] /\ until = [i \in Rows |-> None]
  /\ current = [i \in Rows |-> FALSE] /\ deleted = [i \in Rows |-> FALSE]
  /\ amount = [i \in Rows |-> None]
  /\ today \in Dates
  /\ noted \in Amounts \union {None}
  /\ recordDeleted = FALSE
  /\ pc = [r \in Requests |-> "idle"]
  /\ date = [r \in Requests |-> None]
  /\ salary = [r \in Requests |-> None]
  /\ byEmployee = [r \in Requests |-> FALSE]
  /\ target = [r \in Requests |-> None]
  /\ late = {} /\ redated = FALSE

-----------------------------------------------------------------------------
(* Helpers *)

Goto(r, there) == pc' = [pc EXCEPT ![r] = there]

\* The request is answered.
End(r) ==
  /\ Goto(r, "idle")
  /\ date' = [date EXCEPT ![r] = None]
  /\ salary' = [salary EXCEPT ![r] = None]
  /\ byEmployee' = [byEmployee EXCEPT ![r] = FALSE]
  /\ target' = [target EXCEPT ![r] = None]

\* findCurrentCompensation: any of the current rows that are not deleted.
LiveCurrent == {i \in Rows : current[i] /\ ~deleted[i]}

\* Plausible bug: the key leaves deleted rows out.
BugLiveRowFor(d) ==
  IF \E i \in Rows : from[i] = d /\ ~deleted[i]
    THEN {i \in Rows : from[i] = d /\ ~deleted[i]}
    ELSE {i \in Rows : from[i] = None}

\* The row of that date, deleted or not, or else a new one.
RowFor(d) ==
  IF \E i \in Rows : from[i] = d THEN {i \in Rows : from[i] = d}
                                 ELSE {i \in Rows : from[i] = None}

\* The first statement of createCompensation: insert, or on a conflict of the
\* date overwrite the row and make it current. Its effective_to and deleted_at
\* stay what they are.
Upsert(r, d, a) ==
  \E i \in RowFor(d) :
    /\ from' = [from EXCEPT ![i] = d]
    /\ amount' = [amount EXCEPT ![i] = a]
    /\ current' = [current EXCEPT ![i] = TRUE]
    /\ late' = IF \E j \in Rows : current[j] /\ from[j] > d
                 THEN late \union {i} ELSE late \ {i}
    /\ date' = [date EXCEPT ![r] = d]
    /\ Goto(r, "retire")
    /\ UNCHANGED <<until, deleted>>

-----------------------------------------------------------------------------
(* createCompensation *)

Create(r) ==
  /\ pc[r] = "idle"
  /\ \E d \in Dates, a \in Amounts : Upsert(r, d, a)
  /\ UNCHANGED <<today, record, edit, redated>>

\* Plausible bug: deleted rows are not retired.
BugRetireLive(r) ==
  /\ pc[r] = "retire"
  /\ LET others == {i \in LiveCurrent : from[i] # date[r]}
     IN  IF \E i \in others : from[i] > date[r]
           THEN UNCHANGED <<current, until>>
           ELSE /\ current' = [i \in Rows |-> current[i] /\ i \notin others]
                /\ until' = [i \in Rows |-> IF i \in others THEN date[r] ELSE until[i]]
  /\ End(r)
  /\ UNCHANGED <<from, deleted, amount, today, record, history>>

\* Plausible bug: the table has no check on its dates.
BugRetireAll(r) ==
  /\ pc[r] = "retire"
  /\ LET others == {i \in Rows : current[i] /\ from[i] # date[r]}
     IN  /\ current' = [i \in Rows |-> current[i] /\ i \notin others]
         /\ until' = [i \in Rows |-> IF i \in others THEN date[r] ELSE until[i]]
  /\ End(r)
  /\ UNCHANGED <<from, deleted, amount, today, record, history>>

\* The second statement ends every other current row, deleted ones too, on the
\* date of the new one. One that begins later would end before it begins: the
\* check on the dates then rejects the statement as a whole, and the row that
\* was upserted stays.
Retire(r) ==
  /\ pc[r] = "retire"
  /\ LET others == {i \in Rows : current[i] /\ from[i] # date[r]}
     IN  IF \E i \in others : from[i] > date[r]
           THEN UNCHANGED <<current, until>>
           ELSE /\ current' = [i \in Rows |-> current[i] /\ i \notin others]
                /\ until' = [i \in Rows |-> IF i \in others THEN date[r] ELSE until[i]]
  /\ End(r)
  /\ UNCHANGED <<from, deleted, amount, today, record, history>>

-----------------------------------------------------------------------------
(* updateCompensation, deleteCompensation: the write looks again *)

\* Any of the amount, the effective date and the end date is given; an
\* effective date without an end date also makes the row current, and no other
\* row is retired.
UpdateCompensation(i, a, d, u) ==
  LET begin == IF d = Keep THEN from[i] ELSE d
      end   == IF u = Keep THEN until[i] ELSE u
  IN  /\ from[i] # None /\ ~deleted[i]
      /\ \A j \in Rows \ {i} : from[j] # begin
      /\ end # None => end >= begin
      /\ from' = [from EXCEPT ![i] = begin]
      /\ until' = [until EXCEPT ![i] = end]
      /\ amount' = [amount EXCEPT ![i] = IF a = Keep THEN @ ELSE a]
      /\ current' = [current EXCEPT ![i] = @ \/ (d # Keep /\ u = Keep)]
      /\ redated' = (redated \/ d # Keep)
      /\ UNCHANGED <<deleted, today, record, pc, date, edit, late>>

\* The row stays current, and no other becomes it.
DeleteCompensation(i) ==
  /\ from[i] # None /\ ~deleted[i]
  /\ deleted' = [deleted EXCEPT ![i] = TRUE]
  /\ UNCHANGED <<from, until, current, amount, today, record, pc, date, edit, history>>

-----------------------------------------------------------------------------
(* updateEmployeeRecord, deleteEmployeeRecord *)

\* The record is read, and the metadata of the request laid over what was read:
\* the amount to write is that of the request, none, the one that was read, or
\* (a request without metadata) whatever the record will say. The URL may hold
\* the id of the record or that of the employee.
ReadRecord(r) ==
  /\ pc[r] = "idle"
  /\ ~recordDeleted
  /\ \E a \in Amounts \union {None, Keep} : salary' = [salary EXCEPT ![r] = a]
  /\ \E b \in BOOLEAN : byEmployee' = [byEmployee EXCEPT ![r] = b]
  /\ Goto(r, "record")
  /\ UNCHANGED <<table, today, record, date, target, history>>

\* The row the UPDATE returns says whether there is an amount to copy. (If the
\* record was deleted there is no row, and a TypeError.)
WriteRecord(r) ==
  /\ pc[r] = "record"
  /\ noted' = IF salary[r] = Keep \/ recordDeleted THEN noted ELSE salary[r]
  /\ IF noted' = None \/ recordDeleted
       THEN End(r)
       ELSE /\ salary' = [salary EXCEPT ![r] = noted']
            /\ Goto(r, "sync")
            /\ UNCHANGED <<date, byEmployee, target>>
  /\ UNCHANGED <<table, today, recordDeleted, history>>

\* The current compensation is looked up with the id of the URL, so that the
\* id of a record finds none.
SyncFind(r) ==
  /\ pc[r] = "sync"
  /\ \/ /\ byEmployee[r]
        /\ \E i \in LiveCurrent :
             IF amount[i] = salary[r]
               THEN End(r)
               ELSE /\ target' = [target EXCEPT ![r] = i]
                    /\ Goto(r, "amend")
                    /\ UNCHANGED <<date, salary, byEmployee>>
     \/ /\ byEmployee[r] => LiveCurrent = {}
        /\ Goto(r, "adopt")
        /\ UNCHANGED <<date, edit>>
  /\ UNCHANGED <<table, today, record, history>>

\* No current compensation: one is created as of today.
Adopt(r) ==
  /\ pc[r] = "adopt"
  /\ Upsert(r, today, salary[r])
  /\ UNCHANGED <<today, record, edit, redated>>

\* The one that was found gets the amount, if it has not been deleted.
Amend(r) ==
  /\ pc[r] = "amend"
  /\ amount' = [amount EXCEPT ![target[r]] = IF deleted[target[r]] THEN @ ELSE salary[r]]
  /\ End(r)
  /\ UNCHANGED <<from, until, current, deleted, today, record, history>>

DeleteRecord ==
  /\ ~recordDeleted
  /\ recordDeleted' = TRUE
  /\ UNCHANGED <<table, today, noted, pc, date, edit, history>>

NextDay ==
  /\ today + 1 \in Dates
  /\ today' = today + 1
  /\ UNCHANGED <<table, record, pc, date, edit, history>>

-----------------------------------------------------------------------------
Edit(r) == ReadRecord(r) \/ WriteRecord(r) \/ SyncFind(r) \/ Adopt(r) \/ Amend(r)

Next ==
  \/ \E r \in Requests : Create(r) \/ Retire(r) \/ Edit(r)
  \/ \E i \in Rows :
       \/ \E a \in Amounts \union {Keep}, d, u \in Dates \union {Keep} :
            UpdateCompensation(i, a, d, u)
       \/ DeleteCompensation(i)
  \/ DeleteRecord
  \/ NextDay

Spec == Init /\ [][Next]_vars

-----------------------------------------------------------------------------
(* Properties *)

\* However creations, deletions and edits of the record overlap, the row with
\* the latest effective date is current: a statement that would retire it for
\* an earlier one is refused. (Until somebody edits an effective date.)
NewestIsCurrent ==
  ~redated =>
    \A i \in Rows :
      from[i] # None /\ (\A j \in Rows : from[j] # None => from[j] <= from[i]) => current[i]

\* Two rows are current, and the employee is listed and paid twice, only if
\* the earlier one was created after the later one, or while the request that
\* made a later one current has not yet retired the others, or died before it.
OnlyLateRowsLinger ==
  ~redated =>
    \A i, j \in Rows :
      current[i] /\ current[j] /\ from[i] < from[j] =>
        \/ i \in late
        \/ \E r \in Requests : pc[r] = "retire" /\ date[r] >= from[j]
=============================================================================
