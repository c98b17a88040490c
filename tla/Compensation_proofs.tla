------------------------ MODULE Compensation_proofs ------------------------
(***************************************************************************)
(* Proofs about Compensation, for any requests, rows, dates and amounts.   *)
(*                                                                         *)
(* The strengthening is RetiringRowExists: the row a request upserted is   *)
(* still there, at its date, when the others are retired. With it, the row *)
(* with the latest date is never among those retired, because a retirement *)
(* that would end a later row than its own is refused.                     *)
(***************************************************************************)
EXTENDS Compensation, TLAPS

RetiringRowExists ==
  ~redated =>
    \A r \in Requests : pc[r] = "retire" => \E i \in Rows : from[i] = date[r]

Inv == TypeOK /\ RetiringRowExists /\ NewestIsCurrent /\ OnlyLateRowsLinger

\* The invariant holds at the start: there are no rows.
LEMMA InitInv == Init => Inv
  BY CompensationAssumption
  DEF Init, Inv, TypeOK, TableOK, RequestsOK, RetiringRowExists, NewestIsCurrent, OnlyLateRowsLinger

-----------------------------------------------------------------------------
(* Types *)

\* The first statement of createCompensation leaves the table well formed, and
\* at one row at most per date.
LEMMA UpsertTable ==
  ASSUME TypeOK, NEW r \in Requests, NEW d \in Dates, NEW a \in Amounts, Upsert(r, d, a)
  PROVE  TableOK' /\ late' \subseteq Rows /\ (\A i \in Rows : from[i] # None => from'[i] = from[i])
<1>1. PICK i \in RowFor(d) :
        /\ from' = [from EXCEPT ![i] = d]
        /\ amount' = [amount EXCEPT ![i] = a]
        /\ current' = [current EXCEPT ![i] = TRUE]
        /\ late' = IF \E j \in Rows : current[j] /\ from[j] > d
                     THEN late \union {i} ELSE late \ {i}
        /\ UNCHANGED <<until, deleted>>
  BY DEF Upsert
<1>2. i \in Rows /\ (from[i] = d \/ (from[i] = None /\ \A j \in Rows : from[j] # d))
  BY DEF RowFor
<1>3. d # None
  BY CompensationAssumption
<1> QED
  BY <1>1, <1>2, <1>3 DEF TypeOK, TableOK

\* The second statement does too: it is refused where it would not.
LEMMA RetireTable ==
  ASSUME TypeOK, NEW r \in Requests, Retire(r)
  PROVE  TableOK'
<1> DEFINE others == {i \in Rows : current[i] /\ from[i] # date[r]}
<1>1. CASE \E i \in others : from[i] > date[r]
  BY <1>1 DEF Retire, TypeOK, TableOK
<1>2. CASE ~ \E i \in others : from[i] > date[r]
  <2>1. /\ current' = [i \in Rows |-> current[i] /\ i \notin others]
        /\ until' = [i \in Rows |-> IF i \in others THEN date[r] ELSE until[i]]
        /\ UNCHANGED <<from, deleted, amount>>
    BY <1>2 DEF Retire
  <2>2. date[r] \in Dates /\ date[r] # None
    BY CompensationAssumption DEF Retire, TypeOK, RequestsOK
  <2>3. \A i \in others : from[i] \in Int /\ from[i] # None /\ from[i] <= date[r]
    <3>1. \A i \in others : i \in Rows /\ from[i] # None
      BY DEF TypeOK, TableOK
    <3>2. \A i \in others : from[i] \in Int /\ date[r] \in Int
      BY <2>2, <3>1, CompensationAssumption DEF TypeOK, TableOK
    <3>3. \A i \in others : ~(from[i] > date[r])
      BY <1>2
    <3> HIDE DEF others
    <3> QED
      BY <3>1, <3>2, <3>3
  <2>4. \A i \in Rows : until'[i] # None => until'[i] >= from'[i]
    BY <2>1, <2>2, <2>3, CompensationAssumption DEF TypeOK, TableOK
  <2>5. \A i \in Rows : from'[i] = None => ~current'[i] /\ ~deleted'[i] /\ until'[i] = None
    BY <2>1, <2>3 DEF TypeOK, TableOK
  <2>6. /\ current' \in [Rows -> BOOLEAN]
        /\ until' \in [Rows -> Dates \union {None}]
    BY <2>1, <2>2 DEF TypeOK, TableOK
  <2> QED
    BY <2>1, <2>4, <2>5, <2>6 DEF TypeOK, TableOK
<1> QED
  BY <1>1, <1>2

\* updateCompensation keeps a row's dates in order and apart from those of the
\* other rows: the database checks both.
LEMMA UpdateTable ==
  ASSUME TypeOK, NEW i \in Rows, NEW a \in Amounts \union {Keep},
         NEW d \in Dates \union {Keep}, NEW u \in Dates \union {Keep},
         UpdateCompensation(i, a, d, u)
  PROVE  TableOK' /\ redated' \in BOOLEAN /\ (\A j \in Rows : from[j] # None => from'[j] # None)
<1> DEFINE begin == IF d = Keep THEN from[i] ELSE d
           end   == IF u = Keep THEN until[i] ELSE u
<1>1. /\ begin \in Dates /\ begin # None
      /\ end \in Dates \union {None}
  BY CompensationAssumption DEF UpdateCompensation, TypeOK, TableOK
<1>2. /\ from[i] # None /\ ~deleted[i]
      /\ \A j \in Rows \ {i} : from[j] # begin
      /\ end # None => end >= begin
      /\ from' = [from EXCEPT ![i] = begin]
      /\ until' = [until EXCEPT ![i] = end]
      /\ amount' = [amount EXCEPT ![i] = IF a = Keep THEN @ ELSE a]
      /\ current' = [current EXCEPT ![i] = @ \/ (d # Keep /\ u = Keep)]
      /\ redated' = (redated \/ d # Keep)
      /\ deleted' = deleted
  BY DEF UpdateCompensation
<1> HIDE DEF begin, end
<1>3. /\ from' \in [Rows -> Dates \union {None}]
      /\ until' \in [Rows -> Dates \union {None}]
      /\ amount' \in [Rows -> Amounts \union {None}]
      /\ deleted' \in [Rows -> BOOLEAN]
  BY <1>1, <1>2 DEF TypeOK, TableOK
<1>4. current' \in [Rows -> BOOLEAN] /\ redated' \in BOOLEAN
  BY <1>2 DEF TypeOK, TableOK
<1>5. /\ \A j \in Rows : from'[j] = IF j = i THEN begin ELSE from[j]
      /\ \A j \in Rows : until'[j] = IF j = i THEN end ELSE until[j]
      /\ \A j \in Rows \ {i} : current'[j] = current[j]
  BY <1>2 DEF TypeOK, TableOK
<1>6. \A j \in Rows : from'[j] = None => ~current'[j] /\ ~deleted'[j] /\ until'[j] = None
  BY <1>1, <1>2, <1>5 DEF TypeOK, TableOK
<1>7. \A j \in Rows : until'[j] # None => until'[j] >= from'[j]
  BY <1>2, <1>5 DEF TypeOK, TableOK
<1>8. \A j, k \in Rows : from'[j] = from'[k] /\ from'[j] # None => j = k
  BY <1>2, <1>5 DEF TypeOK, TableOK
<1> QED
  BY <1>1, <1>3, <1>4, <1>5, <1>6, <1>7, <1>8 DEF TableOK

\* Every step keeps every type.
LEMMA NextTypeOK == TypeOK /\ [Next]_vars => TypeOK'
<1> SUFFICES ASSUME TypeOK, [Next]_vars PROVE TypeOK'
  OBVIOUS
<1>1. ASSUME NEW r \in Requests, NEW d \in Dates, NEW a \in Amounts, Upsert(r, d, a),
             UNCHANGED <<today, record, edit, redated>>
      PROVE  TypeOK'
  <2>1. TableOK' /\ late' \subseteq Rows /\ (\A i \in Rows : from[i] # None => from'[i] = from[i])
    BY <1>1, UpsertTable
  <2>2. pc' = [pc EXCEPT ![r] = "retire"] /\ date' = [date EXCEPT ![r] = d]
    BY <1>1 DEF Upsert, Goto
  <2>3. RequestsOK'
    BY <1>1, <2>1, <2>2 DEF TypeOK, RequestsOK, edit
  <2> QED
    BY <1>1, <2>1, <2>3 DEF TypeOK, record
<1>2. ASSUME NEW r \in Requests, Create(r) PROVE TypeOK'
  BY <1>1, <1>2 DEF Create
<1>3. ASSUME NEW r \in Requests, Retire(r) PROVE TypeOK'
  <2>1. TableOK'
    BY <1>3, RetireTable
  <2>2. RequestsOK'
    BY <1>3 DEF Retire, End, Goto, TypeOK, RequestsOK
  <2> QED
    BY <1>3, <2>1, <2>2 DEF Retire, TypeOK, record, history
<1>4. ASSUME NEW r \in Requests, Edit(r) PROVE TypeOK'
  <2>1. CASE ReadRecord(r)
    BY <2>1 DEF ReadRecord, Goto, TypeOK, TableOK, RequestsOK, table, record, history
  <2>2. CASE WriteRecord(r)
    <3>1. TableOK' /\ noted' \in Amounts \union {None} /\ from' = from
      BY <2>2 DEF WriteRecord, TypeOK, TableOK, RequestsOK, table
    <3>2. RequestsOK'
      <4>1. CASE noted' = None \/ recordDeleted
        BY <2>2, <3>1, <4>1 DEF WriteRecord, End, Goto, TypeOK, RequestsOK
      <4>2. CASE ~(noted' = None \/ recordDeleted)
        <5>1. /\ noted' \in Amounts
              /\ salary' = [salary EXCEPT ![r] = noted']
              /\ pc' = [pc EXCEPT ![r] = "sync"]
              /\ UNCHANGED <<from, date, byEmployee, target>>
          BY <2>2, <3>1, <4>2 DEF WriteRecord, Goto
        <5> QED
          BY <5>1 DEF TypeOK, RequestsOK
      <4> QED
        BY <4>1, <4>2
    <3> QED
      BY <2>2, <3>1, <3>2 DEF WriteRecord, TypeOK, history
  <2>3. CASE SyncFind(r)
    <3>1. TableOK'
      BY <2>3 DEF SyncFind, TypeOK, TableOK, table
    <3>2. RequestsOK'
      <4>1. ASSUME NEW i \in LiveCurrent, target' = [target EXCEPT ![r] = i],
                   Goto(r, "amend"), UNCHANGED <<date, salary, byEmployee, table>>, pc[r] = "sync"
            PROVE  RequestsOK'
        <5>1. i \in Rows /\ from[i] # None
          BY DEF LiveCurrent, TypeOK, TableOK
        <5> QED
          BY <4>1, <5>1 DEF Goto, TypeOK, RequestsOK, table
      <4>2. ASSUME Goto(r, "adopt"), UNCHANGED <<date, edit, table>>, pc[r] = "sync"
            PROVE  RequestsOK'
        BY <4>2 DEF Goto, TypeOK, RequestsOK, table, edit
      <4>3. ASSUME End(r), UNCHANGED table PROVE RequestsOK'
        BY <4>3 DEF End, Goto, TypeOK, RequestsOK, table
      <4> QED
        BY <2>3, <4>1, <4>2, <4>3 DEF SyncFind
    <3> QED
      BY <2>3, <3>1, <3>2 DEF SyncFind, TypeOK, record, history
  <2>4. CASE Adopt(r)
    BY <1>1, <2>4 DEF Adopt, TypeOK, RequestsOK
  <2>5. CASE Amend(r)
    <3>1. TableOK'
      BY <2>5 DEF Amend, TypeOK, TableOK, RequestsOK
    <3>2. RequestsOK'
      BY <2>5 DEF Amend, End, Goto, TypeOK, RequestsOK
    <3> QED
      BY <2>5, <3>1, <3>2 DEF Amend, TypeOK, record, history
  <2> QED
    BY <1>4, <2>1, <2>2, <2>3, <2>4, <2>5 DEF Edit
<1>5. ASSUME NEW i \in Rows, NEW a \in Amounts \union {Keep}, NEW d \in Dates \union {Keep},
             NEW u \in Dates \union {Keep}, UpdateCompensation(i, a, d, u)
      PROVE  TypeOK'
  <2>1. TableOK' /\ redated' \in BOOLEAN /\ (\A j \in Rows : from[j] # None => from'[j] # None)
    BY <1>5, UpdateTable
  <2>2. UNCHANGED <<today, record, pc, date, edit, late>>
    BY <1>5 DEF UpdateCompensation
  <2> QED
    BY <2>1, <2>2 DEF TypeOK, RequestsOK, record, edit
<1>6. ASSUME NEW i \in Rows, DeleteCompensation(i) PROVE TypeOK'
  BY <1>6 DEF DeleteCompensation, TypeOK, TableOK, RequestsOK, record, edit, history
<1>7. CASE DeleteRecord
  BY <1>7 DEF DeleteRecord, TypeOK, TableOK, RequestsOK, table, edit, history
<1>8. CASE NextDay
  BY <1>8 DEF NextDay, TypeOK, TableOK, RequestsOK, table, record, edit, history
<1>9. CASE UNCHANGED vars
  BY <1>9 DEF vars, TypeOK, TableOK, RequestsOK
<1> QED
  BY <1>2, <1>3, <1>4, <1>5, <1>6, <1>7, <1>8, <1>9 DEF Next

\* The rows keep their dates in order, one row to a date, and requests keep to
\* rows that exist, whatever the requests, rows, dates and amounts.
THEOREM TypeCorrect == Spec => []TypeOK
<1>1. Init => TypeOK
  BY InitInv DEF Inv
<1> QED
  BY <1>1, NextTypeOK, PTL DEF Spec

-----------------------------------------------------------------------------
(* Which rows are current *)

Safe == RetiringRowExists /\ NewestIsCurrent /\ OnlyLateRowsLinger

\* A step that touches neither dates nor is_current, nor a request that is
\* about to retire rows.
LEMMA FrameSafe ==
  ASSUME Safe, UNCHANGED <<from, current, late, redated>>,
         \A q \in Requests : /\ pc[q] = "retire" <=> pc'[q] = "retire"
                             /\ pc[q] = "retire" => date'[q] = date[q]
  PROVE  Safe'
  BY DEF Safe, RetiringRowExists, NewestIsCurrent, OnlyLateRowsLinger

\* A row that is upserted is current and its request will retire the others;
\* if that will be refused, because another begins later, the row is late.
LEMMA UpsertSafe ==
  ASSUME TypeOK, Safe, NEW r \in Requests, pc[r] # "retire", NEW d \in Dates, NEW a \in Amounts,
         Upsert(r, d, a), redated' = redated
  PROVE  Safe'
<1>1. PICK i \in RowFor(d) :
        /\ from' = [from EXCEPT ![i] = d]
        /\ current' = [current EXCEPT ![i] = TRUE]
        /\ late' = IF \E j \in Rows : current[j] /\ from[j] > d
                     THEN late \union {i} ELSE late \ {i}
        /\ date' = [date EXCEPT ![r] = d]
        /\ pc' = [pc EXCEPT ![r] = "retire"]
  BY DEF Upsert, Goto
<1>2. i \in Rows /\ (from[i] = d \/ (from[i] = None /\ \A j \in Rows : from[j] # d))
  BY DEF RowFor
<1>3. d # None /\ d \in Int
  BY CompensationAssumption
<1>4. /\ \A j \in Rows : from'[j] = IF j = i THEN d ELSE from[j]
      /\ \A j \in Rows \ {i} : current'[j] = current[j]
      /\ current'[i]
      /\ \A j \in Rows : current[j] => from[j] \in Dates /\ from[j] \in Int
      /\ pc'[r] = "retire" /\ date'[r] = d
      /\ \A q \in Requests \ {r} : pc'[q] = pc[q] /\ date'[q] = date[q]
      /\ \A j \in Rows \ {i} : j \in late' <=> j \in late
  BY <1>1, <1>2, CompensationAssumption DEF TypeOK, TableOK, RequestsOK
<1>5. RetiringRowExists'
  <2> SUFFICES ASSUME ~redated, NEW q \in Requests, pc'[q] = "retire"
               PROVE  \E j \in Rows : from'[j] = date'[q]
    BY DEF RetiringRowExists
  <2>1. CASE q = r
    BY <1>2, <1>4, <2>1
  <2>2. CASE q # r
    <3>1. PICK j \in Rows : from[j] = date[q] /\ date[q] # None
      BY <1>4, <2>2, CompensationAssumption DEF Safe, RetiringRowExists, TypeOK, RequestsOK
    <3>2. from'[j] = from[j]
      BY <1>2, <1>4, <3>1
    <3> QED
      BY <1>4, <2>2, <3>1, <3>2
  <2> QED
    BY <2>1, <2>2
<1>6. NewestIsCurrent'
  <2> SUFFICES ASSUME ~redated, NEW k \in Rows \ {i}, from'[k] # None,
                      \A j \in Rows : from'[j] # None => from'[j] <= from'[k]
               PROVE  current'[k]
    BY <1>4 DEF NewestIsCurrent
  <2>1. \A j \in Rows : from[j] # None => from[j] <= from[k]
    BY <1>2, <1>3, <1>4
  <2> QED
    BY <1>4, <2>1 DEF Safe, NewestIsCurrent
<1>7. OnlyLateRowsLinger'
  <2> SUFFICES ASSUME ~redated, NEW k \in Rows, NEW j \in Rows,
                      current'[k], current'[j], from'[k] < from'[j]
               PROVE  \/ k \in late'
                      \/ \E q \in Requests : pc'[q] = "retire" /\ date'[q] >= from'[j]
    BY DEF OnlyLateRowsLinger
  <2>1. CASE j = i
    BY <1>3, <1>4, <2>1
  <2>2. CASE k = i /\ j # i
    BY <1>1, <1>4, <2>2
  <2>3. CASE k # i /\ j # i
    <3>1. k \in late \/ \E q \in Requests : pc[q] = "retire" /\ date[q] >= from[j]
      BY <1>4, <2>3 DEF Safe, OnlyLateRowsLinger
    <3> QED
      BY <1>4, <2>3, <3>1
  <2> QED
    BY <2>1, <2>2, <2>3
<1> QED
  BY <1>5, <1>6, <1>7 DEF Safe

\* A retirement that goes through leaves one row current, and it is not for an
\* earlier row that the newest would be retired. One that is refused owes it to
\* a later row, which some request is still to retire others for.
LEMMA RetireSafe ==
  ASSUME TypeOK, Safe, NEW r \in Requests, Retire(r)
  PROVE  Safe'
<1> DEFINE others == {i \in Rows : current[i] /\ from[i] # date[r]}
<1>1. /\ from' = from /\ late' = late /\ redated' = redated
      /\ \A q \in Requests : pc'[q] = "retire" => pc[q] = "retire" /\ date'[q] = date[q]
      /\ \A q \in Requests \ {r} : pc'[q] = pc[q] /\ date'[q] = date[q]
  BY DEF Retire, End, Goto, TypeOK, RequestsOK, history
<1>2. RetiringRowExists'
  BY <1>1 DEF Safe, RetiringRowExists
<1>3. pc[r] = "retire" /\ date[r] \in Dates /\ date[r] \in Int /\ date[r] # None
  BY CompensationAssumption DEF Retire, TypeOK, RequestsOK
<1>4. \A i \in Rows : /\ current[i] => from[i] \in Int
                      /\ from[i] # None => from[i] \in Int
  BY CompensationAssumption DEF TypeOK, TableOK
<1>5. CASE \E i \in others : from[i] > date[r]
  <2>1. current' = current
    BY <1>5 DEF Retire
  <2>2. NewestIsCurrent'
    BY <1>1, <2>1 DEF Safe, NewestIsCurrent
  <2>3. OnlyLateRowsLinger'
    <3> SUFFICES ASSUME ~redated, NEW i \in Rows, NEW j \in Rows,
                        current[i], current[j], from[i] < from[j], i \notin late
                 PROVE  \E q \in Requests : pc'[q] = "retire" /\ date'[q] >= from[j]
      BY <1>1, <2>1 DEF OnlyLateRowsLinger
    <3>1. PICK q \in Requests : pc[q] = "retire" /\ date[q] >= from[j]
      BY DEF Safe, OnlyLateRowsLinger
    <3>2. CASE q # r
      BY <1>1, <3>1, <3>2
    <3>3. CASE q = r
      <4>1. PICK k \in Rows : current[k] /\ from[k] > date[r]
        BY <1>5
      <4>2. from[i] < from[k] /\ from[j] <= from[k]
        BY <1>3, <1>4, <3>1, <3>3, <4>1
      <4>3. PICK p \in Requests : pc[p] = "retire" /\ date[p] >= from[k]
        BY <4>1, <4>2 DEF Safe, OnlyLateRowsLinger
      <4>4. date[p] \in Int
        BY <4>3, CompensationAssumption DEF TypeOK, RequestsOK
      <4>5. p # r /\ date[p] >= from[j]
        BY <1>3, <1>4, <4>1, <4>2, <4>3, <4>4
      <4> QED
        BY <1>1, <4>3, <4>5
    <3> QED
      BY <3>2, <3>3
  <2> QED
    BY <1>2, <2>2, <2>3 DEF Safe
<1>6. CASE ~ \E i \in others : from[i] > date[r]
  <2>1. current' = [i \in Rows |-> current[i] /\ i \notin others]
    BY <1>6 DEF Retire
  <2>2. \A i \in Rows : current'[i] => current[i] /\ from[i] = date[r]
    BY <2>1
  <2>3. \A i \in Rows : current[i] /\ ~current'[i] => from[i] # date[r] /\ ~(from[i] > date[r])
    BY <1>6, <2>1
  <2>4. NewestIsCurrent'
    <3> SUFFICES ASSUME ~redated, NEW i \in Rows, from[i] # None,
                        \A j \in Rows : from[j] # None => from[j] <= from[i]
                 PROVE  current'[i]
      BY <1>1 DEF NewestIsCurrent
    <3>1. current[i]
      BY DEF Safe, NewestIsCurrent
    <3>2. PICK j \in Rows : from[j] = date[r]
      BY <1>3 DEF Safe, RetiringRowExists
    <3>3. date[r] <= from[i]
      BY <1>3, <3>2
    <3> QED
      BY <1>3, <1>4, <2>3, <3>1, <3>3
  <2>5. OnlyLateRowsLinger'
    BY <1>1, <1>3, <2>2 DEF OnlyLateRowsLinger
  <2> QED
    BY <1>2, <2>4, <2>5 DEF Safe
<1> QED
  BY <1>5, <1>6

\* Every step keeps the newest row current and explains every other one.
LEMMA NextSafe == TypeOK /\ Safe /\ [Next]_vars => Safe'
<1> SUFFICES ASSUME TypeOK, Safe, [Next]_vars PROVE Safe'
  OBVIOUS
<1>1. ASSUME NEW r \in Requests, Create(r) PROVE Safe'
  BY <1>1, UpsertSafe DEF Create
<1>2. ASSUME NEW r \in Requests, Retire(r) PROVE Safe'
  BY <1>2, RetireSafe
<1>3. ASSUME NEW r \in Requests, Edit(r) PROVE Safe'
  <2>1. CASE Adopt(r)
    BY <2>1, UpsertSafe DEF Adopt, TypeOK, RequestsOK
  <2>2. CASE ~Adopt(r)
    <3>1. UNCHANGED <<from, current, late, redated>>
      BY <1>3, <2>2 DEF Edit, ReadRecord, WriteRecord, SyncFind, Amend, table, history
    <3>2. /\ pc[r] # "retire" /\ pc'[r] # "retire"
          /\ \A q \in Requests \ {r} : pc'[q] = pc[q] /\ date'[q] = date[q]
      BY <1>3, <2>2 DEF Edit, ReadRecord, WriteRecord, SyncFind, Amend, End, Goto, edit, TypeOK, RequestsOK
    <3> QED
      BY <3>1, <3>2, FrameSafe
  <2> QED
    BY <2>1, <2>2
<1>4. ASSUME NEW i \in Rows, NEW a \in Amounts \union {Keep}, NEW d \in Dates \union {Keep},
             NEW u \in Dates \union {Keep}, UpdateCompensation(i, a, d, u)
      PROVE  Safe'
  <2>1. CASE d = Keep
    <3>1. UNCHANGED <<from, current, late, redated, pc, date>>
      BY <1>4, <2>1 DEF UpdateCompensation, TypeOK, TableOK
    <3> QED
      BY <3>1, FrameSafe
  <2>2. CASE d # Keep
    BY <1>4, <2>2 DEF UpdateCompensation, Safe, RetiringRowExists, NewestIsCurrent, OnlyLateRowsLinger
  <2> QED
    BY <2>1, <2>2
<1>5. ASSUME NEW i \in Rows, DeleteCompensation(i) PROVE Safe'
  BY <1>5, FrameSafe DEF DeleteCompensation, history
<1>6. CASE DeleteRecord \/ NextDay
  BY <1>6, FrameSafe DEF DeleteRecord, NextDay, table, history
<1>7. CASE UNCHANGED vars
  BY <1>7, FrameSafe DEF vars
<1> QED
  BY <1>1, <1>2, <1>3, <1>4, <1>5, <1>6, <1>7 DEF Next

\* Inv, with NewestIsCurrent and OnlyLateRowsLinger, is an invariant.
LEMMA InvHolds == Spec => []Inv
<1>1. Inv /\ [Next]_vars => Inv'
  BY NextTypeOK, NextSafe DEF Inv, Safe
<1> QED
  BY InitInv, <1>1, PTL DEF Spec

\* However requests overlap, the compensation with the latest effective date
\* is never retired in favour of an earlier one.
THEOREM NewestIsCurrentHolds == Spec => []NewestIsCurrent
<1>1. Inv => NewestIsCurrent
  BY DEF Inv
<1> QED
  BY InvHolds, <1>1, PTL

\* A second current row, with which the employee is paid twice, is one created
\* after a later-dated one, or one that some request is still to retire.
THEOREM OnlyLateRowsLingerHolds == Spec => []OnlyLateRowsLinger
<1>1. Inv => OnlyLateRowsLinger
  BY DEF Inv
<1> QED
  BY InvHolds, <1>1, PTL
=============================================================================
