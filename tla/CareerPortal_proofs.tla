------------------------ MODULE CareerPortal_proofs ------------------------
(***************************************************************************)
(* Proofs about CareerPortal, for any requests, people, jobs and pool.     *)
(*                                                                         *)
(* That free stays between 0 and PoolSize follows from NoConnectionLeak,   *)
(* so that the two are proved together. AppliesOnce and DocumentsKept rest *)
(* on what a request has seen of those that had ended when it was sent.    *)
(***************************************************************************)
EXTENDS CareerPortal, FiniteSetTheorems, TLAPS

Uploading == {"askFind", "find", "askRead", "read", "askWrite", "write", "askNote", "note"}
Deleting  == {"askLook", "look", "askErase", "erase"}

\* TypeOK without the bounds of free.
Types ==
  /\ pc \in [Requests -> Points \union {"unsent", "ended"}]
  /\ op \in [Requests -> Operations \union {None}]
  /\ outcome \in [Requests -> {"none", "done", "refused", "failed", "timeout", "lost"}]
  /\ free \in Int
  /\ holder \in [People \union Jobs -> Requests \union {None}]
  /\ candidates \subseteq People
  /\ apps \in [Requests -> {"none", "pending", "live", "deleted"}]
  /\ docs \in [People -> SUBSET Requests]
  /\ seen \in [Requests -> SUBSET Requests]
  /\ before \in [Requests -> SUBSET Requests]
  /\ crashes \in 0..MaxCrashes
  /\ \A r \in Requests : /\ (pc[r] = "unsent") <=> (op[r] = None)
                         /\ (pc[r] = "ended") <=> (outcome[r] # "none")

\* A request stands at the points of what it asks for, and an application is
\* made by a request that has committed. An upload or a deletion names one that
\* was made.
KindsOK ==
  \A r \in Requests :
    /\ pc[r] \in {"connect"} \union Transacting => op[r].kind = "apply"
    /\ pc[r] \in Uploading => op[r].kind = "upload"
    /\ pc[r] \in Deleting => op[r].kind = "delete"
    /\ apps[r] = "pending" => pc[r] \in {"count", "commit"}
    /\ apps[r] \in {"live", "deleted"} => pc[r] = "ended" /\ op[r].kind = "apply"
    /\ op[r] # None =>
         IF op[r].kind = "apply"
         THEN op[r].application = r
         ELSE apps[op[r].application] \in {"live", "deleted"}

Inv0 == Types /\ KindsOK

\* Where a connection leads.
LEMMA GrantedPoints ==
  /\ DOMAIN Granted = {"connect", "askCode", "askFind", "askRead", "askWrite",
                       "askNote", "askLook", "askErase"}
  /\ Granted["connect"] = "check" /\ Granted["askCode"] = "code"
  /\ Granted["askFind"] = "find" /\ Granted["askRead"] = "read"
  /\ Granted["askWrite"] = "write" /\ Granted["askNote"] = "note"
  /\ Granted["askLook"] = "look" /\ Granted["askErase"] = "erase"
  BY DEF Granted

LEMMA InitTypes == Init => Inv0
  BY CareerPortalAssumption DEF Init, Inv0, Types, KindsOK, Transacting, Uploading, Deleting

-----------------------------------------------------------------------------
(* Types and kinds *)

LEMMA SendInv ==
  ASSUME Inv0, NEW r \in Requests, NEW o \in Operations, NEW x \in {"connect", "askFind", "askLook"},
         \/ x = "connect" /\ o.kind = "apply" /\ o.application = r
         \/ /\ (x = "askFind" /\ o.kind = "upload") \/ (x = "askLook" /\ o.kind = "delete")
            /\ apps[o.application] \in {"live", "deleted"},
         Send(r, o, x)
  PROVE  Inv0'
<1> USE CareerPortalAssumption, GrantedPoints
<1>1. o # None
  OBVIOUS
<1>2. Types'
  BY <1>1 DEF Inv0, Types, Send, Points
<1>3. KindsOK'
  BY <1>1 DEF Inv0, Types, KindsOK, Send, Transacting, Uploading, Deleting, Operations
<1> QED
  BY <1>2, <1>3 DEF Inv0

\* Sending an upload or a deletion copies the person and the job.
LEMMA NamedOperation ==
  ASSUME Inv0, NEW a \in Requests, apps[a] \in {"live", "deleted"}, NEW k \in {"upload", "delete"}
  PROVE  /\ [op[a] EXCEPT !.kind = k] \in Operations
         /\ [op[a] EXCEPT !.kind = k].kind = k
         /\ [op[a] EXCEPT !.kind = k].application = a
<1>1. op[a] \in Operations /\ op[a].kind = "apply" /\ op[a].application = a
  BY DEF Inv0, Types, KindsOK
<1> QED
  BY <1>1 DEF Operations

\* The variables a step of a request may change keep their types.
DataTyped ==
  /\ free' \in Int
  /\ holder' \in [People \union Jobs -> Requests \union {None}]
  /\ candidates' \subseteq People
  /\ docs' \in [People -> SUBSET Requests]
  /\ seen' \in [Requests -> SUBSET Requests]

LEMMA GotoInv ==
  ASSUME Inv0, NEW r \in Requests, NEW x \in Points, pc[r] \in Points, Goto(r, x), DataTyped,
         x \in {"connect"} \union Transacting => op[r].kind = "apply",
         x \in Uploading => op[r].kind = "upload",
         x \in Deleting => op[r].kind = "delete",
         \/ apps' = apps /\ (apps[r] = "pending" => x \in {"count", "commit"})
         \/ apps' = [apps EXCEPT ![r] = "pending"] /\ x = "count"
  PROVE  Inv0'
<1>1. x \notin {"unsent", "ended"} /\ pc[r] \notin {"unsent", "ended"}
  BY GrantedPoints DEF Points, Transacting, Querying
<1>2. Types'
  BY <1>1 DEF Inv0, Types, Goto, DataTyped
<1>3. KindsOK'
  BY <1>1 DEF Inv0, Types, KindsOK, Goto, Operations
<1> QED
  BY <1>2, <1>3 DEF Inv0

LEMMA AnswerInv ==
  ASSUME Inv0, NEW r \in Requests, NEW o \in {"done", "refused", "failed", "timeout"},
         pc[r] \in Points, Answer(r, o), DataTyped,
         \/ apps' = apps /\ apps[r] # "pending"
         \/ apps' = [apps EXCEPT ![r] = "none"]
         \/ apps' = [apps EXCEPT ![r] = "live"] /\ op[r].kind = "apply"
         \/ /\ apps' = [apps EXCEPT ![op[r].application] = "deleted"]
            /\ op[r].kind = "delete"
  PROVE  Inv0'
<1>1. pc[r] \notin {"unsent", "ended"}
  BY GrantedPoints DEF Points, Transacting, Querying
<1>2. op[r] \in Operations /\ apps[r] \notin {"live", "deleted"}
  BY <1>1 DEF Inv0, Types, KindsOK
<1>3. Types'
  BY <1>1, <1>2 DEF Inv0, Types, Answer, DataTyped
<1>4. "ended" \notin {"connect"} \union Transacting \union Uploading \union Deleting
  BY DEF Transacting, Uploading, Deleting
<1>5. op[r].kind = "delete" =>
        apps[op[r].application] \in {"live", "deleted"} /\ apps[r] # "pending"
  BY <1>2, CareerPortalAssumption DEF Inv0, KindsOK, Transacting
<1>6. ASSUME NEW q \in Requests
      PROVE  /\ pc'[q] = IF q = r THEN "ended" ELSE pc[q]
             /\ op'[q] = op[q]
             /\ apps'[q] = "pending" => apps[q] = "pending" /\ q # r
             /\ apps[q] \in {"live", "deleted"} => apps'[q] \in {"live", "deleted"}
             /\ apps'[q] \in {"live", "deleted"} =>
                  \/ apps[q] \in {"live", "deleted"}
                  \/ q = r /\ op[q].kind = "apply"
  BY <1>1, <1>2, <1>5 DEF Inv0, Types, Answer
<1>7. ASSUME NEW q \in Requests, op[q] # None PROVE op[q].application \in Requests
  BY <1>7 DEF Inv0, Types, Operations
<1>8. KindsOK'
  BY <1>4, <1>6, <1>7 DEF Inv0, KindsOK
<1> QED
  BY <1>3, <1>8 DEF Inv0

LEMMA RollBackInv ==
  ASSUME Inv0, NEW r \in Requests, NEW o \in {"refused", "failed", "timeout"}, NEW n \in Int,
         pc[r] \in Points, RollBack(r, o, n)
  PROVE  Inv0'
<1>1. DataTyped
  BY DEF RollBack, DataTyped, Inv0, Types
<1> QED
  BY <1>1, AnswerInv DEF RollBack

LEMMA PoolInv ==
  ASSUME Inv0, NEW r \in Requests, GetConnection(r) \/ ConnectionTimeout(r)
  PROVE  Inv0'
<1> USE GrantedPoints
<1>1. pc[r] \in Points
  BY DEF GetConnection, ConnectionTimeout, Points
<1>2. CASE GetConnection(r)
  <2>1. DataTyped /\ apps' = apps
    BY <1>2 DEF GetConnection, DataTyped, Inv0, Types
  <2>2. Granted[pc[r]] \in Points
    BY <1>2 DEF GetConnection, Points, Transacting, Querying
  <2>3. /\ Granted[pc[r]] \in {"connect"} \union Transacting => op[r].kind = "apply"
        /\ Granted[pc[r]] \in Uploading => op[r].kind = "upload"
        /\ Granted[pc[r]] \in Deleting => op[r].kind = "delete"
        /\ apps[r] # "pending"
    BY <1>2 DEF GetConnection, Inv0, KindsOK, Transacting, Uploading, Deleting
  <2> QED
    BY <1>1, <1>2, <2>1, <2>2, <2>3, GotoInv DEF GetConnection
<1>3. CASE ConnectionTimeout(r) /\ pc[r] = "askCode"
  BY <1>1, <1>3, RollBackInv DEF ConnectionTimeout
<1>4. CASE ConnectionTimeout(r) /\ pc[r] # "askCode"
  <2>1. DataTyped /\ apps' = apps
    BY <1>4 DEF ConnectionTimeout, DataTyped, Inv0, Types
  <2>2. apps[r] # "pending"
    BY <1>4 DEF ConnectionTimeout, Inv0, KindsOK
  <2> QED
    BY <1>1, <1>4, <2>1, <2>2, AnswerInv DEF ConnectionTimeout
<1> QED
  BY <1>2, <1>3, <1>4

Applying(r) ==
  \/ CheckDuplicate(r) \/ DrawCode(r)
  \/ FindCandidate(r) \/ UpdateCandidate(r) \/ InsertCandidate(r)
  \/ InsertApplication(r) \/ CountApplication(r) \/ Commit(r) \/ StatementFails(r)

LEMMA ApplyingInv ==
  ASSUME Inv0, NEW r \in Requests, Applying(r)
  PROVE  Inv0'
<1>1. pc[r] \in Transacting /\ pc[r] \in Points
  BY DEF Applying, CheckDuplicate, DrawCode, FindCandidate, UpdateCandidate, InsertCandidate,
         InsertApplication, CountApplication, Commit, StatementFails, Transacting, Points
<1>2. /\ op[r].kind = "apply" /\ op[r] \in Operations
      /\ op[r].person \in People /\ op[r].job \in Jobs
  <2>1. op[r].kind = "apply"
    BY <1>1 DEF Inv0, KindsOK
  <2>2. pc[r] # "unsent"
    BY <1>1 DEF Transacting
  <2> QED
    BY <2>1, <2>2 DEF Inv0, Types, Operations
<1>3. ASSUME NEW x \in Transacting, Goto(r, x), DataTyped,
             \/ apps' = apps /\ (apps[r] = "pending" => x \in {"count", "commit"})
             \/ apps' = [apps EXCEPT ![r] = "pending"] /\ x = "count"
      PROVE  Inv0'
  <2>1. x \in Points /\ x \notin Uploading /\ x \notin Deleting
    BY DEF Points, Transacting, Uploading, Deleting
  <2> QED
    BY <1>1, <1>2, <1>3, <2>1, GotoInv
<1>4. apps[r] = "pending" => pc[r] \in {"count", "commit"}
  BY DEF Inv0, KindsOK
<1>5. CASE CheckDuplicate(r)
  <2>1. CASE HasApplied(op[r].person, op[r].job)
    BY <1>1, <1>5, <2>1, RollBackInv DEF CheckDuplicate
  <2>2. CASE ~HasApplied(op[r].person, op[r].job)
    <3>1. DataTyped /\ Goto(r, "askCode") /\ apps' = apps /\ apps[r] # "pending"
      BY <1>4, <1>5, <2>2 DEF CheckDuplicate, DataTyped, Inv0, Types
    <3> QED
      BY <1>3, <3>1 DEF Transacting
  <2> QED
    BY <2>1, <2>2
<1>6. CASE DrawCode(r)
  <2>1. DataTyped /\ Goto(r, "candidate") /\ apps' = apps /\ apps[r] # "pending"
    BY <1>4, <1>6 DEF DrawCode, Return, DataTyped, Inv0, Types
  <2> QED
    BY <1>3, <2>1 DEF Transacting
<1>7. CASE FindCandidate(r)
  <2>1. /\ DataTyped /\ apps' = apps /\ apps[r] # "pending"
        /\ Goto(r, "update") \/ Goto(r, "insert")
    BY <1>4, <1>7 DEF FindCandidate, DataTyped, Inv0, Types
  <2> QED
    BY <1>3, <2>1 DEF Transacting
<1>8. CASE UpdateCandidate(r)
  <2>1. DataTyped /\ Goto(r, "file") /\ apps' = apps /\ apps[r] # "pending"
    BY <1>2, <1>4, <1>8 DEF UpdateCandidate, Lock, DataTyped, Inv0, Types
  <2> QED
    BY <1>3, <2>1 DEF Transacting
<1>9. CASE InsertCandidate(r)
  <2>1. CASE op[r].person \in candidates
    BY <1>1, <1>9, <2>1, RollBackInv DEF InsertCandidate
  <2>2. CASE op[r].person \notin candidates
    <3>1. DataTyped /\ Goto(r, "file") /\ apps' = apps /\ apps[r] # "pending"
      BY <1>2, <1>4, <1>9, <2>2 DEF InsertCandidate, Lock, DataTyped, Inv0, Types
    <3> QED
      BY <1>3, <3>1 DEF Transacting
  <2> QED
    BY <2>1, <2>2
<1>10. CASE InsertApplication(r)
  <2>1. DataTyped /\ Goto(r, "count") /\ apps' = [apps EXCEPT ![r] = "pending"]
    BY <1>10 DEF InsertApplication, DataTyped, Inv0, Types
  <2> QED
    BY <1>3, <2>1 DEF Transacting
<1>11. CASE CountApplication(r)
  <2>1. DataTyped /\ Goto(r, "commit") /\ apps' = apps
    BY <1>2, <1>11 DEF CountApplication, Lock, DataTyped, Inv0, Types
  <2> QED
    BY <1>3, <2>1 DEF Transacting
<1>12. CASE Commit(r)
  <2>1. DataTyped /\ Answer(r, "done") /\ apps' = [apps EXCEPT ![r] = "live"]
    BY <1>2, <1>12 DEF Commit, Return, DataTyped, Inv0, Types
  <2> QED
    BY <1>1, <1>2, <2>1, AnswerInv
<1>13. CASE StatementFails(r)
  BY <1>1, <1>13, RollBackInv DEF StatementFails
<1> QED
  BY <1>5, <1>6, <1>7, <1>8, <1>9, <1>10, <1>11, <1>12, <1>13 DEF Applying

Asking(r) ==
  \/ FindApplication(r) \/ ReadDocuments(r) \/ WriteDocuments(r) \/ RecordUpload(r)
  \/ LookUp(r) \/ DeleteApplication(r) \/ QueryFails(r)

LEMMA AskingInv ==
  ASSUME Inv0, NEW r \in Requests, Asking(r)
  PROVE  Inv0'
<1>1. pc[r] \in Querying /\ pc[r] \in Points
  BY DEF Asking, FindApplication, ReadDocuments, WriteDocuments, RecordUpload, LookUp,
         DeleteApplication, QueryFails, Query, Querying, Points
<1>2. op[r] \in Operations /\ op[r].person \in People /\ op[r].application \in Requests
  BY <1>1 DEF Inv0, Types, Operations, Querying
<1>3. apps[r] # "pending"
  BY <1>1 DEF Inv0, KindsOK, Querying
<1>4. DataTyped
  BY <1>2 DEF Asking, FindApplication, ReadDocuments, WriteDocuments, RecordUpload, LookUp,
              DeleteApplication, QueryFails, Query, Return, DataTyped, Inv0, Types
<1>5. /\ pc[r] \in {"find", "read", "write", "note"} => op[r].kind = "upload"
      /\ pc[r] \in {"look", "erase"} => op[r].kind = "delete"
  BY DEF Inv0, KindsOK, Uploading, Deleting
<1>6. ASSUME NEW x \in {"askRead", "askWrite", "askNote"}, Goto(r, x), apps' = apps,
             op[r].kind = "upload"
      PROVE  Inv0'
  <2>1. x \in Points /\ x \in Uploading /\ x \notin {"connect"} \union Transacting /\ x \notin Deleting
    BY GrantedPoints DEF Points, Transacting, Uploading, Deleting
  <2> QED
    BY <1>1, <1>3, <1>4, <1>6, <2>1, GotoInv
<1>7. ASSUME NEW o \in {"done", "refused", "failed"}, Answer(r, o), apps' = apps
      PROVE  Inv0'
  BY <1>1, <1>3, <1>4, <1>7, AnswerInv
<1>8. CASE FindApplication(r)
  BY <1>5, <1>6, <1>7, <1>8 DEF FindApplication, Query
<1>9. CASE ReadDocuments(r) \/ WriteDocuments(r)
  BY <1>5, <1>6, <1>9 DEF ReadDocuments, WriteDocuments, Query
<1>10. CASE RecordUpload(r) \/ QueryFails(r)
  BY <1>7, <1>10 DEF RecordUpload, QueryFails
<1>11. CASE LookUp(r)
  <2>1. CASE apps[op[r].application] = "live"
    <3>1. "askErase" \in Points /\ "askErase" \in Deleting
          /\ "askErase" \notin {"connect"} \union Transacting /\ "askErase" \notin Uploading
      BY GrantedPoints DEF Points, Transacting, Uploading, Deleting
    <3> QED
      BY <1>1, <1>3, <1>4, <1>5, <1>11, <2>1, <3>1, GotoInv DEF LookUp, Query
  <2>2. CASE apps[op[r].application] # "live"
    BY <1>7, <1>11, <2>2 DEF LookUp
  <2> QED
    BY <2>1, <2>2
<1>12. CASE DeleteApplication(r)
  BY <1>1, <1>4, <1>5, <1>12, AnswerInv DEF DeleteApplication, Query
<1> QED
  BY <1>8, <1>9, <1>10, <1>11, <1>12 DEF Asking

LEMMA CrashInv == Inv0 /\ Crash => Inv0'
<1> SUFFICES ASSUME Inv0, Crash PROVE Inv0'
  OBVIOUS
<1>1. "unsent" \notin Points /\ "ended" \notin Points
  BY GrantedPoints DEF Points, Transacting, Querying
<1>2. Types'
  BY <1>1, CareerPortalAssumption DEF Inv0, Types, Crash
<1>3. {"unsent", "ended"} \intersect ({"connect"} \union Transacting \union Uploading \union Deleting) = {}
  BY DEF Transacting, Uploading, Deleting
<1>4. ASSUME NEW q \in Requests
      PROVE  /\ pc'[q] \in {"unsent", "ended"}
             /\ op'[q] = op[q]
             /\ apps'[q] # "pending"
             /\ apps[q] \in {"live", "deleted"} <=> apps'[q] \in {"live", "deleted"}
             /\ pc[q] = "ended" => pc'[q] = "ended"
  BY <1>1 DEF Inv0, Types, Crash
<1>5. ASSUME NEW q \in Requests, op[q] # None PROVE op[q].application \in Requests
  BY <1>5 DEF Inv0, Types, Operations
<1>6. KindsOK'
  BY <1>3, <1>4, <1>5 DEF Inv0, KindsOK
<1> QED
  BY <1>2, <1>6 DEF Inv0

\* What every step of a request is.
Sending(r) ==
  \/ \E p \in People, j \in Jobs : SendApplication(r, p, j)
  \/ \E a \in Requests : SendUpload(r, a) \/ SendDeletion(r, a)

Pooling(r) == GetConnection(r) \/ ConnectionTimeout(r)

LEMMA StepKinds ==
  ASSUME Next
  PROVE  (\E r \in Requests : Sending(r) \/ Pooling(r) \/ Applying(r) \/ Asking(r)) \/ Crash
  BY DEF Next, Advance, Sending, Pooling, Applying, Asking

LEMMA SendingInv ==
  ASSUME Inv0, NEW r \in Requests, Sending(r)
  PROVE  Inv0'
<1>1. ASSUME NEW p \in People, NEW j \in Jobs, SendApplication(r, p, j) PROVE Inv0'
  <2> DEFINE o == [kind |-> "apply", person |-> p, job |-> j, application |-> r]
  <2>1. o \in Operations /\ o.kind = "apply" /\ o.application = r
    BY DEF Operations
  <2>2. Send(r, o, "connect")
    BY <1>1 DEF SendApplication
  <2> HIDE DEF o
  <2> QED
    BY <2>1, <2>2, SendInv
<1>2. ASSUME NEW a \in Requests, SendUpload(r, a) \/ SendDeletion(r, a) PROVE Inv0'
  <2>1. apps[a] \in {"live", "deleted"}
    BY <1>2 DEF SendUpload, SendDeletion
  <2>2. CASE SendUpload(r, a)
    <3>1. Send(r, [op[a] EXCEPT !.kind = "upload"], "askFind")
      BY <2>2 DEF SendUpload
    <3> DEFINE o == [op[a] EXCEPT !.kind = "upload"]
    <3>2. o \in Operations /\ o.kind = "upload" /\ o.application = a
      BY <2>1, NamedOperation
    <3> HIDE DEF o
    <3>3. Send(r, o, "askFind")
      BY <3>1 DEF o
    <3> QED
      BY <2>1, <3>2, <3>3, SendInv
  <2>3. CASE SendDeletion(r, a)
    <3>1. Send(r, [op[a] EXCEPT !.kind = "delete"], "askLook")
      BY <2>3 DEF SendDeletion
    <3> DEFINE o == [op[a] EXCEPT !.kind = "delete"]
    <3>2. o \in Operations /\ o.kind = "delete" /\ o.application = a
      BY <2>1, NamedOperation
    <3> HIDE DEF o
    <3>3. Send(r, o, "askLook")
      BY <3>1 DEF o
    <3> QED
      BY <2>1, <3>2, <3>3, SendInv
  <2> QED
    BY <1>2, <2>2, <2>3
<1> QED
  BY <1>1, <1>2 DEF Sending

LEMMA NextInv0 == Inv0 /\ [Next]_vars => Inv0'
<1> SUFFICES ASSUME Inv0, [Next]_vars PROVE Inv0'
  OBVIOUS
<1>1. CASE Next
  BY <1>1, StepKinds, SendingInv, PoolInv, ApplyingInv, AskingInv, CrashInv DEF Pooling
<1>2. CASE UNCHANGED vars
  BY <1>2 DEF vars, Inv0, Types, KindsOK
<1> QED
  BY <1>1, <1>2

-----------------------------------------------------------------------------
(* Connections *)

At(P) == {q \in Requests : pc[q] \in P}

Using   == At(Transacting \union Querying)
Drawing == At({"code"})

LEMMA CountsAreNumbers ==
  ASSUME NEW S, S \subseteq Requests
  PROVE  IsFiniteSet(S) /\ Cardinality(S) \in Nat
  BY CareerPortalAssumption, FS_Subset, FS_CardinalityType

\* How many requests stand at one of some points after one of them has moved.
LEMMA Moves ==
  ASSUME NEW r \in Requests, NEW x, NEW P,
         pc \in [Requests -> Points \union {"unsent", "ended"}], pc' = [pc EXCEPT ![r] = x]
  PROVE  /\ x \in P /\ pc[r] \notin P => Cardinality(At(P)') = Cardinality(At(P)) + 1
         /\ x \notin P /\ pc[r] \in P => Cardinality(At(P)') = Cardinality(At(P)) - 1
         /\ x \in P /\ pc[r] \in P => Cardinality(At(P)') = Cardinality(At(P))
         /\ x \notin P /\ pc[r] \notin P => Cardinality(At(P)') = Cardinality(At(P))
<1>1. At(P) \subseteq Requests
  BY DEF At
<1>2. IsFiniteSet(At(P)) /\ Cardinality(At(P)) \in Nat
  BY <1>1, CountsAreNumbers
<1>3. ASSUME x \in P, pc[r] \notin P PROVE Cardinality(At(P)') = Cardinality(At(P)) + 1
  <2>1. At(P)' = At(P) \union {r} /\ r \notin At(P)
    BY <1>3 DEF At
  <2> QED
    BY <1>2, <2>1, FS_AddElement
<1>4. ASSUME x \notin P, pc[r] \in P PROVE Cardinality(At(P)') = Cardinality(At(P)) - 1
  <2>1. At(P)' = At(P) \ {r} /\ r \in At(P)
    BY <1>4 DEF At
  <2> QED
    BY <1>2, <2>1, FS_RemoveElement
<1>5. ASSUME x \in P, pc[r] \in P PROVE At(P)' = At(P)
  BY <1>5 DEF At
<1>6. ASSUME x \notin P, pc[r] \notin P PROVE At(P)' = At(P)
  BY <1>6 DEF At
<1> QED
  BY <1>3, <1>4, <1>5, <1>6

\* The same, of the requests that use a connection and those that draw a code.
LEMMA UsingMoves ==
  ASSUME Inv0, NEW r \in Requests, NEW x, pc' = [pc EXCEPT ![r] = x],
         NEW H, H = Transacting \union Querying
  PROVE  /\ x \in H /\ pc[r] \notin H => Cardinality(Using') = Cardinality(Using) + 1
         /\ x \notin H /\ pc[r] \in H => Cardinality(Using') = Cardinality(Using) - 1
         /\ x \in H /\ pc[r] \in H => Cardinality(Using') = Cardinality(Using)
         /\ x \notin H /\ pc[r] \notin H => Cardinality(Using') = Cardinality(Using)
         /\ x = "code" /\ pc[r] # "code" => Cardinality(Drawing') = Cardinality(Drawing) + 1
         /\ x # "code" /\ pc[r] = "code" => Cardinality(Drawing') = Cardinality(Drawing) - 1
         /\ x # "code" /\ pc[r] # "code" => Cardinality(Drawing') = Cardinality(Drawing)
<1>1. pc \in [Requests -> Points \union {"unsent", "ended"}]
  BY DEF Inv0, Types
<1>2. /\ x \in H /\ pc[r] \notin H => Cardinality(At(H)') = Cardinality(At(H)) + 1
      /\ x \notin H /\ pc[r] \in H => Cardinality(At(H)') = Cardinality(At(H)) - 1
      /\ x \in H /\ pc[r] \in H => Cardinality(At(H)') = Cardinality(At(H))
      /\ x \notin H /\ pc[r] \notin H => Cardinality(At(H)') = Cardinality(At(H))
  BY <1>1, Moves
<1>3. /\ x \in {"code"} /\ pc[r] \notin {"code"} => Cardinality(Drawing') = Cardinality(Drawing) + 1
      /\ x \notin {"code"} /\ pc[r] \in {"code"} => Cardinality(Drawing') = Cardinality(Drawing) - 1
      /\ x \notin {"code"} /\ pc[r] \notin {"code"} => Cardinality(Drawing') = Cardinality(Drawing)
  BY <1>1, Moves DEF Drawing
<1>4. At(H) = Using /\ At(H)' = Using'
  BY DEF Using, At
<1> QED
  BY <1>2, <1>3, <1>4

LEMMA CountsInNat == Cardinality(Using) \in Nat /\ Cardinality(Drawing) \in Nat
<1>1. Using \subseteq Requests /\ Drawing \subseteq Requests
  BY DEF Using, Drawing, At
<1> QED
  BY <1>1, CountsAreNumbers

Balanced == free + Cardinality(Using) + Cardinality(Drawing) = PoolSize

LEMMA BalancedIsNoLeak == Balanced <=> NoConnectionLeak
  BY DEF Balanced, NoConnectionLeak, Using, Drawing, At

\* The connections a request has at a point.
Held(point) == IF point = "code" THEN 2
               ELSE IF point \in Transacting \union Querying THEN 1 ELSE 0

\* A request that moves settles with the pool what it had and what it has.
LEMMA Settled ==
  ASSUME Inv0, Balanced, NEW r \in Requests, NEW x, pc' = [pc EXCEPT ![r] = x],
         free' = free + Held(pc[r]) - Held(x)
  PROVE  Balanced'
<1> DEFINE H == Transacting \union Querying
           u == Cardinality(Using)
           d == Cardinality(Drawing)
<1>1. "code" \in H
  BY DEF Transacting
<1>2. /\ x \in H /\ pc[r] \notin H => u' = u + 1
      /\ x \notin H /\ pc[r] \in H => u' = u - 1
      /\ x \in H /\ pc[r] \in H => u' = u
      /\ x \notin H /\ pc[r] \notin H => u' = u
      /\ x = "code" /\ pc[r] # "code" => d' = d + 1
      /\ x # "code" /\ pc[r] = "code" => d' = d - 1
      /\ x # "code" /\ pc[r] # "code" => d' = d
      /\ x = "code" /\ pc[r] = "code" => d' = d
  <2>1. ASSUME x = "code", pc[r] = "code" PROVE Drawing' = Drawing
    BY <2>1 DEF Inv0, Types, Drawing, At
  <2> QED
    BY <2>1, UsingMoves
<1>3. u \in Nat /\ d \in Nat
  BY CountsInNat
<1>4. free + u + d = PoolSize /\ free \in Int
  BY DEF Balanced, Inv0, Types
<1>5. /\ Held(x) = IF x = "code" THEN 2 ELSE IF x \in H THEN 1 ELSE 0
      /\ Held(pc[r]) = IF pc[r] = "code" THEN 2 ELSE IF pc[r] \in H THEN 1 ELSE 0
  BY DEF Held
<1> HIDE DEF H, u, d
<1>6. free' + u' + d' = PoolSize
  <2>1. CASE x = "code"
    BY <1>1, <1>2, <1>3, <1>4, <1>5, <2>1
  <2>2. CASE x # "code" /\ x \in H
    BY <1>1, <1>2, <1>3, <1>4, <1>5, <2>2
  <2>3. CASE x \notin H
    BY <1>1, <1>2, <1>3, <1>4, <1>5, <2>3
  <2> QED
    BY <2>1, <2>2, <2>3
<1> QED
  BY <1>6 DEF Balanced, u, d

LEMMA HeldValues ==
  /\ \A x \in Transacting \ {"code"} : Held(x) = 1
  /\ \A x \in Querying : Held(x) = 1
  /\ Held("code") = 2 /\ Held("ended") = 0 /\ Held("unsent") = 0
  /\ \A x \in DOMAIN Granted \ {"askCode"} : Held(x) = 0
  /\ \A x \in DOMAIN Granted : Held(Granted[x]) = Held(x) + 1
  BY GrantedPoints DEF Held, Transacting, Querying

\* Every step of a request settles.
LEMMA Balances ==
  ASSUME Inv0, Balanced, NEW r \in Requests,
         Sending(r) \/ Pooling(r) \/ Applying(r) \/ Asking(r)
  PROVE  Balanced'
<1> USE HeldValues
<1>0. free \in Int
  BY DEF Inv0, Types
<1>1. CASE Sending(r)
  <2>1. PICK x \in {"connect", "askFind", "askLook"} :
          pc[r] = "unsent" /\ pc' = [pc EXCEPT ![r] = x] /\ free' = free
    BY <1>1 DEF Sending, SendApplication, SendUpload, SendDeletion, Send
  <2>2. Held(x) = 0
    BY GrantedPoints
  <2>3. free' = free + Held(pc[r]) - Held(x)
    BY <1>0, <2>1, <2>2
  <2> QED
    BY <2>1, <2>3, Settled
<1>2. CASE GetConnection(r)
  <2>1. pc' = [pc EXCEPT ![r] = Granted[pc[r]]] /\ free' = free - 1 /\ pc[r] \in DOMAIN Granted
    BY <1>2 DEF GetConnection, Goto
  <2>2. Held(Granted[pc[r]]) = Held(pc[r]) + 1 /\ Held(pc[r]) \in {0, 1}
    BY <2>1 DEF Held, Granted
  <2>3. free' = free + Held(pc[r]) - Held(Granted[pc[r]])
    BY <1>0, <2>1, <2>2
  <2> QED
    BY <2>1, <2>3, Settled
<1>3. ASSUME NEW o, NEW n \in {0, 1, 2}, Answer(r, o), free' = free + n, Held(pc[r]) = n
      PROVE  Balanced'
  <2>1. pc' = [pc EXCEPT ![r] = "ended"]
    BY <1>3 DEF Answer
  <2>2. free' = free + Held(pc[r]) - Held("ended")
    BY <1>0, <1>3
  <2> QED
    BY <2>1, <2>2, Settled
<1>4. ASSUME NEW x \in Points, Goto(r, x), free' = free, Held(x) = Held(pc[r]), Held(x) \in {0, 1}
      PROVE  Balanced'
  <2>1. pc' = [pc EXCEPT ![r] = x]
    BY <1>4 DEF Goto
  <2>2. free' = free + Held(pc[r]) - Held(x)
    BY <1>0, <1>4
  <2> QED
    BY <2>1, <2>2, Settled
<1>5. ASSUME NEW x, Goto(r, x), free' = free + 1, Held(pc[r]) = Held(x) + 1, Held(x) \in {0, 1}
      PROVE  Balanced'
  <2>1. pc' = [pc EXCEPT ![r] = x]
    BY <1>5 DEF Goto
  <2>2. free' = free + Held(pc[r]) - Held(x)
    BY <1>0, <1>5
  <2> QED
    BY <2>1, <2>2, Settled
<1>6. CASE ConnectionTimeout(r)
  <2>1. CASE pc[r] = "askCode"
    <3>1. Held(pc[r]) = 1
      BY <2>1 DEF Transacting
    <3> QED
      BY <1>3, <1>6, <2>1, <3>1 DEF ConnectionTimeout, RollBack
  <2>2. CASE pc[r] # "askCode"
    <3>1. Held(pc[r]) = 0 /\ free' = free + 0
      BY <1>0, <1>6, <2>2 DEF ConnectionTimeout
    <3> QED
      BY <1>3, <1>6, <2>2, <3>1 DEF ConnectionTimeout
  <2> QED
    BY <2>1, <2>2
<1>7. CASE Applying(r)
  <2>1. CASE CheckDuplicate(r) \/ InsertCandidate(r)
    <3>1. Held(pc[r]) = 1 /\ Held("askCode") = 1 /\ Held("file") = 1
      BY <2>1 DEF CheckDuplicate, InsertCandidate, Transacting
    <3>2. "askCode" \in Points /\ "file" \in Points
      BY DEF Points, Transacting
    <3> QED
      BY <1>3, <1>4, <2>1, <3>1, <3>2 DEF CheckDuplicate, InsertCandidate, RollBack
  <2>2. CASE DrawCode(r)
    <3>1. Held("candidate") = 1 /\ Held(pc[r]) = Held("candidate") + 1
      BY <2>2 DEF DrawCode, Transacting
    <3> QED
      BY <1>5, <2>2, <3>1 DEF DrawCode, Return
  <2>3. CASE FindCandidate(r) \/ UpdateCandidate(r) \/ InsertApplication(r) \/ CountApplication(r)
    <3>1. PICK x \in {"update", "insert", "file", "count", "commit"} :
            Goto(r, x) /\ free' = free
                       /\ pc[r] \in {"candidate", "update", "file", "count"}
      BY <2>3 DEF FindCandidate, UpdateCandidate, InsertApplication, CountApplication
    <3>2. Held(x) = 1 /\ Held(pc[r]) = 1 /\ x \in Points
      BY <3>1 DEF Transacting, Points
    <3> QED
      BY <1>4, <3>1, <3>2
  <2>4. CASE Commit(r)
    <3>1. Held(pc[r]) = 1
      BY <2>4 DEF Commit, Transacting
    <3> QED
      BY <1>3, <2>4, <3>1 DEF Commit, Return
  <2>5. CASE StatementFails(r)
    <3>1. Held(pc[r]) = IF pc[r] = "code" THEN 2 ELSE 1
      BY <2>5 DEF StatementFails, Transacting
    <3> QED
      BY <1>3, <2>5, <3>1 DEF StatementFails, RollBack
  <2> QED
    BY <1>7, <2>1, <2>2, <2>3, <2>4, <2>5 DEF Applying
<1>8. CASE Asking(r)
  <2>1. free' = free + 1 /\ pc[r] \in Querying
    BY <1>8 DEF Asking, FindApplication, ReadDocuments, WriteDocuments, RecordUpload, LookUp,
                DeleteApplication, QueryFails, Query, Return, Querying
  <2>2. Held(pc[r]) = 1
    BY <2>1
  <2>3. \/ \E x \in {"askRead", "askWrite", "askNote", "askErase"} : Goto(r, x)
        \/ \E o \in {"done", "refused", "failed"} : Answer(r, o)
    BY <1>8 DEF Asking, FindApplication, ReadDocuments, WriteDocuments, RecordUpload, LookUp,
                DeleteApplication, QueryFails
  <2>4. \A x \in {"askRead", "askWrite", "askNote", "askErase"} : Held(x) = 0
    BY GrantedPoints
  <2> QED
    BY <1>3, <1>5, <2>1, <2>2, <2>3, <2>4
<1> QED
  BY <1>1, <1>2, <1>6, <1>7, <1>8 DEF Pooling

LEMMA CrashBalances == Inv0 /\ Crash => Balanced'
<1> SUFFICES ASSUME Inv0, Crash PROVE Balanced'
  OBVIOUS
<1>1. \A r \in Requests : pc'[r] \in {"unsent", "ended"}
  BY DEF Crash
<1>2. Using' = {} /\ Drawing' = {}
  BY <1>1 DEF Using, Drawing, At, Transacting, Querying
<1>3. Cardinality(Using)' = 0 /\ Cardinality(Drawing)' = 0
  BY <1>2, FS_EmptySet
<1> QED
  BY <1>3, CareerPortalAssumption DEF Balanced, Crash

LEMMA InitBalanced == Init => Balanced
<1> SUFFICES ASSUME Init PROVE Balanced
  OBVIOUS
<1>1. Using = {} /\ Drawing = {}
  BY DEF Init, Using, Drawing, At, Transacting, Querying
<1>2. Cardinality(Using) = 0 /\ Cardinality(Drawing) = 0
  BY <1>1, FS_EmptySet
<1> QED
  BY <1>2, CareerPortalAssumption DEF Balanced, Init

LEMMA StepBalanced == Inv0 /\ Balanced /\ [Next]_vars => Balanced'
<1> SUFFICES ASSUME Inv0, Balanced, [Next]_vars PROVE Balanced'
  OBVIOUS
<1>1. CASE Next
  BY <1>1, StepKinds, Balances, CrashBalances
<1>2. CASE UNCHANGED vars
  BY <1>2 DEF vars, Balanced, Using, Drawing, At
<1> QED
  BY <1>1, <1>2

\* A connection is only taken when there is one.
LEMMA StepFree == Inv0 /\ free >= 0 /\ [Next]_vars => free' >= 0
<1> SUFFICES ASSUME Inv0, free >= 0, [Next]_vars PROVE free' >= 0
  OBVIOUS
<1>0. free \in Int /\ PoolSize \in Nat
  BY CareerPortalAssumption DEF Inv0, Types
<1>1. ASSUME NEW r \in Requests, Sending(r) PROVE free' = free
  BY <1>1 DEF Sending, SendApplication, SendUpload, SendDeletion, Send
<1>2. ASSUME NEW r \in Requests, Pooling(r)
      PROVE  free' \in {free, free + 1} \/ (free > 0 /\ free' = free - 1)
  BY <1>2 DEF Pooling, GetConnection, ConnectionTimeout, RollBack
<1>3. ASSUME NEW r \in Requests, Applying(r) PROVE free' \in {free, free + 1, free + 2}
  BY <1>3 DEF Applying, CheckDuplicate, DrawCode, FindCandidate, UpdateCandidate, InsertCandidate,
              InsertApplication, CountApplication, Commit, StatementFails, RollBack, Return
<1>4. ASSUME NEW r \in Requests, Asking(r) PROVE free' = free + 1
  BY <1>4 DEF Asking, FindApplication, ReadDocuments, WriteDocuments, RecordUpload, LookUp,
              DeleteApplication, QueryFails, Query, Return
<1>5. CASE Crash
  BY <1>0, <1>5 DEF Crash
<1>6. CASE UNCHANGED vars
  BY <1>6 DEF vars
<1> QED
  BY <1>0, <1>1, <1>2, <1>3, <1>4, <1>5, <1>6, StepKinds

LEMMA BalancedIsTyped == Inv0 /\ Balanced /\ free >= 0 => TypeOK
<1> SUFFICES ASSUME Inv0, Balanced, free >= 0 PROVE TypeOK
  OBVIOUS
<1>1. free \in 0..PoolSize
  <2> DEFINE u == Cardinality(Using)
             d == Cardinality(Drawing)
  <2>1. u \in Nat /\ d \in Nat /\ free + u + d = PoolSize /\ free \in Int /\ PoolSize \in Nat
    BY CountsInNat, CareerPortalAssumption DEF Balanced, Inv0, Types
  <2> QED
    BY <2>1
<1> QED
  BY <1>1 DEF Inv0, Types, TypeOK

-----------------------------------------------------------------------------
(* What ended before *)

Late    == Transacting \ {"check"}
Written == {"askNote", "note"}
Read    == {"askWrite", "write"}

\* What a step does to a request, whichever request takes it.
History(q) ==
  /\ pc[q] = "ended" => pc'[q] = "ended"
  /\ op[q] # None => op'[q] = op[q] /\ before'[q] = before[q]
  /\ op[q] = None => \/ before'[q] = before[q] /\ op'[q] = op[q]
                     \/ /\ before'[q] = {r \in Requests : pc[r] = "ended"}
                        /\ pc'[q] \in {"connect", "askFind", "askLook"}
  /\ apps'[q] = "live" => apps[q] = "live" \/ pc[q] = "commit"
  /\ outcome'[q] = "done" => outcome[q] = "done" \/ pc[q] \in {"commit", "note", "erase"}

Progress(q) ==
  /\ pc'[q] \in Late => \/ pc[q] \in Late
                        \/ pc[q] = "check" /\ ~HasApplied(op[q].person, op[q].job)
  /\ pc'[q] \in Written => pc[q] \in Written \/ WriteDocuments(q)
  /\ pc'[q] \in Read => \/ pc[q] \in Read /\ seen'[q] = seen[q]
                        \/ ReadDocuments(q)

LEMMA Events ==
  ASSUME Inv0, Next, NEW q \in Requests
  PROVE  History(q) /\ Progress(q)
<1> USE DEF Late, Written, Read, Transacting
<1>0. /\ pc \in [Requests -> Points \union {"unsent", "ended"}]
      /\ op \in [Requests -> Operations \union {None}]
      /\ outcome \in [Requests -> {"none", "done", "refused", "failed", "timeout", "lost"}]
      /\ apps \in [Requests -> {"none", "pending", "live", "deleted"}]
      /\ seen \in [Requests -> SUBSET Requests]
      /\ before \in [Requests -> SUBSET Requests]
  BY DEF Inv0, Types
<1>1. ASSUME NEW r \in Requests, Sending(r) PROVE History(q) /\ Progress(q)
  <2>1. PICK x \in {"connect", "askFind", "askLook"} :
          /\ pc[r] = "unsent" /\ pc' = [pc EXCEPT ![r] = x]
          /\ op' = [op EXCEPT ![r] = op'[r]]
          /\ before' = [before EXCEPT ![r] = {p \in Requests : pc[p] = "ended"}]
          /\ UNCHANGED <<outcome, apps, docs, seen>>
    BY <1>0, <1>1 DEF Sending, SendApplication, SendUpload, SendDeletion, Send
  <2>2. op[r] = None
    BY <2>1 DEF Inv0, Types
  <2> QED
    BY <1>0, <2>1, <2>2 DEF History, Progress
<1>2. ASSUME NEW r \in Requests, Pooling(r) PROVE History(q) /\ Progress(q)
  <2>1. CASE GetConnection(r)
    BY <1>0, <2>1, GrantedPoints DEF GetConnection, Goto, History, Progress
  <2>2. CASE ConnectionTimeout(r)
    BY <1>0, <2>2, GrantedPoints DEF ConnectionTimeout, RollBack, Answer, History, Progress
  <2> QED
    BY <1>2, <2>1, <2>2 DEF Pooling
<1>3. ASSUME NEW r \in Requests, Applying(r) PROVE History(q) /\ Progress(q)
  <2>1. /\ UNCHANGED <<op, before, seen>>
        /\ pc[r] \in Transacting
        /\ pc' = [pc EXCEPT ![r] = pc'[r]]
        /\ pc'[r] \in Late \union {"ended"}
        /\ pc[r] = "check" /\ pc'[r] # "ended" => ~HasApplied(op[r].person, op[r].job)
    BY <1>0, <1>3 DEF Applying, CheckDuplicate, DrawCode, FindCandidate, UpdateCandidate,
         InsertCandidate, InsertApplication, CountApplication, Commit, StatementFails,
         RollBack, Answer, Goto
  <2>2. /\ apps' = [apps EXCEPT ![r] = apps'[r]] /\ outcome' = [outcome EXCEPT ![r] = outcome'[r]]
        /\ apps'[r] = "live" \/ outcome'[r] = "done" =>
             pc[r] = "commit" \/ (apps'[r] = apps[r] /\ outcome'[r] = outcome[r])
             \/ (apps'[r] # "live" /\ outcome'[r] = outcome[r])
    BY <1>0, <1>3 DEF Applying, CheckDuplicate, DrawCode, FindCandidate, UpdateCandidate,
         InsertCandidate, InsertApplication, CountApplication, Commit, StatementFails,
         RollBack, Answer, Goto
  <2>3. Progress(q)
    BY <1>0, <2>1 DEF Progress
  <2>4. History(q)
    BY <1>0, <2>1, <2>2 DEF History
  <2> QED
    BY <2>3, <2>4
<1>4. ASSUME NEW r \in Requests, Asking(r) PROVE History(q) /\ Progress(q)
  <2>1. /\ UNCHANGED <<op, before>>
        /\ pc[r] \in Querying
        /\ pc' = [pc EXCEPT ![r] = pc'[r]]
        /\ pc'[r] \in {"askRead", "askWrite", "askNote", "askErase", "ended"}
        /\ pc'[r] = "askWrite" => ReadDocuments(r)
        /\ pc'[r] = "askNote" => WriteDocuments(r)
        /\ q # r => seen'[q] = seen[q]
    BY <1>0, <1>4 DEF Asking, FindApplication, ReadDocuments, WriteDocuments, RecordUpload,
         LookUp, DeleteApplication, QueryFails, Query, Answer, Goto, Querying
  <2>2. /\ apps'[q] = "live" => apps[q] = "live"
        /\ outcome' = [outcome EXCEPT ![r] = outcome'[r]]
        /\ outcome'[r] = "done" => outcome'[r] = outcome[r] \/ pc[r] \in {"note", "erase"}
    BY <1>0, <1>4 DEF Asking, FindApplication, ReadDocuments, WriteDocuments, RecordUpload,
         LookUp, DeleteApplication, QueryFails, Query, Answer, Goto, Querying
  <2>3. Progress(q)
    BY <1>0, <2>1 DEF Progress, Querying
  <2>4. History(q)
    BY <1>0, <2>1, <2>2 DEF History, Querying
  <2> QED
    BY <2>3, <2>4
<1>5. CASE Crash
  BY <1>0, <1>5 DEF Crash, History, Progress
<1> QED
  BY <1>1, <1>2, <1>3, <1>4, <1>5, StepKinds

LEMMA DocsEvents ==
  ASSUME Next
  PROVE  docs' = docs \/ \E r \in Requests : WriteDocuments(r)
  BY DEF Next, Advance, Crash, SendApplication, SendUpload, SendDeletion, Send, GetConnection,
         ConnectionTimeout, CheckDuplicate, DrawCode, FindCandidate, UpdateCandidate,
         InsertCandidate, InsertApplication, CountApplication, Commit, StatementFails, RollBack,
         FindApplication, ReadDocuments, RecordUpload, LookUp, DeleteApplication, QueryFails

\* Whoever had ended when a request was sent has ended.
Past == \A r \in Requests : /\ r \notin before[r]
                            /\ \A q \in before[r] : pc[q] = "ended"

\* An application that is past its check has seen none for the same job made
\* by a request that had ended when it was sent.
Checked ==
  \A r \in Requests : \A q \in before[r] :
    /\ op[q].person = op[r].person
    /\ op[q].job = op[r].job
    /\ pc[r] \in Late \/ apps[r] = "live"
    => apps[q] # "live"

LEMMA StepPast == Inv0 /\ Past /\ Next => Past'
<1> SUFFICES ASSUME Inv0, Past, Next, NEW r \in Requests
             PROVE  r \notin before'[r] /\ \A q \in before'[r] : pc'[q] = "ended"
  BY DEF Past
<1>1. History(r) /\ Inv0'
  BY Events, NextInv0
<1>2. \A q \in Requests : pc[q] = "ended" => pc'[q] = "ended"
  BY Events DEF History
<1>3. before[r] \subseteq Requests
  BY DEF Inv0, Types
<1>4. CASE before'[r] = before[r]
  BY <1>2, <1>3, <1>4 DEF Past
<1>5. CASE op[r] = None /\ before'[r] = {q \in Requests : pc[q] = "ended"}
  BY <1>2, <1>5 DEF Inv0, Types
<1> QED
  BY <1>1, <1>4, <1>5 DEF History

LEMMA StepChecked == Inv0 /\ Past /\ Checked /\ Next => Checked'
<1> SUFFICES ASSUME Inv0, Past, Checked, Next,
                    NEW r \in Requests, NEW q \in before'[r],
                    op'[q].person = op'[r].person, op'[q].job = op'[r].job,
                    pc'[r] \in Late \/ apps'[r] = "live"
             PROVE  apps'[q] # "live"
  BY DEF Checked
<1>1. Inv0' /\ Past'
  BY StepPast, NextInv0
<1>2. q \in Requests /\ History(q) /\ History(r) /\ Progress(r)
  BY <1>1, Events DEF Inv0, Types
<1>3. op[r] # None
  <2>1. ASSUME op[r] = None PROVE FALSE
    <3>1. pc[r] = "unsent" /\ apps[r] # "live" /\ pc[r] # "commit" /\ pc[r] \notin Late
      BY <2>1 DEF Inv0, Types, KindsOK, Late, Transacting
    <3> QED
      BY <1>2, <3>1 DEF History, Progress
  <2> QED
    BY <2>1
<1>4. op'[r] = op[r] /\ q \in before[r]
  BY <1>2, <1>3 DEF History
<1>5. pc[q] = "ended" /\ op[q] # None
  BY <1>2, <1>4 DEF Past, Inv0, Types
<1>6. op'[q] = op[q] /\ (apps'[q] = "live" => apps[q] = "live")
  BY <1>2, <1>5 DEF History
<1>7. \/ pc[r] \in Late \/ apps[r] = "live"
      \/ ~HasApplied(op[r].person, op[r].job)
  BY <1>2 DEF History, Progress, Late, Transacting
<1>8. CASE pc[r] \in Late \/ apps[r] = "live"
  BY <1>4, <1>6, <1>8 DEF Checked
<1>9. CASE ~HasApplied(op[r].person, op[r].job)
  BY <1>2, <1>4, <1>6, <1>9 DEF HasApplied
<1> QED
  BY <1>7, <1>8, <1>9

Overlaps(r, p) == \E q \in Requests \ {r} : /\ Uploaded(q, p)
                                            /\ q \notin before[r] /\ r \notin before[q]

\* A document that has been written is there, and so it is in what an upload
\* sent afterwards has read.
Kept ==
  \A p \in People, r \in Requests : Uploaded(r, p) =>
    /\ pc[r] \in Written \/ outcome[r] = "done" => r \in docs[p] \/ Overlaps(r, p)
    /\ \A q \in Requests :
         Uploaded(q, p) /\ pc[q] \in Read /\ r \in before[q] /\ outcome[r] = "done"
         => r \in seen[q] \/ Overlaps(r, p)

LEMMA OverlapsStays ==
  ASSUME Inv0, Next, NEW p \in People, NEW r \in Requests, op[r] # None, Overlaps(r, p)
  PROVE  Overlaps(r, p)'
<1>1. PICK q \in Requests \ {r} : Uploaded(q, p) /\ q \notin before[r] /\ r \notin before[q]
  BY DEF Overlaps
<1>2. op[q] # None /\ History(q) /\ History(r)
  BY <1>1, Events DEF Uploaded
<1>3. op'[q] = op[q] /\ before'[q] = before[q] /\ before'[r] = before[r]
  BY <1>2 DEF History
<1> QED
  BY <1>1, <1>3 DEF Overlaps, Uploaded

\* What an upload has before it was sent is what it has afterwards.
LEMMA UploadedBefore ==
  ASSUME Inv0, Next, NEW p \in People, NEW r \in Requests, Uploaded(r, p)',
         pc'[r] \in Written \union Read \/ outcome'[r] = "done"
  PROVE  /\ Uploaded(r, p) /\ op[r] # None /\ op'[r] = op[r] /\ before'[r] = before[r]
         /\ outcome'[r] = "done" => outcome[r] = "done" \/ pc[r] = "note"
<1>1. History(r) /\ Progress(r)
  BY Events
<1>2. op[r] # None
  <2>1. ASSUME op[r] = None PROVE FALSE
    <3>1. pc[r] = "unsent" /\ outcome[r] # "done"
      BY <2>1 DEF Inv0, Types
    <3>2. pc'[r] # "unsent" /\ pc'[r] \notin Written \union Read
      <4>1. ~WriteDocuments(r) /\ ~ReadDocuments(r)
        BY <3>1 DEF WriteDocuments, ReadDocuments, Query
      <4>2. op'[r] # None
        BY DEF Uploaded
      <4> QED
        BY <1>1, <3>1, <4>1, <4>2, NextInv0 DEF Progress, Written, Read, Inv0, Types
    <3> QED
      BY <1>1, <3>1, <3>2 DEF History
  <2> QED
    BY <2>1
<1>3. op'[r] = op[r] /\ before'[r] = before[r] /\ Uploaded(r, p)
  BY <1>1, <1>2 DEF History, Uploaded
<1>4. pc[r] \notin {"commit", "erase"}
  BY <1>3 DEF Uploaded, Inv0, KindsOK, Transacting, Deleting
<1> QED
  BY <1>1, <1>2, <1>3, <1>4 DEF History

LEMMA StepKept == Inv0 /\ Past /\ Kept /\ Next => Kept'
<1> SUFFICES ASSUME Inv0, Past, Kept, Next, NEW p \in People, NEW r \in Requests,
                    Uploaded(r, p)'
             PROVE  /\ pc'[r] \in Written \/ outcome'[r] = "done" =>
                         r \in docs'[p] \/ Overlaps(r, p)'
                    /\ \A q \in Requests :
                         /\ Uploaded(q, p)' /\ pc'[q] \in Read
                         /\ r \in before'[q] /\ outcome'[r] = "done"
                         => r \in seen'[q] \/ Overlaps(r, p)'
  BY DEF Kept
<1>0. History(r) /\ Progress(r) /\ Past' /\ Inv0'
  BY Events, StepPast, NextInv0
<1>1. ASSUME pc'[r] \in Written \/ outcome'[r] = "done"
      PROVE  r \in docs'[p] \/ Overlaps(r, p)'
  <2>1. /\ Uploaded(r, p) /\ op[r] # None /\ op'[r] = op[r] /\ before'[r] = before[r]
        /\ outcome'[r] = "done" => outcome[r] = "done" \/ pc[r] = "note"
    BY <1>1, UploadedBefore
  <2>2. CASE WriteDocuments(r)
    BY <2>1, <2>2 DEF WriteDocuments, Uploaded, Inv0, Types
  <2>3. CASE ~WriteDocuments(r)
    <3>1. pc[r] \in Written \/ outcome[r] = "done"
      BY <1>0, <1>1, <2>1, <2>3 DEF Progress, Written
    <3>2. r \in docs[p] \/ Overlaps(r, p)
      BY <2>1, <3>1 DEF Kept
    <3>3. CASE Overlaps(r, p)
      BY <2>1, <3>3, OverlapsStays
    <3>4. CASE r \in docs[p] /\ docs' = docs
      BY <3>4
    <3>5. ASSUME NEW q \in Requests, WriteDocuments(q), r \in docs[p], q # r
          PROVE  r \in docs'[p] \/ Overlaps(r, p)'
      <4>1. pc[q] = "write" /\ op[q] # None /\ op[q].kind = "upload" /\ op[q].person \in People
        BY <3>5 DEF WriteDocuments, Query, Inv0, Types, KindsOK, Uploading, Operations
      <4>2. CASE op[q].person # p
        BY <3>5, <4>1, <4>2 DEF WriteDocuments, Inv0, Types
      <4>3. CASE op[q].person = p
        <5>1. docs'[p] = seen[q] \union {q} /\ Uploaded(q, p)
          BY <3>5, <4>1, <4>3 DEF WriteDocuments, Uploaded, Inv0, Types
        <5>2. q \notin before[r]
          BY <4>1 DEF Past
        <5>3. CASE r \notin before[q]
          <6>1. Overlaps(r, p)
            BY <3>5, <5>1, <5>2, <5>3 DEF Overlaps
          <6> QED
            BY <2>1, <6>1, OverlapsStays
        <5>4. CASE r \in before[q]
          <6>1. pc[r] = "ended"
            BY <5>4 DEF Past
          <6>2. outcome[r] = "done"
            BY <3>1, <6>1 DEF Written
          <6>3. r \in seen[q] \/ Overlaps(r, p)
            BY <2>1, <4>1, <5>1, <5>4, <6>2 DEF Kept, Read
          <6> QED
            BY <2>1, <5>1, <6>3, OverlapsStays
        <5> QED
          BY <5>3, <5>4
      <4> QED
        BY <4>2, <4>3
    <3> QED
      BY <2>3, <3>2, <3>3, <3>4, <3>5, DocsEvents
  <2> QED
    BY <2>2, <2>3
<1>2. ASSUME NEW q \in Requests, Uploaded(q, p)', pc'[q] \in Read, r \in before'[q],
             outcome'[r] = "done"
      PROVE  r \in seen'[q] \/ Overlaps(r, p)'
  <2>1. /\ Uploaded(r, p) /\ op[r] # None
        /\ outcome[r] = "done" \/ pc[r] = "note"
    BY <1>2, UploadedBefore
  <2>2. Uploaded(q, p) /\ before'[q] = before[q] /\ Progress(q)
    BY <1>2, UploadedBefore, Events
  <2>3. pc[r] = "ended" /\ outcome[r] = "done"
    BY <1>2, <2>1, <2>2 DEF Past
  <2>4. CASE ReadDocuments(q)
    <3>1. seen'[q] = docs[p]
      BY <2>2, <2>4 DEF ReadDocuments, Uploaded, Inv0, Types
    <3>2. r \in docs[p] \/ Overlaps(r, p)
      BY <2>1, <2>3 DEF Kept
    <3> QED
      BY <2>1, <3>1, <3>2, OverlapsStays
  <2>5. CASE pc[q] \in Read /\ seen'[q] = seen[q]
    <3>1. r \in seen[q] \/ Overlaps(r, p)
      BY <1>2, <2>1, <2>2, <2>3, <2>5 DEF Kept
    <3> QED
      BY <2>1, <2>5, <3>1, OverlapsStays
  <2> QED
    BY <1>2, <2>2, <2>4, <2>5 DEF Progress
<1> QED
  BY <1>1, <1>2

-----------------------------------------------------------------------------
(* Theorems *)

IInv == Inv0 /\ Balanced /\ free >= 0 /\ Past /\ Checked /\ Kept

LEMMA InitIInv == Init => IInv
<1> SUFFICES ASSUME Init PROVE IInv
  OBVIOUS
<1>1. Inv0 /\ Balanced
  BY InitTypes, InitBalanced
<1>2. free >= 0
  BY CareerPortalAssumption DEF Init
<1>3. Past /\ Checked /\ Kept
  BY DEF Init, Past, Checked, Kept, Uploaded
<1> QED
  BY <1>1, <1>2, <1>3 DEF IInv

LEMMA StepIInv == IInv /\ [Next]_vars => IInv'
<1> SUFFICES ASSUME IInv, [Next]_vars PROVE IInv'
  OBVIOUS
<1>1. Inv0' /\ Balanced' /\ free' >= 0
  BY NextInv0, StepBalanced, StepFree DEF IInv
<1>2. CASE Next
  BY <1>1, <1>2, StepPast, StepChecked, StepKept DEF IInv
<1>3. CASE UNCHANGED vars
  <2>1. Past' /\ Checked'
    BY <1>3 DEF IInv, vars, Past, Checked
  <2>2. Kept'
    BY <1>3 DEF IInv, vars, Kept, Uploaded, Overlaps
  <2> QED
    BY <1>1, <2>1, <2>2 DEF IInv
<1> QED
  BY <1>2, <1>3

LEMMA Invariant == Spec => []IInv
  BY InitIInv, StepIInv, PTL DEF Spec

\* Values keep their types; in particular the pool never lends more than it
\* has, and never gets back more than it lent.
THEOREM TypeCorrect == Spec => []TypeOK
<1>1. IInv => TypeOK
  BY BalancedIsTyped DEF IInv
<1> QED
  BY <1>1, Invariant, PTL

\* Whichever way requests end, the connections that are out are those that a
\* transaction or a statement is using.
THEOREM NoConnectionLeakHolds == Spec => []NoConnectionLeak
<1>1. IInv => NoConnectionLeak
  BY BalancedIsNoLeak DEF IInv
<1> QED
  BY <1>1, Invariant, PTL

\* Two live applications of one person for one job were sent at the same time.
THEOREM AppliesOnceHolds == Spec => []AppliesOnce
<1>1. IInv => AppliesOnce
  BY DEF IInv, Checked, AppliesOnce
<1> QED
  BY <1>1, Invariant, PTL

\* A document whose upload was answered is there unless uploads overlapped.
THEOREM DocumentsKeptHolds == Spec => []DocumentsKept
<1>1. IInv => DocumentsKept
  BY DEF IInv, Kept, Overlaps, DocumentsKept
<1> QED
  BY <1>1, Invariant, PTL
=============================================================================
