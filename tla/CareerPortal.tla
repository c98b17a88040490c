---------------------------- MODULE CareerPortal ----------------------------
(***************************************************************************)
(* The public side of recruitment: people apply for a job without an       *)
(* account, follow their application by its tracking code and upload       *)
(* documents to it; the staff can delete an application.                   *)
(*                                                                         *)
(* An application is one transaction on one connection of the pool, and    *)
(* asks the pool for a second connection in the middle of it. An upload    *)
(* and a deletion ask for a connection for each statement. The pool lends  *)
(* PoolSize connections and refuses whoever has waited too long. The       *)
(* database shows a transaction only what has been committed; the row of a *)
(* candidate and the row of a job are locked by the transaction that       *)
(* writes them, until it ends.                                             *)
(*                                                                         *)
(* Jobs are the jobs that are public and open: no route of the program     *)
(* manages to write a job, so they stay so. A tracking code that is drawn  *)
(* is a new one.                                                           *)
(***************************************************************************)
EXTENDS Integers, FiniteSets

CONSTANTS
  Requests,     \* bound: the requests ever sent
  People,       \* e-mail addresses of candidates
  Jobs,
  PoolSize,     \* connections of the pool
  MaxCrashes,   \* bound: crashes of the service
  None

\* What a request may ask for; an application is named by the request that
\* made it.
Operations ==
  [kind : {"apply", "upload", "delete"}, person : People, job : Jobs,
   application : Requests]

ASSUME CareerPortalAssumption ==
  /\ IsFiniteSet(Requests)
  /\ PoolSize \in Nat \ {0}
  /\ MaxCrashes \in Nat
  /\ People \intersect Jobs = {}
  /\ None \notin Requests \union People \union Jobs \union Operations

VARIABLES
  pc,           \* the await each request stands at
  op,           \* what it asks for
  outcome,      \* its answer
  free,         \* connections nobody has
  holder,       \* the transaction that holds the row of a person or a job
  candidates,   \* people with a row in candidates
  apps,         \* the application made by each request
  docs,         \* application_data.additionalDocuments of each person
  seen,         \* the documents an upload has read
  before,       \* history: requests that had ended when this one was sent
  crashes

vars == <<pc, op, outcome, free, holder, candidates, apps, docs, seen, before,
          crashes>>

\* The points at which a request waits for a connection, and where each leads.
Granted ==
  [connect |-> "check", askCode |-> "code", askFind |-> "find",
   askRead |-> "read", askWrite |-> "write", askNote |-> "note",
   askLook |-> "look", askErase |-> "erase"]

Transacting == {"check", "askCode", "code", "candidate", "update", "insert",
                "file", "count", "commit"}
Querying    == {"find", "read", "write", "note", "look", "erase"}
Points      == DOMAIN Granted \union Transacting \union Querying

\* Values keep their types, and only a request that has been sent has one.
TypeOK ==
  /\ pc \in [Requests -> Points \union {"unsent", "ended"}]
  /\ op \in [Requests -> Operations \union {None}]
  /\ outcome \in [Requests -> {"none", "done", "refused", "failed", "timeout", "lost"}]
  /\ free \in 0..PoolSize
  /\ holder \in [People \union Jobs -> Requests \union {None}]
  /\ candidates \subseteq People
  /\ apps \in [Requests -> {"none", "pending", "live", "deleted"}]
  /\ docs \in [People -> SUBSET Requests]
  /\ seen \in [Requests -> SUBSET Requests]
  /\ before \in [Requests -> SUBSET Requests]
  /\ crashes \in 0..MaxCrashes
  /\ \A r \in Requests : /\ (pc[r] = "unsent") <=> (op[r] = None)
                         /\ (pc[r] = "ended") <=> (outcome[r] # "none")

-----------------------------------------------------------------------------
\* A candidate may be there from an application for an earlier job.
Init ==
  /\ pc = [r \in Requests |-> "unsent"]
  /\ op = [r \in Requests |-> None]
  /\ outcome = [r \in Requests |-> "none"]
  /\ free = PoolSize
  /\ holder = [x \in People \union Jobs |-> None]
  /\ candidates \in SUBSET People
  /\ apps = [r \in Requests |-> "none"]
  /\ docs = [p \in People |-> {}]
  /\ seen = [r \in Requests |-> {}]
  /\ before = [r \in Requests |-> {}]
  /\ crashes = 0

Goto(r, point) ==
  /\ pc' = [pc EXCEPT ![r] = point]
  /\ UNCHANGED <<op, outcome, before, crashes>>

Answer(r, o) ==
  /\ pc' = [pc EXCEPT ![r] = "ended"]
  /\ outcome' = [outcome EXCEPT ![r] = o]
  /\ UNCHANGED <<op, before, crashes>>

Send(r, operation, point) ==
  /\ pc[r] = "unsent"
  /\ pc' = [pc EXCEPT ![r] = point]
  /\ op' = [op EXCEPT ![r] = operation]
  /\ before' = [before EXCEPT ![r] = {q \in Requests : pc[q] = "ended"}]
  /\ UNCHANGED <<outcome, free, holder, candidates, apps, docs, seen, crashes>>

SendApplication(r, p, j) ==
  Send(r, [kind |-> "apply", person |-> p, job |-> j, application |-> r], "connect")

\* Whoever uploads or deletes names an application that has been made.
SendUpload(r, a) ==
  /\ apps[a] \in {"live", "deleted"}
  /\ Send(r, [op[a] EXCEPT !.kind = "upload"], "askFind")

SendDeletion(r, a) ==
  /\ apps[a] \in {"live", "deleted"}
  /\ Send(r, [op[a] EXCEPT !.kind = "delete"], "askLook")

-----------------------------------------------------------------------------
\* The pool.

GetConnection(r) ==
  /\ pc[r] \in DOMAIN Granted
  /\ free > 0
  /\ free' = free - 1
  /\ Goto(r, Granted[pc[r]])
  /\ UNCHANGED <<holder, candidates, apps, docs, seen>>

\* A statement that asked the pool for its connection gives it back.
Return == free' = free + 1

\* Plausible bug: an error leaves the transaction's connection unreleased.
BugRollBack(r, o, returned) ==
  /\ free' = free + returned - 1
  /\ holder' = [x \in DOMAIN holder |-> IF holder[x] = r THEN None ELSE holder[x]]
  /\ apps' = [apps EXCEPT ![r] = "none"]
  /\ UNCHANGED <<candidates, docs, seen>>
  /\ Answer(r, o)

\* The end of a transaction that went wrong, with the connections it returns.
RollBack(r, o, returned) ==
  /\ free' = free + returned
  /\ holder' = [x \in DOMAIN holder |-> IF holder[x] = r THEN None ELSE holder[x]]
  /\ apps' = [apps EXCEPT ![r] = "none"]
  /\ UNCHANGED <<candidates, docs, seen>>
  /\ Answer(r, o)

\* Plausible bug: the pool has no connectionTimeoutMillis and waits for ever.
BugConnectionTimeout(r) == FALSE /\ UNCHANGED vars

\* Nobody has returned a connection for connectionTimeoutMillis.
ConnectionTimeout(r) ==
  /\ pc[r] \in DOMAIN Granted
  /\ free = 0
  /\ IF pc[r] = "askCode"
     THEN RollBack(r, "timeout", 1)
     ELSE /\ Answer(r, "timeout")
          /\ UNCHANGED <<free, holder, candidates, apps, docs, seen>>

-----------------------------------------------------------------------------
\* An application.

\* Some earlier request has applied for the job with the same address.
HasApplied(p, j) ==
  \E q \in Requests : /\ apps[q] = "live"
                      /\ op[q].person = p
                      /\ op[q].job = j

\* Plausible bug: nobody looks for an earlier application.
BugCheckDuplicate(r) ==
  /\ pc[r] = "check"
  /\ Goto(r, "askCode")
  /\ UNCHANGED <<free, holder, candidates, apps, docs, seen>>

CheckDuplicate(r) ==
  /\ pc[r] = "check"
  /\ IF HasApplied(op[r].person, op[r].job)
     THEN RollBack(r, "refused", 1)
     ELSE /\ Goto(r, "askCode")
          /\ UNCHANGED <<free, holder, candidates, apps, docs, seen>>

\* The code is looked up on a connection of its own.
DrawCode(r) ==
  /\ pc[r] = "code"
  /\ Return
  /\ Goto(r, "candidate")
  /\ UNCHANGED <<holder, candidates, apps, docs, seen>>

FindCandidate(r) ==
  /\ pc[r] = "candidate"
  /\ Goto(r, IF op[r].person \in candidates THEN "update" ELSE "insert")
  /\ UNCHANGED <<free, holder, candidates, apps, docs, seen>>

Lock(r, row) ==
  /\ holder[row] = None
  /\ holder' = [holder EXCEPT ![row] = r]

UpdateCandidate(r) ==
  /\ pc[r] = "update"
  /\ Lock(r, op[r].person)
  /\ Goto(r, "file")
  /\ UNCHANGED <<free, candidates, apps, docs, seen>>

\* unique_candidate_email_per_org: an insertion waits for one that is not
\* committed yet, and fails if it has been.
InsertCandidate(r) ==
  /\ pc[r] = "insert"
  /\ IF op[r].person \in candidates
     THEN RollBack(r, "failed", 1)
     ELSE /\ Lock(r, op[r].person)
          /\ Goto(r, "file")
          /\ UNCHANGED <<free, candidates, apps, docs, seen>>

InsertApplication(r) ==
  /\ pc[r] = "file"
  /\ apps' = [apps EXCEPT ![r] = "pending"]
  /\ Goto(r, "count")
  /\ UNCHANGED <<free, holder, candidates, docs, seen>>

\* application_count + 1.
CountApplication(r) ==
  /\ pc[r] = "count"
  /\ Lock(r, op[r].job)
  /\ Goto(r, "commit")
  /\ UNCHANGED <<free, candidates, apps, docs, seen>>

\* The welcome message is inserted, and everything becomes visible at once.
Commit(r) ==
  /\ pc[r] = "commit"
  /\ apps' = [apps EXCEPT ![r] = "live"]
  /\ candidates' = candidates \union {op[r].person}
  /\ holder' = [x \in DOMAIN holder |-> IF holder[x] = r THEN None ELSE holder[x]]
  /\ Return
  /\ Answer(r, "done")
  /\ UNCHANGED <<docs, seen>>

\* Plausible bug: both connections are released, whichever were taken.
BugStatementFails(r) ==
  /\ pc[r] \in Transacting \ {"askCode"}
  /\ RollBack(r, "failed", 2)

StatementFails(r) ==
  /\ pc[r] \in Transacting \ {"askCode"}
  /\ RollBack(r, "failed", IF pc[r] = "code" THEN 2 ELSE 1)

-----------------------------------------------------------------------------
\* An upload and a deletion: each statement on a connection of its own.

Query(r, point) ==
  /\ pc[r] = point
  /\ Return
  /\ UNCHANGED <<holder, candidates>>

FindApplication(r) ==
  /\ Query(r, "find")
  /\ IF apps[op[r].application] = "live"
     THEN Goto(r, "askRead")
     ELSE Answer(r, "refused")
  /\ UNCHANGED <<apps, docs, seen>>

ReadDocuments(r) ==
  /\ Query(r, "read")
  /\ seen' = [seen EXCEPT ![r] = docs[op[r].person]]
  /\ Goto(r, "askWrite")
  /\ UNCHANGED <<apps, docs>>

\* Plausible bug: the new document is written in place of the others.
BugWriteDocuments(r) ==
  /\ Query(r, "write")
  /\ holder[op[r].person] = None
  /\ docs' = [docs EXCEPT ![op[r].person] = {r}]
  /\ Goto(r, "askNote")
  /\ UNCHANGED <<apps, seen>>

\* The whole of application_data is written back, once the row is not locked.
WriteDocuments(r) ==
  /\ Query(r, "write")
  /\ holder[op[r].person] = None
  /\ docs' = [docs EXCEPT ![op[r].person] = seen[r] \union {r}]
  /\ Goto(r, "askNote")
  /\ UNCHANGED <<apps, seen>>

RecordUpload(r) ==
  /\ Query(r, "note")
  /\ Answer(r, "done")
  /\ UNCHANGED <<apps, docs, seen>>

LookUp(r) ==
  /\ Query(r, "look")
  /\ IF apps[op[r].application] = "live"
     THEN Goto(r, "askErase")
     ELSE Answer(r, "refused")
  /\ UNCHANGED <<apps, docs, seen>>

DeleteApplication(r) ==
  /\ Query(r, "erase")
  /\ apps' = [apps EXCEPT ![op[r].application] = "deleted"]
  /\ Answer(r, "done")
  /\ UNCHANGED <<docs, seen>>

QueryFails(r) ==
  /\ pc[r] \in Querying
  /\ Return
  /\ Answer(r, "failed")
  /\ UNCHANGED <<holder, candidates, apps, docs, seen>>

-----------------------------------------------------------------------------
\* The process dies: an error on an idle connection is enough. The database
\* rolls back what was not committed.
Crash ==
  /\ crashes < MaxCrashes
  /\ crashes' = crashes + 1
  /\ pc' = [r \in Requests |-> IF pc[r] = "unsent" THEN "unsent" ELSE "ended"]
  /\ outcome' = [r \in Requests |-> IF pc[r] \in Points THEN "lost" ELSE outcome[r]]
  /\ free' = PoolSize
  /\ holder' = [x \in DOMAIN holder |-> None]
  /\ apps' = [r \in Requests |-> IF apps[r] = "pending" THEN "none" ELSE apps[r]]
  /\ UNCHANGED <<op, candidates, docs, seen, before>>

\* The next step of a request that nothing but the pool stands in the way of.
Advance(r) ==
  \/ GetConnection(r) \/ ConnectionTimeout(r)
  \/ CheckDuplicate(r) \/ DrawCode(r)
  \/ FindCandidate(r) \/ UpdateCandidate(r) \/ InsertCandidate(r)
  \/ InsertApplication(r) \/ CountApplication(r) \/ Commit(r)
  \/ FindApplication(r) \/ ReadDocuments(r) \/ WriteDocuments(r) \/ RecordUpload(r)
  \/ LookUp(r) \/ DeleteApplication(r)

Next ==
  \/ \E r \in Requests :
       \/ \E p \in People, j \in Jobs : SendApplication(r, p, j)
       \/ \E a \in Requests : SendUpload(r, a) \/ SendDeletion(r, a)
       \/ Advance(r) \/ StatementFails(r) \/ QueryFails(r)
  \/ Crash

Spec == Init /\ [][Next]_vars

\* A request that can go on does: the event loop and the database serve every
\* one, and the pool's timer fires. Nothing is assumed of clients or failures.
FairSpec == Spec /\ \A r \in Requests : WF_vars(Advance(r))

-----------------------------------------------------------------------------
\* Every connection comes back, whichever way a request ends: those that are
\* out are the ones a transaction or a statement is using.
NoConnectionLeak ==
  free + Cardinality({r \in Requests : pc[r] \in Transacting \union Querying})
       + Cardinality({r \in Requests : pc[r] = "code"}) = PoolSize

\* Nobody has two applications for one job unless they were sent at the same
\* time: one that is sent after another has been answered is refused
\* ("You have already applied to this position").
AppliesOnce ==
  \A q, r \in Requests :
    /\ apps[q] = "live" /\ apps[r] = "live"
    /\ op[q].person = op[r].person /\ op[q].job = op[r].job
    => q \notin before[r]

Uploaded(r, p) == op[r] # None /\ op[r].kind = "upload" /\ op[r].person = p

\* A document whose upload was answered is there as long as no other upload of
\* the same person was under way at the same time.
DocumentsKept ==
  \A p \in People, r \in Requests :
    /\ Uploaded(r, p)
    /\ outcome[r] = "done"
    => \/ r \in docs[p]
       \/ \E q \in Requests \ {r} : /\ Uploaded(q, p)
                                    /\ q \notin before[r] /\ r \notin before[q]

\* Every request that is sent is answered, or lost in a crash, even when all
\* connections are held by applications that wait for a second one.
EveryRequestEnds == \A r \in Requests : pc[r] # "unsent" ~> pc[r] = "ended"
=============================================================================
