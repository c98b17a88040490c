------------------------ MODULE TenantSessions_proofs ------------------------
(***************************************************************************)
(* What TenantSessions keeps for any number of requests, browsers and      *)
(* sessions: its types, the bound on wrong passwords, and the reach of     *)
(* revokeAllSessions.                                                      *)
(***************************************************************************)
EXTENDS TenantSessions, FiniteSetTheorems, TLAPS

\* Failures that were compared but not yet counted.
Counting == {r \in Requests : pc[r] = "count"}

\* Every wrong password is counted by the row, about to be, or lost.
GuessesCounted == guesses <= attempts + Cardinality(Counting) + lost

\* What browsers hold, and are about to be given, was stored.
HeldIsStored ==
  /\ \A b \in Browsers : refresh[b] # NoSession => row[refresh[b]] # "absent"
  /\ \A r \in Requests :
       /\ pc[r] = "stamp" => session[r] \in Sessions
       /\ session[r] # NoSession => row[session[r]] # "absent"

LEMMA InitTypeOK == Init => TypeOK
  BY TenantSessionsAssumption DEF Init, TypeOK

LEMMA NextTypeOK == TypeOK /\ [Next]_vars => TypeOK'
<1> SUFFICES ASSUME TypeOK, [Next]_vars PROVE TypeOK'
  OBVIOUS
<1> USE TenantSessionsAssumption DEF TypeOK, account, cookies, request, history
<1>1. ASSUME NEW r \in Requests, Login(r) PROVE TypeOK'
  <2>1. ASSUME NEW b \in Browsers, NEW correct \in BOOLEAN, LoginRead(r, b, correct)
        PROVE  TypeOK'
    BY <2>1 DEF LoginRead, Begin
  <2>2. CASE CountFailure(r)
    BY <2>2 DEF CountFailure, End
  <2>3. ASSUME NEW s \in Sessions, StoreToken(r, s) PROVE TypeOK'
    BY <2>3 DEF StoreToken
  <2>4. CASE StampLogin(r)
    BY <2>4 DEF StampLogin, End
  <2>5. QED
    BY <1>1, <2>1, <2>2, <2>3, <2>4 DEF Login
<1>2. ASSUME NEW r \in Requests, Session(r) PROVE TypeOK'
  <2>1. ASSUME NEW b \in Browsers, RefreshRead(r, b) \/ LogoutSent(r, b) \/ RevokeAllRead(r, b)
        PROVE  TypeOK'
    BY <2>1 DEF RefreshRead, LogoutSent, RevokeAllRead, Begin
  <2>2. CASE RefreshIssue(r)
    BY <2>2 DEF RefreshIssue, End
  <2>3. CASE LogoutRevoke(r) \/ RevokeAll(r)
    BY <2>3 DEF LogoutRevoke, RevokeAll, End
  <2>4. QED
    BY <1>2, <2>1, <2>2, <2>3 DEF Session
<1>3. ASSUME NEW r \in Requests, Abort(r) PROVE TypeOK'
  BY <1>3 DEF Abort, End
<1>4. CASE LockExpires
  BY <1>4 DEF LockExpires
<1>5. ASSUME NEW b \in Browsers, AccessExpires(b) PROVE TypeOK'
  BY <1>5 DEF AccessExpires
<1>6. CASE UNCHANGED vars
  BY <1>6 DEF vars
<1>7. QED
  BY <1>1, <1>2, <1>3, <1>4, <1>5, <1>6 DEF Next

\* Every variable keeps its type, for any requests, browsers and sessions.
THEOREM TypeCorrect == Spec => []TypeOK
<1>1. QED
  BY InitTypeOK, NextTypeOK, PTL DEF Spec

-----------------------------------------------------------------------------
(* Wrong passwords *)

\* Counting is finite and no larger than Requests.
LEMMA CountingIsFinite ==
  /\ IsFiniteSet(Counting) /\ Cardinality(Counting) \in Nat
  /\ Cardinality(Requests) \in Nat /\ Cardinality(Counting) <= Cardinality(Requests)
  BY TenantSessionsAssumption, FS_Subset, FS_CardinalityType DEF Counting

\* A login that compares a wrong password joins Counting.
LEMMA CountingGrows ==
  ASSUME TypeOK, NEW r \in Requests, pc[r] # "count", pc' = [pc EXCEPT ![r] = "count"]
  PROVE  /\ Cardinality(Counting') = Cardinality(Counting) + 1
         /\ Cardinality(Counting') \in Nat /\ Cardinality(Counting') <= Cardinality(Requests)
<1>1. Counting' = Counting \union {r} /\ r \notin Counting /\ Counting' \subseteq Requests
  BY DEF TypeOK, Counting
<1>2. QED
  BY <1>1, CountingIsFinite, TenantSessionsAssumption, FS_AddElement, FS_Subset, FS_CardinalityType

\* A login that has counted its failure leaves it.
LEMMA CountingShrinks ==
  ASSUME TypeOK, NEW r \in Requests, pc[r] = "count", pc' = [pc EXCEPT ![r] = "idle"]
  PROVE  Cardinality(Counting') = Cardinality(Counting) - 1
<1>1. Counting' = Counting \ {r} /\ r \in Counting
  BY DEF TypeOK, Counting
<1>2. QED
  BY <1>1, CountingIsFinite, FS_RemoveElement

\* Nothing else touches it.
LEMMA CountingStays ==
  ASSUME TypeOK, NEW r \in Requests, NEW there, pc[r] # "count", there # "count",
         pc' = [pc EXCEPT ![r] = there]
  PROVE  Counting' = Counting
  BY DEF TypeOK, Counting

GInv == TypeOK /\ GuessesCounted /\ GuessesBounded

LEMMA InitGInv == Init => GInv
<1> SUFFICES ASSUME Init PROVE GInv
  OBVIOUS
<1>1. TypeOK
  BY InitTypeOK
<1>2. guesses = 0 /\ attempts = 0 /\ lost = 0
  BY DEF Init
<1>3. QED
  BY <1>1, <1>2, CountingIsFinite, TenantSessionsAssumption DEF GInv, GuessesCounted, GuessesBounded

LEMMA NextGInv == GInv /\ [Next]_vars => GInv'
<1> SUFFICES ASSUME GInv, [Next]_vars PROVE GInv'
  OBVIOUS
<1>1. TypeOK /\ TypeOK'
  BY NextTypeOK DEF GInv
<1>2. /\ guesses \in Nat /\ attempts \in Nat /\ lost \in Nat /\ MaxAttempts \in Nat
      /\ guesses' \in Nat /\ attempts' \in Nat /\ lost' \in Nat
  BY <1>1, TenantSessionsAssumption DEF TypeOK
<1>3. guesses <= attempts + Cardinality(Counting) + lost
  BY DEF GInv, GuessesCounted
<1>4. guesses < MaxAttempts + Cardinality(Requests) + lost
  BY DEF GInv, GuessesBounded
<1>5. SUFFICES GuessesCounted' /\ GuessesBounded'
  BY <1>1 DEF GInv
<1> USE DEF GuessesCounted, GuessesBounded
\* Steps that leave the count, the guesses and Counting alone.
<1>6. ASSUME Counting' = Counting, UNCHANGED <<attempts, guesses, lost>> PROVE GuessesCounted' /\ GuessesBounded'
  BY <1>3, <1>4, <1>6
<1>7. ASSUME NEW r \in Requests, Login(r) PROVE GuessesCounted' /\ GuessesBounded'
  <2>1. ASSUME NEW b \in Browsers, LoginRead(r, b, FALSE) PROVE GuessesCounted' /\ GuessesBounded'
    <3>1. pc[r] # "count" /\ pc' = [pc EXCEPT ![r] = "count"]
      BY <2>1 DEF LoginRead, Begin
    <3>2. attempts < MaxAttempts
      BY <2>1, <1>2 DEF LoginRead, AccountLocked
    <3>3. guesses' = guesses + 1 /\ attempts' = attempts /\ lost' = lost
      BY <2>1 DEF LoginRead, account
    <3>4. /\ Cardinality(Counting') = Cardinality(Counting) + 1
          /\ Cardinality(Counting') <= Cardinality(Requests)
      BY <1>1, <3>1, CountingGrows
    <3>5. QED
      BY <1>2, <1>3, <3>2, <3>3, <3>4, CountingIsFinite
  <2>2. ASSUME NEW b \in Browsers, LoginRead(r, b, TRUE) PROVE GuessesCounted' /\ GuessesBounded'
    <3>1. pc[r] # "count" /\ pc' = [pc EXCEPT ![r] = "store"]
      BY <2>2 DEF LoginRead, Begin
    <3>2. QED
      BY <2>2, <1>1, <1>6, <3>1, CountingStays DEF LoginRead, account
  <2>3. CASE CountFailure(r)
    <3>1. pc[r] = "count" /\ pc' = [pc EXCEPT ![r] = "idle"]
      BY <2>3 DEF CountFailure, End
    <3>2. attempts' = attempts + 1 /\ guesses' = guesses /\ lost' = lost
      BY <2>3 DEF CountFailure, history
    <3>3. Cardinality(Counting') = Cardinality(Counting) - 1
      BY <1>1, <3>1, CountingShrinks
    <3>4. QED
      BY <1>2, <1>3, <1>4, <3>2, <3>3, CountingIsFinite
  <2>4. ASSUME NEW s \in Sessions, StoreToken(r, s) PROVE GuessesCounted' /\ GuessesBounded'
    <3>1. pc[r] # "count" /\ pc' = [pc EXCEPT ![r] = "stamp"]
      BY <2>4 DEF StoreToken
    <3>2. QED
      BY <2>4, <1>1, <1>6, <3>1, CountingStays DEF StoreToken, account, history
  <2>5. CASE StampLogin(r)
    <3>1. guesses' = 0 /\ attempts' = 0 /\ lost' = lost
      BY <2>5 DEF StampLogin
    <3>2. pc[r] # "count" /\ pc' = [pc EXCEPT ![r] = "idle"]
      BY <2>5 DEF StampLogin, End
    <3>3. Counting' = Counting
      BY <1>1, <3>2, CountingStays
    <3>4. QED
      BY <1>2, <3>1, <3>3, CountingIsFinite, TenantSessionsAssumption
  <2>6. QED
    BY <1>7, <2>1, <2>2, <2>3, <2>4, <2>5 DEF Login
<1>8. ASSUME NEW r \in Requests, Session(r) PROVE GuessesCounted' /\ GuessesBounded'
  <2>1. UNCHANGED <<attempts, guesses, lost>>
    BY <1>8 DEF Session, RefreshRead, LogoutSent, RevokeAllRead, RefreshIssue, LogoutRevoke,
       RevokeAll, account, history
  <2>2. \E there \in {"issue", "logout", "revokeAll", "idle"} :
          pc[r] # "count" /\ pc' = [pc EXCEPT ![r] = there]
    BY <1>8 DEF Session, RefreshRead, LogoutSent, RevokeAllRead, RefreshIssue, LogoutRevoke,
       RevokeAll, Begin, End
  <2>3. Counting' = Counting
    BY <1>1, <2>2, CountingStays
  <2>4. QED
    BY <1>6, <2>1, <2>3
<1>9. ASSUME NEW r \in Requests, Abort(r) PROVE GuessesCounted' /\ GuessesBounded'
  <2>1. pc' = [pc EXCEPT ![r] = "idle"] /\ guesses' = guesses /\ attempts' = attempts
    BY <1>9 DEF Abort, End, account
  <2>2. CASE pc[r] = "count"
    <3>1. lost' = lost + 1
      BY <1>9, <2>2 DEF Abort
    <3>2. Cardinality(Counting') = Cardinality(Counting) - 1
      BY <1>1, <2>1, <2>2, CountingShrinks
    <3>3. QED
      BY <1>2, <1>3, <1>4, <2>1, <3>1, <3>2, CountingIsFinite
  <2>3. CASE pc[r] # "count"
    <3>1. lost' = lost
      BY <1>9, <2>3 DEF Abort
    <3>2. QED
      BY <1>1, <1>6, <2>1, <2>3, <3>1, CountingStays
  <2>4. QED
    BY <2>2, <2>3
<1>10. CASE LockExpires \/ (\E b \in Browsers : AccessExpires(b)) \/ UNCHANGED vars
  <2>1. UNCHANGED <<attempts, guesses, lost, pc>>
    BY <1>10 DEF LockExpires, AccessExpires, vars, account, request, history
  <2>2. QED
    BY <1>6, <2>1 DEF Counting
<1>11. QED
  BY <1>7, <1>8, <1>9, <1>10 DEF Next

\* However many logins overlap and whatever is lost, the wrong passwords tried
\* between two logins stay below MaxAttempts plus one for each request.
THEOREM GuessesBoundedHolds == Spec => []GuessesBounded
<1>1. GInv => GuessesBounded
  BY DEF GInv
<1>2. QED
  BY InitGInv, NextGInv, <1>1, PTL DEF Spec

-----------------------------------------------------------------------------
(* Revoking all sessions *)

HInv == TypeOK /\ HeldIsStored

LEMMA InitHInv == Init => HInv
  BY InitTypeOK DEF HInv, Init, HeldIsStored

LEMMA NextHInv == HInv /\ [Next]_vars => HInv'
<1> SUFFICES ASSUME HInv, [Next]_vars PROVE HInv'
  OBVIOUS
<1>1. TypeOK /\ TypeOK' /\ HeldIsStored
  BY NextTypeOK DEF HInv
<1>2. SUFFICES HeldIsStored'
  BY <1>1 DEF HInv
<1> USE <1>1, TenantSessionsAssumption DEF TypeOK, HeldIsStored, account, cookies, history
<1>3. ASSUME NEW r \in Requests, Login(r) PROVE HeldIsStored'
  <2>1. ASSUME NEW b \in Browsers, NEW correct \in BOOLEAN, LoginRead(r, b, correct)
        PROVE  HeldIsStored'
    BY <2>1 DEF LoginRead, Begin
  <2>2. CASE CountFailure(r)
    BY <2>2 DEF CountFailure, End
  <2>3. ASSUME NEW s \in Sessions, StoreToken(r, s) PROVE HeldIsStored'
    BY <2>3 DEF StoreToken
  <2>4. CASE StampLogin(r)
    BY <2>4 DEF StampLogin, End
  <2>5. QED
    BY <1>3, <2>1, <2>2, <2>3, <2>4 DEF Login
<1>4. ASSUME NEW r \in Requests, Session(r) PROVE HeldIsStored'
  <2>1. ASSUME NEW b \in Browsers, RefreshRead(r, b) \/ LogoutSent(r, b) \/ RevokeAllRead(r, b)
        PROVE  HeldIsStored'
    BY <2>1 DEF RefreshRead, LogoutSent, RevokeAllRead, Begin
  <2>2. CASE RefreshIssue(r)
    BY <2>2 DEF RefreshIssue, End
  <2>3. CASE LogoutRevoke(r) \/ RevokeAll(r)
    BY <2>3 DEF LogoutRevoke, RevokeAll, End
  <2>4. QED
    BY <1>4, <2>1, <2>2, <2>3 DEF Session
<1>5. ASSUME NEW r \in Requests, Abort(r) PROVE HeldIsStored'
  BY <1>5 DEF Abort, End
<1>6. CASE LockExpires \/ (\E b \in Browsers : AccessExpires(b)) \/ UNCHANGED vars
  BY <1>6 DEF LockExpires, AccessExpires, vars, request
<1>7. QED
  BY <1>3, <1>4, <1>5, <1>6 DEF Next

\* After revokeAllSessions no browser holds a refresh token that still works,
\* whatever logins, refreshes and logouts are in flight.
THEOREM RevokeAllEndsEverySessionHolds == Spec => RevokeAllEndsEverySession
<1>1. HInv /\ [Next]_vars =>
        [\A r \in Requests : RevokeAll(r) =>
           \A b \in Browsers : refresh[b] # NoSession => row'[refresh[b]] = "revoked"]_vars
  BY DEF HInv, TypeOK, HeldIsStored, RevokeAll
<1>2. QED
  BY InitHInv, NextHInv, <1>1, PTL DEF Spec, RevokeAllEndsEverySession
=============================================================================
