--------------------------- MODULE TenantSessions ---------------------------
(***************************************************************************)
(* The sessions of one tenant user account: login with its lockout after   *)
(* failed attempts, refresh, logout and revocation of all sessions         *)
(* (tenantAuthController; the platform users' controller has the same      *)
(* steps on tables of its own).                                            *)
(*                                                                         *)
(* Every statement commits on its own. A login reads the account once,     *)
(* compares the password and then writes what follows from that read; a    *)
(* refresh reads the token's row and then the user. The cookies of a       *)
(* browser change when the answer arrives, which is the step after the     *)
(* last statement; a request carries the cookies of when it was sent.      *)
(* Access tokens are not stored: they are good until they expire.          *)
(***************************************************************************)
EXTENDS Integers, FiniteSets

CONSTANTS
  Requests,      \* requests that may be in flight at once
  Browsers,      \* cookie jars of people who use the account
  Sessions,      \* bound: rows ever inserted into hris.tenant_refresh_tokens
  MaxAttempts,   \* failed attempts that lock the account (5 in the code)
  MaxLost,       \* bound: failed attempts whose UPDATE is lost
  NoSession

ASSUME TenantSessionsAssumption ==
  /\ IsFiniteSet(Requests)
  /\ MaxAttempts \in Nat \ {0}
  /\ MaxLost \in Nat
  /\ NoSession \notin Sessions

VARIABLES
  attempts,          \* failed_login_attempts of the account
  lock,              \* locked_until: "none", "running" (in the future) or "over"
  row,               \* refresh token rows: "absent", "live", "revoked"
  pc,                \* the await each request stands at
  browser, session,  \* where it came from, and the refresh token it is about
  refresh, access,   \* cookies of each browser: the session its refresh token
                     \* is of, and the one its unexpired access token is of
  guesses,           \* history: wrong passwords compared since the last login
  lost               \* history: those whose UPDATE was lost

account == <<attempts, lock>>
cookies == <<refresh, access>>
request == <<pc, browser, session>>
history == <<guesses, lost>>
vars    == <<attempts, lock, row, pc, browser, session, refresh, access, guesses, lost>>

TypeOK ==
  /\ attempts \in Nat
  /\ lock \in {"none", "running", "over"}
  /\ row \in [Sessions -> {"absent", "live", "revoked"}]
  /\ pc \in [Requests -> {"idle", "count", "store", "stamp", "issue", "logout", "revokeAll"}]
  /\ browser \in [Requests -> Browsers]
  /\ session \in [Requests -> Sessions \union {NoSession}]
  /\ refresh \in [Browsers -> Sessions \union {NoSession}]
  /\ access \in [Browsers -> Sessions \union {NoSession}]
  /\ guesses \in Nat
  /\ lost \in 0..MaxLost

Init ==
  /\ attempts = 0 /\ lock = "none"
  /\ row = [s \in Sessions |-> "absent"]
  /\ pc = [r \in Requests |-> "idle"]
  /\ browser \in [Requests -> Browsers]
  /\ session = [r \in Requests |-> NoSession]
  /\ refresh = [b \in Browsers |-> NoSession]
  /\ access = [b \in Browsers |-> NoSession]
  /\ guesses = 0 /\ lost = 0

-----------------------------------------------------------------------------
(* Helpers *)

\* isAccountLocked. (account_status 'locked' is written by nothing.)
AccountLocked == lock = "running" \/ attempts >= MaxAttempts

\* A request arrives from a browser, about one session or none.
Begin(r, b, s, there) ==
  /\ pc[r] = "idle"
  /\ pc' = [pc EXCEPT ![r] = there]
  /\ browser' = [browser EXCEPT ![r] = b]
  /\ session' = [session EXCEPT ![r] = s]

End(r) ==
  /\ pc' = [pc EXCEPT ![r] = "idle"]
  /\ session' = [session EXCEPT ![r] = NoSession]
  /\ UNCHANGED browser

-----------------------------------------------------------------------------
(* login *)

\* The account is read, and found neither locked nor inactive; the password is
\* compared with the hash that was read.
LoginRead(r, b, correct) ==
  /\ ~AccountLocked
  /\ Begin(r, b, NoSession, IF correct THEN "store" ELSE "count")
  /\ guesses' = IF correct THEN guesses ELSE guesses + 1
  /\ UNCHANGED <<account, row, cookies, lost>>

\* Plausible bug: the column as a countdown of the attempts left.
BugAttemptsLeft(r) ==
  /\ pc[r] = "count"
  /\ attempts' = attempts - 1
  /\ lock' = IF attempts + 1 >= MaxAttempts THEN "running" ELSE lock
  /\ End(r)
  /\ UNCHANGED <<row, cookies, history>>

\* incrementFailedLogins: one UPDATE that adds to what the row says by now.
CountFailure(r) ==
  /\ pc[r] = "count"
  /\ attempts' = attempts + 1
  /\ lock' = IF attempts + 1 >= MaxAttempts THEN "running" ELSE lock
  /\ End(r)
  /\ UNCHANGED <<row, cookies, history>>

\* Plausible bug: the INSERT is not awaited, and fails.
BugStoreLost(r, s) ==
  /\ pc[r] = "store"
  /\ row[s] = "absent"
  /\ session' = [session EXCEPT ![r] = s]
  /\ pc' = [pc EXCEPT ![r] = "stamp"]
  /\ UNCHANGED <<account, row, browser, cookies, history>>

\* The refresh token is stored under a fresh id.
StoreToken(r, s) ==
  /\ pc[r] = "store"
  /\ row[s] = "absent"
  /\ row' = [row EXCEPT ![s] = "live"]
  /\ session' = [session EXCEPT ![r] = s]
  /\ pc' = [pc EXCEPT ![r] = "stamp"]
  /\ UNCHANGED <<account, browser, cookies, history>>

\* updateLastLogin resets the count and the lock, whatever they are by now, and
\* the answer sets both cookies.
StampLogin(r) ==
  /\ pc[r] = "stamp"
  /\ attempts' = 0 /\ lock' = "none" /\ guesses' = 0
  /\ refresh' = [refresh EXCEPT ![browser[r]] = session[r]]
  /\ access' = [access EXCEPT ![browser[r]] = session[r]]
  /\ End(r)
  /\ UNCHANGED <<row, lost>>

-----------------------------------------------------------------------------
(* refresh, logout, revokeAllSessions *)

\* Plausible bug: a row is enough, revoked or not.
BugRefreshRevoked(r, b) ==
  /\ refresh[b] # NoSession
  /\ row[refresh[b]] # "absent"
  /\ Begin(r, b, refresh[b], "issue")
  /\ UNCHANGED <<account, row, cookies, history>>

\* The token's row is read, and not revoked. (The user is read next, for
\* is_active only: a locked account is refreshed as well.)
RefreshRead(r, b) ==
  /\ refresh[b] # NoSession
  /\ row[refresh[b]] = "live"
  /\ Begin(r, b, refresh[b], "issue")
  /\ UNCHANGED <<account, row, cookies, history>>

\* Plausible bug: a refresh is stamped as a login, by updateLastLogin.
BugRefreshStamps(r) ==
  /\ pc[r] = "issue"
  /\ attempts' = 0 /\ lock' = "none"
  /\ access' = [access EXCEPT ![browser[r]] = session[r]]
  /\ End(r)
  /\ UNCHANGED <<row, refresh, history>>

RefreshIssue(r) ==
  /\ pc[r] = "issue"
  /\ access' = [access EXCEPT ![browser[r]] = session[r]]
  /\ End(r)
  /\ UNCHANGED <<account, row, refresh, history>>

\* logout needs no access token; without a refresh token it only clears cookies.
LogoutSent(r, b) ==
  /\ Begin(r, b, refresh[b], "logout")
  /\ UNCHANGED <<account, row, cookies, history>>

LogoutRevoke(r) ==
  /\ pc[r] = "logout"
  /\ row' = [s \in Sessions |-> IF s = session[r] THEN "revoked" ELSE row[s]]
  /\ refresh' = [refresh EXCEPT ![browser[r]] = NoSession]
  /\ access' = [access EXCEPT ![browser[r]] = NoSession]
  /\ End(r)
  /\ UNCHANGED <<account, history>>

\* authenticateTenant lets the request through, then one UPDATE revokes all.
RevokeAllRead(r, b) ==
  /\ access[b] # NoSession
  /\ ~AccountLocked
  /\ Begin(r, b, NoSession, "revokeAll")
  /\ UNCHANGED <<account, row, cookies, history>>

RevokeAll(r) ==
  /\ pc[r] = "revokeAll"
  /\ row' = [s \in Sessions |-> IF row[s] = "live" THEN "revoked" ELSE row[s]]
  /\ End(r)
  /\ UNCHANGED <<account, cookies, history>>

-----------------------------------------------------------------------------
(* Faults and time *)

\* A statement is rejected, the process dies, or the answer is lost.
Abort(r) ==
  /\ pc[r] # "idle"
  /\ pc[r] = "count" => lost < MaxLost
  /\ lost' = IF pc[r] = "count" THEN lost + 1 ELSE lost
  /\ End(r)
  /\ UNCHANGED <<account, row, cookies, guesses>>

\* locked_until, half an hour after the last failure, has come.
LockExpires ==
  /\ lock = "running"
  /\ lock' = "over"
  /\ UNCHANGED <<attempts, row, request, cookies, history>>

\* An access token is good for 15 minutes, and so is its cookie.
AccessExpires(b) ==
  /\ access[b] # NoSession
  /\ access' = [access EXCEPT ![b] = NoSession]
  /\ UNCHANGED <<account, row, request, refresh, history>>

-----------------------------------------------------------------------------
Login(r) ==
  \/ \E b \in Browsers, correct \in BOOLEAN : LoginRead(r, b, correct)
  \/ CountFailure(r)
  \/ \E s \in Sessions : StoreToken(r, s)
  \/ StampLogin(r)

Session(r) ==
  \/ \E b \in Browsers : RefreshRead(r, b) \/ LogoutSent(r, b) \/ RevokeAllRead(r, b)
  \/ RefreshIssue(r) \/ LogoutRevoke(r) \/ RevokeAll(r)

Next ==
  \/ \E r \in Requests : Login(r) \/ Session(r) \/ Abort(r)
  \/ LockExpires
  \/ \E b \in Browsers : AccessExpires(b)

\* Time passes. Nothing is assumed of requests: they may hang for ever.
Spec ==
  /\ Init /\ [][Next]_vars
  /\ WF_vars(LockExpires)
  /\ \A b \in Browsers : WF_vars(AccessExpires(b))

-----------------------------------------------------------------------------
(* Properties *)

\* However logins overlap, one account can be tried with wrong passwords at
\* most MaxAttempts times between two logins, and once more for each login that
\* had read the account before it was locked and for each failure the database
\* did not take: whatever else the user's sessions do meanwhile, the failures
\* stay counted. (It rests on the lock never ending by itself, which is the
\* opposite of LockedAccountIsUnlocked; and a login that succeeds starts the
\* count anew, the guesses of overlapping logins included.)
GuessesBounded == guesses < MaxAttempts + Cardinality(Requests) + lost

\* After revokeAllSessions ("force logout all sessions") no browser holds a
\* refresh token that still works.
RevokeAllEndsEverySession ==
  [][\A r \in Requests : RevokeAll(r) =>
       \A b \in Browsers : refresh[b] # NoSession => row'[refresh[b]] = "revoked"]_vars

\* A session that was revoked, by logout or with all others, comes to an end:
\* from some moment on no browser holds an access token of it, although access
\* tokens are not looked up and refreshes may have been in flight.
RevokedSessionDies ==
  \A s \in Sessions : row[s] = "revoked" ~> [](\A b \in Browsers : access[b] # s)

\* A locked account is unlocked after a while ("Account is locked due to too
\* many failed login attempts. Please try again later.").
LockedAccountIsUnlocked == AccountLocked ~> ~AccountLocked
=============================================================================
