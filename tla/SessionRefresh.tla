---------------------------- MODULE SessionRefresh ----------------------------
(***************************************************************************)
(* The response interceptor of the API client: what becomes of a request   *)
(* the server refuses.  A refusal for its CSRF token (403) fetches a token *)
(* and sends the request again; a refusal for its session (401) renews the *)
(* session, one renewal for all the requests refused meanwhile, and sends  *)
(* them again.  `_retry` allows each request one of the two, once.         *)
(*                                                                         *)
(* The server is kept as far as its answers depend on it: it checks the    *)
(* CSRF token before the session, and its CSRF secret is drawn when it     *)
(* starts.  Session tokens are numbered in the order they are issued; the  *)
(* browser sends the latest.  CSRF tokens are numbered by their secret,    *)
(* 0 is none.                                                              *)
(*                                                                         *)
(* One client is modelled.  An application that makes several has a queue  *)
(* and a CSRF token in each.                                               *)
(***************************************************************************)
EXTENDS Integers

CONSTANTS
  Requests,     \* calls of the page, each made once
  Mutating,     \* those that need a CSRF token: POST, PUT, PATCH, DELETE
  AuthCalls,    \* those whose URL is in skipRefreshUrls
  Faults,       \* among "error", "revoke"
  MaxExpiries,  \* bound: only the first MaxExpiries session tokens may expire
  MaxRestarts   \* bound: restarts of the server

ASSUME RequestsAssumption == Mutating \subseteq Requests /\ AuthCalls \subseteq Requests
ASSUME BoundsAssumption == MaxExpiries \in Nat /\ MaxRestarts \in Nat

VARIABLES
  step,                \* where each request is
  retry,               \* its _retry flag, and what set it
  header,              \* its X-CSRF-Token
  cookie,              \* the session token it was last sent with
  answer,              \* the server's answer to it
  sends,               \* how often it was sent
  executed,            \* how often the server carried it out
  isRefreshing, refreshSubscribers, csrfToken,
  page,                \* where the page is: "app", "login", or "left" for it
  access, expired,     \* latest session token; latest that expired
  renewable,           \* does the server still accept the refresh token?
  secret               \* the server's CSRF secret

call == <<step, retry, header, cookie, answer, sends, executed>>
client == <<isRefreshing, refreshSubscribers, csrfToken, page>>
server == <<access, expired, renewable, secret>>
vars == <<call, client, server>>

Steps == {"idle", "sent", "fetching", "refreshing", "renewing", "queued",
          "fulfilled", "rejected"}
Retries == {"none", "csrf", "refresh"}
Answers == {"none", "ok", "csrf", "unauthorized", "error"}

TypeOK ==
  /\ step \in [Requests -> Steps]
  /\ retry \in [Requests -> Retries]
  /\ header \in [Requests -> Nat] /\ cookie \in [Requests -> Nat]
  /\ answer \in [Requests -> Answers]
  /\ sends \in [Requests -> Nat] /\ executed \in [Requests -> Nat]
  /\ isRefreshing \in BOOLEAN
  /\ refreshSubscribers \subseteq Requests
  /\ csrfToken \in Nat /\ secret \in Nat /\ access \in Nat /\ expired \in Nat
  /\ page \in {"app", "login", "left"}
  /\ renewable \in BOOLEAN

Init ==
  /\ step = [r \in Requests |-> "idle"]
  /\ retry = [r \in Requests |-> "none"]
  /\ header = [r \in Requests |-> 0] /\ cookie = [r \in Requests |-> 0]
  /\ answer = [r \in Requests |-> "none"]
  /\ sends = [r \in Requests |-> 0] /\ executed = [r \in Requests |-> 0]
  /\ isRefreshing = FALSE /\ refreshSubscribers = {} /\ csrfToken = 0
  /\ page \in {"app", "login"}
  /\ access = 1 /\ expired = 0 /\ renewable = TRUE /\ secret = 1

\* The requests of S are sent, with the session token the browser has by then,
\* and, if they change something, the stored CSRF token; without a stored one a
\* header of an earlier attempt stays.
Dispatch(S, token, session) ==
  /\ header' = [r \in Requests |->
       IF r \in S \cap Mutating /\ token # 0 THEN token ELSE header[r]]
  /\ cookie' = [r \in Requests |-> IF r \in S THEN session ELSE cookie[r]]
  /\ answer' = [r \in Requests |-> IF r \in S THEN "none" ELSE answer[r]]
  /\ sends' = [r \in Requests |-> IF r \in S THEN sends[r] + 1 ELSE sends[r]]

Move(S, to) == step' = [r \in Requests |-> IF r \in S THEN to ELSE step[r]]

Issue(r) ==
  /\ step[r] = "idle" /\ page # "left"
  /\ Move({r}, "sent")
  /\ Dispatch({r}, csrfToken, access)
  /\ UNCHANGED <<retry, executed, client, server>>

-----------------------------------------------------------------------------
(* The server. *)

Pending(r) == step[r] = "sent" /\ answer[r] = "none"
TokenRefused(r) == r \in Mutating /\ header[r] # secret
SessionRefused(r) == cookie[r] <= expired

Serve(r) ==
  /\ Pending(r)
  /\ \/ /\ TokenRefused(r)
        /\ answer' = [answer EXCEPT ![r] = "csrf"]
        /\ UNCHANGED executed
     \/ /\ ~TokenRefused(r) /\ SessionRefused(r)
        /\ answer' = [answer EXCEPT ![r] = "unauthorized"]
        /\ UNCHANGED executed
     \/ /\ ~TokenRefused(r) /\ ~SessionRefused(r)
        /\ answer' = [answer EXCEPT ![r] = "ok"]
        /\ executed' = [executed EXCEPT ![r] = @ + 1]
  /\ UNCHANGED <<step, retry, header, cookie, sends, client, server>>

\* Any other answer, or none in time, whether the server carried it out or not.
Lose(r) ==
  /\ "error" \in Faults
  /\ step[r] = "sent" /\ answer[r] \in {"none", "ok"}
  /\ answer' = [answer EXCEPT ![r] = "error"]
  /\ UNCHANGED <<step, retry, header, cookie, sends, executed, client, server>>

Expire ==
  /\ expired < access /\ access <= MaxExpiries
  /\ expired' = access
  /\ UNCHANGED <<call, client, access, renewable, secret>>

Revoke ==
  /\ "revoke" \in Faults /\ renewable
  /\ renewable' = FALSE
  /\ UNCHANGED <<call, client, access, expired, secret>>

Restart ==
  /\ secret <= MaxRestarts
  /\ secret' = secret + 1
  /\ UNCHANGED <<call, client, access, expired, renewable>>

-----------------------------------------------------------------------------
(* The interceptor.  The code runs on until the next await. *)

Received(r, a) == step[r] = "sent" /\ answer[r] = a

Fulfil(r) ==
  /\ Received(r, "ok")
  /\ Move({r}, "fulfilled")
  /\ UNCHANGED <<retry, header, cookie, answer, sends, executed, client, server>>

\* Plausible bug: a request whose answer was lost is treated like one refused.
BugRetriesLost(r) ==
  /\ Received(r, "unauthorized") \/ Received(r, "error")
  /\ retry[r] = "none" /\ r \notin AuthCalls

MayRefresh(r) == Received(r, "unauthorized") /\ retry[r] = "none" /\ r \notin AuthCalls
MayFetch(r) == Received(r, "csrf") /\ retry[r] = "none"

Reject(r) ==
  /\ step[r] = "sent" /\ answer[r] \in {"csrf", "unauthorized", "error"}
  /\ ~MayRefresh(r) /\ ~MayFetch(r)
  /\ Move({r}, "rejected")
  /\ UNCHANGED <<retry, header, cookie, answer, sends, executed, client, server>>

\* Plausible bug: the request is not marked as tried again.
BugForgetsRetry(r) ==
  /\ MayFetch(r)
  /\ Move({r}, "fetching")
  /\ UNCHANGED <<retry, header, cookie, answer, sends, executed, client, server>>

FetchCsrf(r) ==
  /\ MayFetch(r)
  /\ Move({r}, "fetching")
  /\ retry' = [retry EXCEPT ![r] = "csrf"]
  /\ UNCHANGED <<header, cookie, answer, sends, executed, client, server>>

CsrfFetched(r) ==
  /\ step[r] = "fetching"
  /\ csrfToken' = secret
  /\ Move({r}, "sent")
  /\ Dispatch({r}, secret, access)
  /\ UNCHANGED <<retry, executed, isRefreshing, refreshSubscribers, page, server>>

CsrfFetchFails(r) ==
  /\ "error" \in Faults
  /\ step[r] = "fetching"
  /\ Move({r}, "rejected")
  /\ answer' = [answer EXCEPT ![r] = "error"]
  /\ UNCHANGED <<retry, header, cookie, sends, executed, client, server>>

\* Plausible bug: a renewal that is under way is not looked for.
BugAlwaysRefreshes(r) ==
  /\ MayRefresh(r)
  /\ isRefreshing' = TRUE
  /\ Move({r}, "refreshing")
  /\ retry' = [retry EXCEPT ![r] = "refresh"]
  /\ UNCHANGED <<header, cookie, answer, sends, executed, refreshSubscribers,
                 csrfToken, page, server>>

StartRefresh(r) ==
  /\ MayRefresh(r) /\ ~isRefreshing
  /\ isRefreshing' = TRUE
  /\ Move({r}, "refreshing")
  /\ retry' = [retry EXCEPT ![r] = "refresh"]
  /\ UNCHANGED <<header, cookie, answer, sends, executed, refreshSubscribers,
                 csrfToken, page, server>>

Enqueue(r) ==
  /\ MayRefresh(r) /\ isRefreshing
  /\ refreshSubscribers' = refreshSubscribers \cup {r}
  /\ Move({r}, "queued")
  /\ retry' = [retry EXCEPT ![r] = "refresh"]
  /\ UNCHANGED <<header, cookie, answer, sends, executed, isRefreshing,
                 csrfToken, page, server>>

\* Plausible bug: the queue is notified before the new session token is set.
BugNotifiesEarly(r) ==
  /\ step[r] = "refreshing" /\ renewable
  /\ access' = access + 1
  /\ isRefreshing' = FALSE
  /\ refreshSubscribers' = {}
  /\ step' = [s \in Requests |-> CASE s = r -> "renewing"
                                   [] s \in refreshSubscribers -> "sent"
                                   [] OTHER -> step[s]]
  /\ Dispatch(refreshSubscribers, csrfToken, access)
  /\ UNCHANGED <<retry, executed, csrfToken, page, expired, renewable, secret>>

\* The queued requests are sent in the same step, before the CSRF token is
\* fetched that the refreshing request waits for.
Refreshed(r) ==
  /\ step[r] = "refreshing" /\ renewable
  /\ access' = access + 1
  /\ isRefreshing' = FALSE
  /\ refreshSubscribers' = {}
  /\ step' = [s \in Requests |-> CASE s = r -> "renewing"
                                   [] s \in refreshSubscribers -> "sent"
                                   [] OTHER -> step[s]]
  /\ Dispatch(refreshSubscribers, csrfToken, access')
  /\ UNCHANGED <<retry, executed, csrfToken, page, expired, renewable, secret>>

\* Plausible bug: the queue outlives the renewal it waits for.
BugKeepsQueue(r) ==
  /\ step[r] = "refreshing"
  /\ ~renewable \/ "error" \in Faults
  /\ isRefreshing' = FALSE
  /\ refreshSubscribers' = refreshSubscribers
  /\ csrfToken' = 0
  /\ page' = IF page = "app" THEN "left" ELSE page
  /\ Move({r}, "rejected")
  /\ answer' = [answer EXCEPT ![r] = "error"]
  /\ UNCHANGED <<retry, header, cookie, sends, executed, server>>

\* Plausible bug: the flag is reset on success only.
BugStillRefreshing(r) ==
  /\ step[r] = "refreshing"
  /\ ~renewable \/ "error" \in Faults
  /\ isRefreshing' = TRUE
  /\ refreshSubscribers' = {}
  /\ csrfToken' = 0
  /\ page' = IF page = "app" THEN "left" ELSE page
  /\ Move({r}, "rejected")
  /\ answer' = [answer EXCEPT ![r] = "error"]
  /\ UNCHANGED <<retry, header, cookie, sends, executed, server>>

\* Queued requests are forgotten, not rejected.
RefreshFails(r) ==
  /\ step[r] = "refreshing"
  /\ ~renewable \/ "error" \in Faults
  /\ isRefreshing' = FALSE
  /\ refreshSubscribers' = {}
  /\ csrfToken' = 0
  /\ page' = IF page = "app" THEN "left" ELSE page
  /\ Move({r}, "rejected")
  /\ answer' = [answer EXCEPT ![r] = "error"]
  /\ UNCHANGED <<retry, header, cookie, sends, executed, server>>

\* Plausible bug: what came back is stored without asking whether it is a token.
BugStoresAnything(r) ==
  /\ step[r] = "renewing"
  /\ \/ csrfToken' = secret
     \/ "error" \in Faults /\ csrfToken' = -1
  /\ Move({r}, "sent")
  /\ Dispatch({r}, csrfToken', access)
  /\ UNCHANGED <<retry, executed, isRefreshing, refreshSubscribers, page, server>>

\* The token is fetched for what comes next; without it the request goes too.
Renewed(r) ==
  /\ step[r] = "renewing"
  /\ \/ csrfToken' = secret
     \/ "error" \in Faults /\ UNCHANGED csrfToken
  /\ Move({r}, "sent")
  /\ Dispatch({r}, csrfToken', access)
  /\ UNCHANGED <<retry, executed, isRefreshing, refreshSubscribers, page, server>>

\* The page may fetch a token ahead of its requests, as a login does.
FetchCsrfToken ==
  /\ page # "left"
  /\ csrfToken' = secret
  /\ UNCHANGED <<call, isRefreshing, refreshSubscribers, page, server>>

-----------------------------------------------------------------------------
Intercept(r) ==
  \/ Fulfil(r) \/ Reject(r)
  \/ FetchCsrf(r) \/ CsrfFetched(r) \/ CsrfFetchFails(r)
  \/ StartRefresh(r) \/ Enqueue(r) \/ Refreshed(r) \/ RefreshFails(r) \/ Renewed(r)

Next ==
  \/ \E r \in Requests : Issue(r) \/ Serve(r) \/ Lose(r) \/ Intercept(r)
  \/ FetchCsrfToken \/ Expire \/ Revoke \/ Restart

Spec == Init /\ [][Next]_vars

\* A call ends within its timeout (30 s unless configured), and the handlers of
\* its promise run; nothing makes the page issue a request.
Fairness == \A r \in Requests : WF_vars(Serve(r) \/ Intercept(r))
FairSpec == Spec /\ Fairness

-----------------------------------------------------------------------------
(* Properties. *)

\* However many requests are refused at once, one renewal is under way, and a
\* request is in the queue only while one is (client.ts, isRefreshing and
\* refreshSubscribers).
OneRefreshAtATime ==
  \A r, s \in Requests : step[r] = "refreshing" /\ step[s] = "refreshing" => r = s

QueueIsServed ==
  refreshSubscribers # {} => \E r \in Requests : step[r] = "refreshing"

\* A request that changes something is carried out at most once: it is sent again
\* only after a refusal, never after an answer that was lost.
ExecutedOnce == \A r \in Requests : executed[r] <= 1

\* Two refusals in a row end a request: _retry covers both recoveries.
SentTwiceAtMost == \A r \in Requests : sends[r] <= 2

\* A request is refused for its session only if it had used its one retry on a CSRF
\* token: whoever renews the session, those who wait go out with the new one.
\* (Where a session token may expire twice, a retry may also come too late.)
OnlyCsrfCostsTheRenewal ==
  \A r \in Requests \ AuthCalls :
    step[r] = "rejected" /\ answer[r] = "unauthorized" => retry[r] = "csrf"

\* Every request is answered, or the page is left for the login page.  On the
\* login page itself nothing is left, and those queued behind a renewal that
\* failed are never answered.
Settled(r) == step[r] \in {"fulfilled", "rejected"}
Forgotten(r) == page = "login" /\ step[r] = "queued" /\ r \notin refreshSubscribers

EveryRequestSettles ==
  \A r \in Requests :
    step[r] = "sent" ~> Settled(r) \/ page = "left" \/ Forgotten(r)
=============================================================================
