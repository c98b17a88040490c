------------------------- MODULE SessionRefresh_proofs -------------------------
(***************************************************************************)
(* Proofs about SessionRefresh, for any number of requests and whatever    *)
(* fails, expires or restarts.                                             *)
(***************************************************************************)
EXTENDS SessionRefresh, TLAPS

-----------------------------------------------------------------------------
(* Types. *)

LEMMA DispatchType ==
  ASSUME TypeOK, NEW S \in SUBSET Requests, NEW token \in Nat, NEW session \in Nat,
         Dispatch(S, token, session)
  PROVE  /\ header' \in [Requests -> Nat] /\ cookie' \in [Requests -> Nat]
         /\ answer' \in [Requests -> Answers] /\ sends' \in [Requests -> Nat]
BY DEF TypeOK, Dispatch, Answers

LEMMA MoveType ==
  ASSUME TypeOK, NEW S \in SUBSET Requests, NEW to \in Steps, Move(S, to)
  PROVE  step' \in [Requests -> Steps]
BY DEF TypeOK, Move, Steps

LEMMA TypeInductive == TypeOK /\ [Next]_vars => TypeOK'
<1> SUFFICES ASSUME TypeOK, [Next]_vars PROVE TypeOK'
  OBVIOUS
<1>1. ASSUME NEW r \in Requests, Issue(r) PROVE TypeOK'
  BY <1>1, DispatchType, MoveType DEF Issue, TypeOK, client, server, Steps
<1>2. ASSUME NEW r \in Requests, Serve(r) PROVE TypeOK'
  BY <1>2 DEF Serve, TypeOK, client, server, Answers
<1>3. ASSUME NEW r \in Requests, Lose(r) PROVE TypeOK'
  BY <1>3 DEF Lose, TypeOK, client, server, Answers
<1>4. ASSUME NEW r \in Requests, Fulfil(r) \/ Reject(r) PROVE TypeOK'
  BY <1>4, MoveType DEF Fulfil, Reject, TypeOK, client, server, Steps
<1>5. ASSUME NEW r \in Requests, FetchCsrf(r) PROVE TypeOK'
  BY <1>5, MoveType DEF FetchCsrf, TypeOK, client, server, Steps, Retries
<1>6. ASSUME NEW r \in Requests, CsrfFetched(r) PROVE TypeOK'
  <2>1. secret \in Nat /\ access \in Nat
    BY DEF TypeOK
  <2> QED
    BY <1>6, <2>1, DispatchType, MoveType DEF CsrfFetched, TypeOK, server, Steps
<1>7. ASSUME NEW r \in Requests, CsrfFetchFails(r) PROVE TypeOK'
  BY <1>7, MoveType DEF CsrfFetchFails, TypeOK, client, server, Steps, Answers
<1>8. ASSUME NEW r \in Requests, StartRefresh(r) PROVE TypeOK'
  BY <1>8, MoveType DEF StartRefresh, TypeOK, server, Steps, Retries
<1>9. ASSUME NEW r \in Requests, Enqueue(r) PROVE TypeOK'
  BY <1>9, MoveType DEF Enqueue, TypeOK, server, Steps, Retries
<1>10. ASSUME NEW r \in Requests, Refreshed(r) PROVE TypeOK'
  <2>1. access' \in Nat /\ csrfToken \in Nat /\ refreshSubscribers \in SUBSET Requests
    BY <1>10 DEF Refreshed, TypeOK
  <2>2. step' \in [Requests -> Steps]
    BY <1>10 DEF Refreshed, TypeOK, Steps
  <2> QED
    BY <1>10, <2>1, <2>2, DispatchType DEF Refreshed, TypeOK
<1>11. ASSUME NEW r \in Requests, RefreshFails(r) PROVE TypeOK'
  BY <1>11, MoveType DEF RefreshFails, TypeOK, server, Steps, Answers
<1>12. ASSUME NEW r \in Requests, Renewed(r) PROVE TypeOK'
  <2>1. csrfToken' \in Nat /\ access \in Nat
    BY <1>12 DEF Renewed, TypeOK
  <2> QED
    BY <1>12, <2>1, DispatchType, MoveType DEF Renewed, TypeOK, server, Steps
<1>13. ASSUME FetchCsrfToken PROVE TypeOK'
  BY <1>13 DEF FetchCsrfToken, TypeOK, call, server
<1>14. ASSUME Expire PROVE TypeOK'
  BY <1>14 DEF Expire, TypeOK, call, client
<1>15. ASSUME Revoke PROVE TypeOK'
  BY <1>15 DEF Revoke, TypeOK, call, client
<1>16. ASSUME Restart PROVE TypeOK'
  BY <1>16 DEF Restart, TypeOK, call, client
<1>17. ASSUME UNCHANGED vars PROVE TypeOK'
  BY <1>17 DEF vars, call, client, server, TypeOK
<1> QED
  BY <1>1, <1>2, <1>3, <1>4, <1>5, <1>6, <1>7, <1>8, <1>9, <1>10, <1>11, <1>12,
     <1>13, <1>14, <1>15, <1>16, <1>17 DEF Next, Intercept

\* Every variable keeps its type, whatever the bounds.
THEOREM TypeCorrect == Spec => []TypeOK
<1>1. ASSUME Init PROVE TypeOK
  <2>1. isRefreshing \in BOOLEAN /\ renewable \in BOOLEAN
    BY <1>1, Zenon DEF Init
  <2> QED
    BY <1>1, <2>1 DEF Init, TypeOK, Steps, Retries, Answers
<1> QED
  BY <1>1, TypeInductive, PTL DEF Spec

-----------------------------------------------------------------------------
(* One renewal at a time, and nobody in the queue without one. *)

Renewing == \E r \in Requests : step[r] = "refreshing"

RefreshInv ==
  /\ OneRefreshAtATime
  /\ isRefreshing <=> Renewing
  /\ refreshSubscribers # {} => isRefreshing
  /\ \A r \in refreshSubscribers : step[r] = "queued"

\* A request that neither starts nor ends the renewal nor joins or leaves the
\* queue disturbs nothing.
LEMMA Bystander ==
  ASSUME TypeOK, RefreshInv, NEW r \in Requests, NEW to \in Steps \ {"refreshing"},
         step[r] \notin {"refreshing", "queued"}, Move({r}, to),
         UNCHANGED <<isRefreshing, refreshSubscribers>>
  PROVE  RefreshInv'
<1>1. \A s \in Requests : step'[s] = IF s = r THEN to ELSE step[s]
  BY DEF Move
<1>2. \A s \in Requests : (step'[s] = "refreshing") <=> (step[s] = "refreshing")
  BY <1>1
<1>3. OneRefreshAtATime' /\ (Renewing' <=> Renewing)
  BY <1>2 DEF RefreshInv, OneRefreshAtATime, Renewing
<1>4. \A s \in refreshSubscribers : s # r /\ s \in Requests
  BY DEF RefreshInv, TypeOK
<1>5. \A s \in refreshSubscribers' : step'[s] = "queued"
  BY <1>1, <1>4 DEF RefreshInv
<1> QED
  BY <1>3, <1>5 DEF RefreshInv

LEMMA RefreshInductive == TypeOK /\ RefreshInv /\ [Next]_vars => RefreshInv'
<1> SUFFICES ASSUME TypeOK, RefreshInv, [Next]_vars PROVE RefreshInv'
  OBVIOUS
<1>1. ASSUME NEW r \in Requests,
             \/ Issue(r) \/ Fulfil(r) \/ Reject(r) \/ FetchCsrf(r)
             \/ CsrfFetched(r) \/ CsrfFetchFails(r) \/ Renewed(r)
      PROVE  RefreshInv'
  BY <1>1, Bystander DEF Issue, Fulfil, Reject, FetchCsrf, CsrfFetched, CsrfFetchFails, Renewed,
     Received, MayFetch, client, Steps
<1>2. ASSUME NEW r \in Requests, StartRefresh(r) PROVE RefreshInv'
  <2>1. \A s \in Requests : step'[s] = "refreshing" <=> s = r
    BY <1>2 DEF StartRefresh, Move, RefreshInv, Renewing
  <2>2. refreshSubscribers' = {} /\ isRefreshing'
    BY <1>2 DEF StartRefresh, RefreshInv
  <2> QED
    BY <2>1, <2>2 DEF RefreshInv, OneRefreshAtATime, Renewing
<1>3. ASSUME NEW r \in Requests, Enqueue(r) PROVE RefreshInv'
  <2>1. step[r] = "sent" /\ isRefreshing
    BY <1>3 DEF Enqueue, MayRefresh, Received
  <2>2. \A s \in Requests : step'[s] = IF s = r THEN "queued" ELSE step[s]
    BY <1>3 DEF Enqueue, Move
  <2>3. OneRefreshAtATime' /\ (Renewing' <=> Renewing)
    BY <2>1, <2>2 DEF RefreshInv, OneRefreshAtATime, Renewing
  <2>4. \A s \in refreshSubscribers' : step'[s] = "queued"
    BY <1>3, <2>2 DEF Enqueue, RefreshInv, TypeOK
  <2> QED
    BY <1>3, <2>1, <2>3, <2>4 DEF Enqueue, RefreshInv
<1>4. ASSUME NEW r \in Requests, Refreshed(r) \/ RefreshFails(r) PROVE RefreshInv'
  <2>1. step[r] = "refreshing" /\ ~isRefreshing' /\ refreshSubscribers' = {}
    BY <1>4 DEF Refreshed, RefreshFails
  <2>2. \A s \in Requests : s # r => step[s] # "refreshing"
    BY <2>1 DEF RefreshInv, OneRefreshAtATime
  <2>3. \A s \in Requests : step'[s] # "refreshing"
    BY <1>4, <2>2 DEF Refreshed, RefreshFails, Move
  <2> QED
    BY <2>1, <2>3 DEF RefreshInv, OneRefreshAtATime, Renewing
<1>5. ASSUME \/ \E r \in Requests : Serve(r) \/ Lose(r)
             \/ FetchCsrfToken \/ Expire \/ Revoke \/ Restart \/ UNCHANGED vars
      PROVE  RefreshInv'
  <2>1. UNCHANGED <<step, isRefreshing, refreshSubscribers>>
    BY <1>5 DEF Serve, Lose, FetchCsrfToken, Expire, Revoke, Restart, vars, call, client
  <2> QED
    BY <2>1 DEF RefreshInv, OneRefreshAtATime, Renewing
<1> QED
  BY <1>1, <1>2, <1>3, <1>4, <1>5 DEF Next, Intercept

LEMMA SpecRefreshInv == Spec => []RefreshInv
<1>1. Init => RefreshInv
  BY DEF Init, RefreshInv, OneRefreshAtATime, Renewing
<1> QED
  BY <1>1, RefreshInductive, TypeCorrect, PTL DEF Spec

\* One renewal at a time, for any number of requests refused at once.
THEOREM OneRefreshHolds == Spec => []OneRefreshAtATime
<1>1. RefreshInv => OneRefreshAtATime
  BY DEF RefreshInv
<1> QED
  BY <1>1, SpecRefreshInv, PTL

\* A request in the queue has a renewal that will send it again or drop it.
THEOREM QueueIsServedHolds == Spec => []QueueIsServed
<1>1. RefreshInv => QueueIsServed
  BY DEF RefreshInv, Renewing, QueueIsServed
<1> QED
  BY <1>1, SpecRefreshInv, PTL

-----------------------------------------------------------------------------
(* Attempts: how often a request is sent and carried out. *)

\* A request in one of these places was not carried out, ...
Untouched(r) ==
  \/ step[r] \in {"idle", "fetching", "refreshing", "renewing", "queued"}
  \/ step[r] = "sent" /\ answer[r] \in {"none", "csrf", "unauthorized"}

\* ... and in one of these was sent once at most.
Recovering(r) == step[r] \in {"fetching", "refreshing", "renewing", "queued"}

Untried(r) ==
  \/ Recovering(r)
  \/ step[r] = "sent" /\ retry[r] = "none"

AttemptInv(r) ==
  /\ executed[r] <= 1 /\ (Untouched(r) => executed[r] = 0)
  /\ sends[r] <= 2 /\ (Untried(r) => sends[r] <= 1)
  /\ step[r] = "idle" => sends[r] = 0 /\ retry[r] = "none"
  /\ Recovering(r) => retry[r] # "none"

AttemptsInv == \A r \in Requests : AttemptInv(r)

\* A request that is sent, for the first time or after a recovery.
LEMMA SentAttempt ==
  ASSUME TypeOK, AttemptsInv, NEW S \in SUBSET Requests, NEW token \in Nat,
         NEW session \in Nat, Dispatch(S, token, session), NEW s \in S,
         step[s] = "idle" \/ Recovering(s), step'[s] = "sent",
         UNCHANGED <<executed, retry>>
  PROVE  AttemptInv(s)'
<1>1. executed'[s] = 0
  BY DEF AttemptsInv, AttemptInv, Untouched, Recovering
<1>2. sends'[s] = sends[s] + 1 /\ sends[s] \in Nat
  BY DEF Dispatch, TypeOK
<1>3. sends[s] <= 1 /\ (retry[s] = "none" => sends[s] = 0)
  BY DEF AttemptsInv, AttemptInv, Untried
<1> QED
  BY <1>1, <1>2, <1>3 DEF AttemptInv, Untouched, Untried, Recovering

\* A request a step says nothing about.
LEMMA SameAttempt ==
  ASSUME AttemptsInv, NEW s \in Requests,
         step'[s] = step[s], answer'[s] = answer[s], retry'[s] = retry[s],
         sends'[s] = sends[s], executed'[s] = executed[s]
  PROVE  AttemptInv(s)'
BY DEF AttemptsInv, AttemptInv, Untouched, Untried, Recovering

LEMMA AttemptsInductive == TypeOK /\ RefreshInv /\ AttemptsInv /\ [Next]_vars => AttemptsInv'
<1> SUFFICES ASSUME TypeOK, RefreshInv, AttemptsInv, [Next]_vars, NEW s \in Requests
             PROVE  AttemptInv(s)'
  BY DEF AttemptsInv
<1> USE DEF Move
<1>1. ASSUME NEW r \in Requests, Issue(r) \/ CsrfFetched(r) \/ Renewed(r)
      PROVE  AttemptInv(s)'
  <2>1. PICK token \in Nat : Dispatch({r}, token, access)
    BY <1>1 DEF Issue, CsrfFetched, Renewed, TypeOK
  <2>2. UNCHANGED <<retry, executed>>
    BY <1>1 DEF Issue, CsrfFetched, Renewed
  <2>3. CASE s = r
    <3>1. (step[s] = "idle" \/ Recovering(s)) /\ step'[s] = "sent"
      BY <1>1, <2>3 DEF Issue, CsrfFetched, Renewed, Recovering, TypeOK
    <3> QED
      BY <2>1, <2>2, <2>3, <3>1, SentAttempt DEF TypeOK
  <2>4. CASE s # r
    BY <1>1, <2>1, <2>2, <2>4, SameAttempt DEF Issue, CsrfFetched, Renewed, Dispatch, TypeOK
  <2> QED
    BY <2>3, <2>4
<1>2. ASSUME NEW r \in Requests, Serve(r) \/ Lose(r) PROVE AttemptInv(s)'
  <2>1. CASE s = r
    BY <1>2, <2>1 DEF Serve, Lose, Pending, TypeOK, AttemptsInv, AttemptInv, Untouched,
       Untried, Recovering
  <2>2. CASE s # r
    BY <1>2, <2>2, SameAttempt DEF Serve, Lose, TypeOK
  <2> QED
    BY <2>1, <2>2
<1>3. ASSUME NEW r \in Requests, Fulfil(r) \/ Reject(r) \/ CsrfFetchFails(r) \/ RefreshFails(r)
      PROVE  AttemptInv(s)'
  <2>1. CASE s = r
    BY <1>3, <2>1 DEF Fulfil, Reject, CsrfFetchFails, RefreshFails, TypeOK, AttemptsInv,
       AttemptInv, Untouched, Untried, Recovering
  <2>2. CASE s # r
    BY <1>3, <2>2, SameAttempt DEF Fulfil, Reject, CsrfFetchFails, RefreshFails, TypeOK
  <2> QED
    BY <2>1, <2>2
<1>4. ASSUME NEW r \in Requests, FetchCsrf(r) \/ StartRefresh(r) \/ Enqueue(r)
      PROVE  AttemptInv(s)'
  <2>1. CASE s = r
    BY <1>4, <2>1 DEF FetchCsrf, StartRefresh, Enqueue, MayFetch, MayRefresh, Received, TypeOK,
       AttemptsInv, AttemptInv, Untouched, Untried, Recovering
  <2>2. CASE s # r
    BY <1>4, <2>2, SameAttempt DEF FetchCsrf, StartRefresh, Enqueue, TypeOK
  <2> QED
    BY <2>1, <2>2
<1>5. ASSUME NEW r \in Requests, Refreshed(r) PROVE AttemptInv(s)'
  <2>1. Dispatch(refreshSubscribers, csrfToken, access') /\ access' \in Nat
        /\ csrfToken \in Nat /\ refreshSubscribers \in SUBSET Requests
    BY <1>5 DEF Refreshed, TypeOK
  <2>2. UNCHANGED <<retry, executed>> /\ step[r] = "refreshing"
    BY <1>5 DEF Refreshed
  <2>3. CASE s \in refreshSubscribers
    <3>1. step[s] = "queued"
      BY <2>3 DEF RefreshInv
    <3>2. step'[s] = "sent"
      BY <1>5, <2>2, <2>3, <3>1 DEF Refreshed
    <3> QED
      BY <2>1, <2>2, <2>3, <3>1, <3>2, SentAttempt DEF Recovering
  <2>4. CASE s = r /\ s \notin refreshSubscribers
    <3>1. step'[s] = "renewing" /\ sends'[s] = sends[s]
      BY <1>5, <2>1, <2>4 DEF Refreshed, Dispatch
    <3> QED
      BY <2>2, <2>4, <3>1 DEF AttemptsInv, AttemptInv, Untouched, Untried, Recovering
  <2>5. CASE s # r /\ s \notin refreshSubscribers
    BY <1>5, <2>1, <2>2, <2>5, SameAttempt DEF Refreshed, Dispatch
  <2> QED
    BY <2>3, <2>4, <2>5
<1>6. ASSUME FetchCsrfToken \/ Expire \/ Revoke \/ Restart \/ UNCHANGED vars PROVE AttemptInv(s)'
  BY <1>6, SameAttempt DEF FetchCsrfToken, Expire, Revoke, Restart, vars, call
<1> QED
  BY <1>1, <1>2, <1>3, <1>4, <1>5, <1>6 DEF Next, Intercept

LEMMA SpecAttemptsInv == Spec => []AttemptsInv
<1>1. ASSUME Init, NEW r \in Requests PROVE AttemptInv(r)
  <2>1. step[r] = "idle" /\ retry[r] = "none" /\ sends[r] = 0 /\ executed[r] = 0
    BY <1>1 DEF Init
  <2> QED
    BY <2>1 DEF AttemptInv, Untouched, Untried, Recovering
<1>2. Init => AttemptsInv
  BY <1>1 DEF AttemptsInv
<1> QED
  BY <1>2, AttemptsInductive, TypeCorrect, SpecRefreshInv, PTL DEF Spec

\* No request is carried out twice, whichever answers are lost.
THEOREM ExecutedOnceHolds == Spec => []ExecutedOnce
<1>1. AttemptsInv => ExecutedOnce
  BY DEF AttemptsInv, AttemptInv, ExecutedOnce
<1> QED
  BY <1>1, SpecAttemptsInv, PTL

\* No request is sent a third time.
THEOREM SentTwiceAtMostHolds == Spec => []SentTwiceAtMost
<1>1. AttemptsInv => SentTwiceAtMost
  BY DEF AttemptsInv, AttemptInv, SentTwiceAtMost
<1> QED
  BY <1>1, SpecAttemptsInv, PTL
-----------------------------------------------------------------------------
(* Who is refused for the session. *)

\* The renewed session outlasts what its renewal sends: with one expiry at most, a
\* request that renewed, or waited for it, goes out with a later token.
Outlasts(r) ==
  /\ step[r] = "renewing" => access > MaxExpiries
  /\ step[r] = "fetching" => retry[r] # "refresh"
  /\ retry[r] = "refresh" /\ step[r] = "sent" => cookie[r] > MaxExpiries
  /\ retry[r] = "refresh" /\ step[r] \in {"sent", "rejected"} => answer[r] # "unauthorized"
  /\ step[r] = "rejected" /\ answer[r] = "unauthorized" /\ r \notin AuthCalls =>
       retry[r] # "none"

RenewalInv ==
  /\ access >= 1 /\ expired <= MaxExpiries
  /\ \A r \in Requests : Outlasts(r)

LEMMA SameOutlasts ==
  ASSUME TypeOK, RenewalInv, NEW s \in Requests, access' \in Nat, access' >= access,
         step'[s] = step[s], answer'[s] = answer[s], retry'[s] = retry[s],
         cookie'[s] = cookie[s]
  PROVE  Outlasts(s)'
BY BoundsAssumption DEF RenewalInv, Outlasts, TypeOK

LEMMA RenewalInductive ==
  ASSUME MaxExpiries <= 1
  PROVE  TypeOK /\ RefreshInv /\ AttemptsInv /\ RenewalInv /\ [Next]_vars => RenewalInv'
<1> SUFFICES ASSUME TypeOK, RefreshInv, AttemptsInv, RenewalInv, [Next]_vars
             PROVE  RenewalInv'
  OBVIOUS
<1>1. access \in Nat /\ expired \in Nat /\ MaxExpiries \in Nat /\ access >= 1
      /\ expired <= MaxExpiries
  BY BoundsAssumption DEF TypeOK, RenewalInv
<1>2. access' \in Nat /\ access' >= access
  <2>1. access' = access \/ access' = access + 1
    BY DEF Next, Intercept, Issue, Serve, Lose, Fulfil, Reject, FetchCsrf, CsrfFetched,
       CsrfFetchFails, StartRefresh, Enqueue, Refreshed, RefreshFails, Renewed, FetchCsrfToken, Expire,
       Revoke, Restart, vars, server
  <2> QED
    BY <1>1, <2>1
<1>3. expired' <= MaxExpiries
  <2>1. expired' = expired \/ Expire
    BY DEF Next, Intercept, Issue, Serve, Lose, Fulfil, Reject, FetchCsrf, CsrfFetched,
       CsrfFetchFails, StartRefresh, Enqueue, Refreshed, RefreshFails, Renewed, FetchCsrfToken,
       Revoke, Restart, vars, server
  <2> QED
    BY <1>1, <2>1 DEF Expire
<1>4. ASSUME NEW s \in Requests PROVE Outlasts(s)'
  <2> USE DEF Move
  <2>1. ASSUME NEW r \in Requests, Issue(r) \/ CsrfFetched(r) PROVE Outlasts(s)'
    <3>1. PICK token \in Nat : Dispatch({r}, token, access)
      BY <2>1 DEF Issue, CsrfFetched, TypeOK
    <3>2. retry' = retry
      BY <2>1 DEF Issue, CsrfFetched
    <3>3. CASE s = r
      <4>1. step'[s] = "sent" /\ retry[s] # "refresh"
        BY <2>1, <3>3 DEF Issue, CsrfFetched, TypeOK, RenewalInv, Outlasts, AttemptsInv, AttemptInv
      <4> QED
        BY <3>2, <4>1 DEF Outlasts
    <3>4. CASE s # r
      BY <1>2, <2>1, <3>1, <3>2, <3>4, SameOutlasts DEF Issue, CsrfFetched, Dispatch, TypeOK
    <3> QED
      BY <3>3, <3>4
  <2>2. ASSUME NEW r \in Requests, Serve(r) \/ Lose(r) PROVE Outlasts(s)'
    <3>1. CASE s = r
      BY <1>1, <2>2, <3>1 DEF Serve, Lose, Pending, SessionRefused, TypeOK, RenewalInv, Outlasts,
         call, client, server
    <3>2. CASE s # r
      BY <1>2, <2>2, <3>2, SameOutlasts DEF Serve, Lose, TypeOK
    <3> QED
      BY <3>1, <3>2
  <2>3. ASSUME NEW r \in Requests, Fulfil(r) \/ Reject(r) \/ CsrfFetchFails(r) \/ RefreshFails(r)
        PROVE  Outlasts(s)'
    <3>1. CASE s = r
      BY <2>3, <3>1 DEF Fulfil, Reject, CsrfFetchFails, RefreshFails, MayRefresh, Received,
         TypeOK, RenewalInv, Outlasts
    <3>2. CASE s # r
      BY <1>2, <2>3, <3>2, SameOutlasts DEF Fulfil, Reject, CsrfFetchFails, RefreshFails, TypeOK
    <3> QED
      BY <3>1, <3>2
  <2>4. ASSUME NEW r \in Requests, FetchCsrf(r) \/ StartRefresh(r) \/ Enqueue(r)
        PROVE  Outlasts(s)'
    <3>1. CASE s = r
      BY <2>4, <3>1 DEF FetchCsrf, StartRefresh, Enqueue, TypeOK, Outlasts
    <3>2. CASE s # r
      BY <1>2, <2>4, <3>2, SameOutlasts DEF FetchCsrf, StartRefresh, Enqueue, TypeOK
    <3> QED
      BY <3>1, <3>2
  <2>5. ASSUME NEW r \in Requests, Refreshed(r) PROVE Outlasts(s)'
    <3>1. Dispatch(refreshSubscribers, csrfToken, access') /\ access' > MaxExpiries
          /\ retry' = retry
      BY <1>1, <2>5 DEF Refreshed
    <3>2. CASE s \in refreshSubscribers
      <4>1. step'[s] = "sent" /\ cookie'[s] = access' /\ answer'[s] = "none"
        BY <2>5, <3>1, <3>2 DEF Refreshed, Dispatch, RefreshInv
      <4> QED
        BY <3>1, <4>1 DEF Outlasts
    <3>3. CASE s = r /\ s \notin refreshSubscribers
      <4>1. step'[s] = "renewing"
        BY <2>5, <3>3 DEF Refreshed
      <4> QED
        BY <3>1, <4>1 DEF Outlasts
    <3>4. CASE s # r /\ s \notin refreshSubscribers
      BY <1>2, <2>5, <3>1, <3>4, SameOutlasts DEF Refreshed, Dispatch
    <3> QED
      BY <3>2, <3>3, <3>4
  <2>6. ASSUME NEW r \in Requests, Renewed(r) PROVE Outlasts(s)'
    <3>1. Dispatch({r}, csrfToken', access) /\ retry' = retry /\ step[r] = "renewing"
      BY <2>6 DEF Renewed
    <3>2. CASE s = r
      <4>1. step'[s] = "sent" /\ cookie'[s] = access /\ answer'[s] = "none"
            /\ access > MaxExpiries
        BY <2>6, <3>1, <3>2 DEF Renewed, Dispatch, RenewalInv, Outlasts
      <4> QED
        BY <3>1, <4>1 DEF Outlasts
    <3>3. CASE s # r
      BY <1>2, <2>6, <3>1, <3>3, SameOutlasts DEF Renewed, Dispatch
    <3> QED
      BY <3>2, <3>3
  <2>7. ASSUME FetchCsrfToken \/ Expire \/ Revoke \/ Restart \/ UNCHANGED vars PROVE Outlasts(s)'
    BY <1>2, <2>7, SameOutlasts DEF FetchCsrfToken, Expire, Revoke, Restart, vars, call
  <2> QED
    BY <2>1, <2>2, <2>3, <2>4, <2>5, <2>6, <2>7 DEF Next, Intercept
<1> QED
  BY <1>1, <1>2, <1>3, <1>4 DEF RenewalInv

\* As long as the session expires once at most while the requests run, the one
\* thing that keeps a renewal from a request is a CSRF token it had to fetch.
THEOREM OnlyCsrfCostsTheRenewalHolds ==
  ASSUME MaxExpiries <= 1
  PROVE  Spec => []OnlyCsrfCostsTheRenewal
<1>1. ASSUME Init PROVE RenewalInv
  <2>1. access = 1 /\ expired = 0 /\ \A r \in Requests : step[r] = "idle"
    BY <1>1 DEF Init
  <2> QED
    BY <2>1, BoundsAssumption DEF RenewalInv, Outlasts
<1>2. TypeOK /\ RefreshInv /\ AttemptsInv /\ RenewalInv /\ [Next]_vars => RenewalInv'
  BY RenewalInductive
<1>3. TypeOK /\ RenewalInv => OnlyCsrfCostsTheRenewal
  BY DEF TypeOK, Retries, RenewalInv, Outlasts, OnlyCsrfCostsTheRenewal
<1> QED
  BY <1>1, <1>2, <1>3, TypeCorrect, SpecRefreshInv, SpecAttemptsInv, PTL DEF Spec
=============================================================================
