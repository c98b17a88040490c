----------------------------- MODULE PortLease -----------------------------
(***************************************************************************)
(* What the deployment service promises about the ports of the shared VPS, *)
(* whatever happens inside it while it runs: a tenant holds at most one    *)
(* set of ports, no two tenants hold the same one, and a set is free again *)
(* once released.                                                          *)
(***************************************************************************)
CONSTANTS Tenants, Ports, NoPort

VARIABLE lease     \* the ports each tenant holds, or NoPort

Init == lease = [t \in Tenants |-> NoPort]

Acquire(t, p) ==
  /\ lease[t] = NoPort
  /\ \A u \in Tenants : lease[u] # p
  /\ lease' = [lease EXCEPT ![t] = p]

Release(t) ==
  /\ lease[t] # NoPort
  /\ lease' = [lease EXCEPT ![t] = NoPort]

\* The process that keeps the leases is restarted, and keeps none.
Forget == lease' = [t \in Tenants |-> NoPort]

Next ==
  \/ Forget
  \/ \E t \in Tenants : Release(t) \/ \E p \in Ports : Acquire(t, p)

Spec == Init /\ [][Next]_lease
=============================================================================
