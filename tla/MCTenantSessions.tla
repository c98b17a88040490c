-------------------------- MODULE MCTenantSessions --------------------------
(***************************************************************************)
(* Instances of TenantSessions for TLC: two requests in flight from two    *)
(* browsers, two sessions, and an account that locks after two failures    *)
(* instead of five; for the lockout, one of each and the code's five.      *)
(***************************************************************************)
EXTENDS TenantSessions
=============================================================================
