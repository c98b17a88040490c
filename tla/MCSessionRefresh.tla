--------------------------- MODULE MCSessionRefresh ---------------------------
(***************************************************************************)
(* Instances of SessionRefresh for TLC: its requests.                      *)
(***************************************************************************)
EXTENDS SessionRefresh

CONSTANTS r1, r2, r3
=============================================================================
