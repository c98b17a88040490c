----------------------------- MODULE MCPayment -----------------------------
(***************************************************************************)
(* Instances of Payment for TLC: two workers and callers of every status   *)
(* race on one payment. Two payments meet nowhere in the code but in the   *)
(* scheduled job's list, which the proofs cover for any number of them.    *)
(***************************************************************************)
EXTENDS Payment, TLC

Interchangeable == Permutations(Workers)
=============================================================================
