--------------------------- MODULE MCCompensation ---------------------------
(***************************************************************************)
(* Instances of Compensation for TLC: as many rows as there are dates. Two *)
(* dates are enough for a creation to fall before or after another row;    *)
(* the proofs are about any set of dates.                                  *)
(***************************************************************************)
EXTENDS Compensation, TLC

TwoDates == 1..2

Interchangeable ==
  Permutations(Requests) \union Permutations(Rows) \union Permutations(Amounts)
=============================================================================
