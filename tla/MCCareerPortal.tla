--------------------------- MODULE MCCareerPortal ---------------------------
(***************************************************************************)
(* Instances of CareerPortal for TLC.                                      *)
(***************************************************************************)
EXTENDS CareerPortal
=============================================================================
