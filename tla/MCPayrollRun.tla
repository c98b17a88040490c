---------------------------- MODULE MCPayrollRun ----------------------------
(***************************************************************************)
(* Instances of PayrollRun for TLC: one run, a page of three lines (one    *)
(* for the races), one or two requests in flight.                          *)
(***************************************************************************)
EXTENDS PayrollRun

AllOperations == {"calculate", "process", "review", "finalize", "cancel", "delete",
                  "void", "reissue", "deleteCheck"}
\* Employee 2 has two current compensations, employee 3 is on the second page.
TwoPages == <<1, 2, 2, 3>>
OneLine == <<1>>
RunOperations == AllOperations \ {"void", "reissue", "deleteCheck"}
=============================================================================
