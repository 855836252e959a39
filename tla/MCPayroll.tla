----------------------------- MODULE MCPayroll -----------------------------
(***************************************************************************)
(* Two months, for which a run can be opened again when it was discarded,  *)
(* two people and two requests at a time.                                  *)
(***************************************************************************)
EXTENDS Payroll, TLC

CONSTANTS p1, p2, r1, r2, r3, ann, ben, m1, m2

\* No liveness is checked.
Symmetric == Permutations(Requests) \cup Permutations(Runs) \cup Permutations(Members)
             \cup Permutations(Months)
=============================================================================
