------------------------------- MODULE MCLoan -------------------------------
(***************************************************************************)
(* One loan, a schedule of one or two instalments that can be replaced     *)
(* once by ids that are left, and two accounts to pay from.                *)
(***************************************************************************)
EXTENDS Loan, TLC

CONSTANTS p1, p2, l1, a1, a2, b1, b2, b3, cash, bank

MCBorrowed == [l \in Loans |-> 2]
MCTotal    == [i \in Instalments |-> 1]
MCSeqOf    == [i \in Instalments |-> IF i \in {a1, b1} THEN 1 ELSE IF i = b3 THEN 3 ELSE 2]

\* Requests and accounts are told apart by nothing; no liveness is checked.
Symmetric == Permutations(Requests) \cup Permutations(Accounts)
=============================================================================
