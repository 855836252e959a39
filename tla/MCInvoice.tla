----------------------------- MODULE MCInvoice -----------------------------
(***************************************************************************)
(* One invoice, two payments of 1 that may be moved onto it and off it,    *)
(* and three sets of lines of 1 and 2; two requests at a time.             *)
(***************************************************************************)
EXTENDS Invoice, TLC

CONSTANTS p1, p2, v1, v2, k1, k2, s1, s2, s3

MCSheetSum == [s \in Sheets |-> IF s = s1 THEN 2 ELSE 1]

\* No liveness is checked.
Symmetric == Permutations(Requests) \cup Permutations(Invoices) \cup Permutations(Payments)
             \cup Permutations(Sheets \ {s1})
=============================================================================
