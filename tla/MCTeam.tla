------------------------------- MODULE MCTeam -------------------------------
(***************************************************************************)
(* A company of up to three people and two seats, and two admins at work.  *)
(***************************************************************************)
EXTENDS Team, TLC

CONSTANTS p1, p2, founder, alice, bob

\* One field at a time.
MCUserEdits == {[role |-> r, status |-> "keep"] : r \in {"admin", "member"}}
               \cup {[role |-> "keep", status |-> "suspended"],
                     [role |-> "keep", status |-> "active"]}

\* Requests, and the people who are not the founder, are told apart by
\* nothing; no liveness is checked.
Symmetric == Permutations(Requests) \cup Permutations(Users \ {Founder})
=============================================================================
