----------------------------- MODULE OneTimeLink -----------------------------
(***************************************************************************)
(* What the links that are mailed to people promise, whatever they are     *)
(* for: a link is issued once, works until it is spent or retired, and     *)
(* once it does not work it never works again.  Several links can stop     *)
(* working in one step, since the services retire what is outstanding for  *)
(* an address; only one is spent.                                          *)
(***************************************************************************)
EXTENDS Naturals

CONSTANT Ids
VARIABLES state, uses    \* uses[l]: how often l has done what it is for

linkVars == <<state, uses>>

Issue(l) == /\ state[l] = "none"
            /\ state' = [state EXCEPT ![l] = "open"]
            /\ UNCHANGED uses

Spend(l) ==
    /\ state[l] = "open"
    /\ \E S \in SUBSET {k \in Ids \ {l} : state[k] = "open"} :
          state' = [k \in Ids |-> IF k = l THEN "spent"
                                  ELSE IF k \in S THEN "retired" ELSE state[k]]
    /\ uses' = [uses EXCEPT ![l] = @ + 1]

Retire ==
    /\ \E S \in SUBSET {k \in Ids : state[k] = "open"} :
          state' = [k \in Ids |-> IF k \in S THEN "retired" ELSE state[k]]
    /\ UNCHANGED uses

LinkInit == state = [l \in Ids |-> "none"] /\ uses = [l \in Ids |-> 0]
LinkNext == Retire \/ \E l \in Ids : Issue(l) \/ Spend(l)
LinkSpec == LinkInit /\ [][LinkNext]_linkVars
=============================================================================
