------------------------------- MODULE MCDesk -------------------------------
(***************************************************************************)
(* Instances of Lists, of its packages, of Targets and of Vault for TLC.   *)
(* They share no variable: a behaviour explores one of them, its part,     *)
(* while the others stay as they began.                                    *)
(***************************************************************************)
EXTENDS Lists, Targets, Vault, TLC

VARIABLE part

deskVars == <<part, listsVars, packagesVars, targetsVars, vaultVars>>

\* A part that is not explored begins in one way only.
DeskInit ==
    /\ part \in {"lists", "packages", "targets", "vault"}
    /\ ListsInit /\ PackagesInit /\ TargetsInit /\ VaultInit
    /\ part # "lists" => list = "package"
    /\ part # "packages" => wanted = Services
    /\ part # "vault" => kind = "credential" /\ \A p \in Colleagues : on[p] = {} /\ reach[p] = "all"

DeskNext ==
    /\ UNCHANGED part
    /\ \/ part = "lists" /\ ListsNext /\ UNCHANGED <<packagesVars, targetsVars, vaultVars>>
       \/ part = "packages" /\ PackagesNext /\ UNCHANGED <<listsVars, targetsVars, vaultVars>>
       \/ part = "targets" /\ TargetsNext /\ UNCHANGED <<listsVars, packagesVars, vaultVars>>
       \/ part = "vault" /\ VaultNext /\ UNCHANGED <<listsVars, packagesVars, targetsVars>>

DeskSpec == DeskInit /\ [][DeskNext]_deskVars

Symmetry ==
    {q @@ e @@ p @@ g : q \in Permutations(Clerks), e \in Permutations(Entries),
                        p \in Permutations(Places), g \in Permutations(Goals)}

\* Every variable of the four parts keeps its type, and so does the seeded grid.
DeskTypeOK ==
    /\ ListsTypeOK /\ PackagesTypeOK /\ TargetsTypeOK /\ VaultTypeOK
    /\ SeededGridHangsTogether

(***************************************************************************)
(* What an agency sets up for itself hangs together: no entry of a list    *)
(* twice nor, where a removal counts, taken from who is filed under it; a  *)
(* package that is what was last asked for; and one target for every       *)
(* number.  Excused is only what an overtaken request wrote itself.        *)
(***************************************************************************)
SetUpHoldsUnlessRaced ==
    ListsHoldUnlessRaced /\ PackageIsAsAskedUnlessRaced /\ TargetsScoreUnlessRaced

\* What is kept in the vault is reached by those it is for, and its log says by whom.
VaultHoldsUnlessRaced == LogAnswersUnlessRaced /\ ReachKeptUnlessRaced
=============================================================================
