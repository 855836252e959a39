------------------------------- MODULE Shares -------------------------------
(***************************************************************************)
(* The people who own the agency (loan/shareholder.service.ts): how much   *)
(* each holds, and what was paid out to them.  The total is read in the    *)
(* transaction that writes a share, and nothing is locked.                 *)
(***************************************************************************)
EXTENDS Naturals, FiniteSets, FiniteSetsExt

CONSTANTS Partners,                \* requests under way
          Holders, NoHolder,       \* shareholders
          Percents,                \* the shares that can be held
          MaxPaid                  \* bound on the distributions of a holder

ASSUME SharesAssumption ==
    /\ NoHolder \notin Holders /\ IsFiniteSet(Holders) /\ IsFiniteSet(Partners) /\ MaxPaid \in Nat
    /\ Percents \subseteq 0 .. 100 /\ 0 \in Percents

VARIABLES holder,     \* holder[h]: a row of shareholders
          paidOut,    \* paidOut[h]: their distributions that stand
          partner,    \* partner[p]: what request p has read and is about to write
          unchecked   \* ghost: holders whose row was last written without a check that held

sharesVars == <<holder, paidOut, partner, unchecked>>

-----------------------------------------------------------------------------
HolderRows == [is : {"new", "kept", "removed"}, share : Percents, active : BOOLEAN]
NotAHolder == [is |-> "new", share |-> 0, active |-> FALSE]
OffDuty    == [op |-> "none", on |-> NoHolder, row |-> NotAHolder, stale |-> FALSE]

SharesInit ==
    /\ holder = [h \in Holders |-> NotAHolder]
    /\ paidOut = [h \in Holders |-> 0]
    /\ partner = [p \in Partners |-> OffDuty]
    /\ unchecked = {}

Kept(h) == holder[h].is = "kept"     \* assertOwnShareholder
Holding == {h \in Holders : Kept(h) /\ holder[h].active}
Total(hs) == MapThenSumSet(LAMBDA h : holder[h].share, hs)

OthersOf(h) == Holding \ {h}

\* Mutant of Fits: the share that is asked for is not added.
FitsSoFar(h, share) == Total(OthersOf(h)) <= 100

\* assertShareTotal
Fits(h, share) == Total(OthersOf(h)) + share <= 100

Propose(p, r) ==
    /\ partner[p] = OffDuty /\ partner' = [partner EXCEPT ![p] = r]
    /\ UNCHANGED <<holder, paidOut, unchecked>>

-----------------------------------------------------------------------------
CreateHolder(p, h) ==
    /\ holder[h] = NotAHolder
    /\ \E share \in Percents :
          /\ Fits(h, share)
          /\ Propose(p, [OffDuty EXCEPT !.op = "create", !.on = h,
                            !.row = [is |-> "kept", share |-> share, active |-> TRUE]])

\* A share is checked when one is given and will be held.  It may come without is_active.
UpdateShare(p, h) ==
    /\ Kept(h)
    /\ \E share \in Percents, active \in BOOLEAN, op \in {"update", "share"} :
          /\ op = "share" => active = holder[h].active
          /\ active => Fits(h, share)
          /\ Propose(p, [OffDuty EXCEPT !.op = op, !.on = h, !.row.share = share,
                                        !.row.active = active])

\* is_active alone: nothing is checked.
SetActive(p, h) ==
    /\ Kept(h)
    /\ \E active \in BOOLEAN :
          Propose(p, [OffDuty EXCEPT !.op = "activate", !.on = h, !.row.active = active])

RemoveHolder(p, h) ==
    /\ Kept(h) /\ paidOut[h] = 0
    /\ Propose(p, [OffDuty EXCEPT !.op = "remove", !.on = h])

CreateDistribution(p, h) ==
    /\ Kept(h) /\ paidOut[h] < MaxPaid
    /\ Propose(p, [OffDuty EXCEPT !.op = "pay", !.on = h])

\* Mutant of IsPaid: a distribution that was deleted is deleted again.
AnyOfThem(h) == TRUE

IsPaid(h) == paidOut[h] > 0

DeleteDistribution(h) ==
    /\ IsPaid(h) /\ paidOut' = [paidOut EXCEPT ![h] = @ - 1]
    /\ UNCHANGED <<holder, partner, unchecked>>

\* The row as the write leaves it: what was not given stays.
NewRow(r) ==
    CASE r.op = "create" -> r.row
      [] r.op = "remove" -> [holder[r.on] EXCEPT !.is = "removed"]
      [] OTHER -> [holder[r.on] EXCEPT
                     !.share  = IF r.op \in {"update", "share"} THEN r.row.share ELSE @,
                     !.active = IF r.op \in {"update", "activate"} THEN r.row.active ELSE @]

GivesShare(r) == r.op \in {"create", "update", "share"}

\* What a row adds to the total.
Counts(row) == IF row.is = "kept" /\ row.active THEN row.share ELSE 0

\* What r writes is not as q has read it: the total is more, or the row is another.
Overtakes(r, q) ==
    \/ GivesShare(q) /\ r.op # "pay" /\ (r.on = q.on \/ Counts(NewRow(r)) > Counts(holder[r.on]))
    \/ q.op = "remove" /\ r.op = "pay" /\ r.on = q.on
    \/ q.op = "pay" /\ r.op = "remove" /\ r.on = q.on

\* Who is brought back by is_active alone counts again without having been counted.
BringsBack(r) == r.op = "activate" /\ r.row.active /\ ~holder[r.on].active

WriteShare(p) ==
    LET r == partner[p] IN
    /\ r.op # "none" /\ (r.op = "create" => holder[r.on] = NotAHolder)
    /\ holder' = [holder EXCEPT ![r.on] = NewRow(r)]
    /\ paidOut' = IF r.op = "pay" THEN [paidOut EXCEPT ![r.on] = @ + 1] ELSE paidOut
    /\ unchecked' = CASE r.stale \/ BringsBack(r) -> unchecked \cup {r.on}
                      [] GivesShare(r) /\ ~r.stale -> unchecked \ {r.on}
                      [] OTHER                     -> unchecked
    /\ partner' = [q \in Partners |->
                      IF q = p THEN OffDuty
                      ELSE [partner[q] EXCEPT !.stale = @ \/ Overtakes(r, partner[q])]]

SharesNext ==
    \/ \E p \in Partners, h \in Holders :
          \/ CreateHolder(p, h) \/ UpdateShare(p, h) \/ SetActive(p, h) \/ RemoveHolder(p, h)
          \/ CreateDistribution(p, h)
    \/ \E p \in Partners : WriteShare(p)
    \/ \E h \in Holders : DeleteDistribution(h)

SharesSpec == SharesInit /\ [][SharesNext]_sharesVars

-----------------------------------------------------------------------------
SharesTypeOK ==
    /\ holder \in [Holders -> HolderRows]
    /\ paidOut \in [Holders -> 0 .. MaxPaid + Cardinality(Partners)]
    /\ partner \in [Partners -> [op : {"none", "create", "update", "share", "activate", "remove", "pay"},
                                 on : Holders \cup {NoHolder}, row : HolderRows,
                                 stale : BOOLEAN]]
    /\ unchecked \subseteq Holders

(***************************************************************************)
(* "Shares cannot add up to more than the whole business"                  *)
(* (shareholder.service.ts:28), and a holder with distributions is retired *)
(* rather than removed (:189).  loan.prisma:105 says that the sum "is      *)
(* checked against 100 on every write".  It is not: a PATCH with is_active *)
(* alone brings somebody back with the share they had, and no race is      *)
(* needed for that (:169).  What holds is said of all the others, those    *)
(* apart whose row was last written by a request that another overtook.    *)
(***************************************************************************)
OwnedOnceUnlessUnchecked ==
    /\ Total(Holding \ unchecked) <= 100
    /\ \A h \in Holders \ unchecked : paidOut[h] > 0 => Kept(h)
=============================================================================
