-------------------------------- MODULE Loan --------------------------------
(***************************************************************************)
(* Bank loans: their schedule of instalments, repayment, reversal of a     *)
(* repayment, replacing the unpaid part of the schedule, closing and       *)
(* removing, by concurrent requests.  As in Ledger, a request is one READ  *)
(* COMMITTED transaction with an action per statement, and what it wrote   *)
(* appears when it commits.  An UPDATE or a DELETE finds its rows, waits   *)
(* for the ones other transactions have written, and then looks again at   *)
(* its condition.  A DELETE locks its rows in one step here; the circles   *)
(* that row by row locking can close end in an aborted transaction, which  *)
(* Rollback stands for.                                                    *)
(*                                                                         *)
(* Of account_transactions there is `held', the sum per instalment and     *)
(* account (loan_repayment), and `received', the sum per loan              *)
(* (loan_received).                                                        *)
(***************************************************************************)
EXTENDS Integers, FiniteSets

CONSTANTS Requests,
          Loans,         \* loan ids
          Instalments,   \* instalment ids
          Accounts,
          Borrowed,      \* Borrowed[l]: what landed in an account, or 0
          Total,         \* Total[i]: principal plus interest of i
          SeqOf,         \* SeqOf[i]: the place in a schedule the id i is drawn for
          Lengths,       \* how many instalments a payload may carry
          NoLoan, NoInstalment, NoAccount

ASSUME LoanAssumption ==
    /\ IsFiniteSet(Instalments)        \* ids are uuids
    /\ Borrowed \in [Loans -> Nat]
    /\ Total \in [Instalments -> Nat]
    /\ SeqOf \in [Instalments -> Nat \ {0}]
    /\ Lengths \subseteq Nat \ {0}     \* at least one, given or generated
    /\ NoLoan \notin Loans
    /\ NoInstalment \notin Instalments
    /\ NoAccount \notin Accounts

VARIABLES loan,      \* loan[l]: [status, deleted]
          inst,      \* inst[i]: [state, loan, paidFrom]
          held,      \* held[i][a]: sum of the loan_repayment rows of i on a
          received,  \* received[l]: sum of the loan_received rows of l
          req,       \* req[p]: what request p is doing
          raced      \* ghost: loans written by a request that another
                     \* request's commit on the same loan had overtaken

vars == <<loan, inst, held, received, req, raced>>

-----------------------------------------------------------------------------
Legs == [Accounts -> Int]
Zero == [a \in Accounts |-> 0]

\* What paying i from a moves, and what the ledger should hold of a row.
Repayment(i, a) == [x \in Accounts |-> IF x = a THEN -Total[i] ELSE 0]

NoSuchLoan == [status |-> "none", deleted |-> FALSE]
LoanRow == [status : {"none", "active", "settled", "closed"}, deleted : BOOLEAN]

NoSuchInstalment == [state |-> "none", loan |-> NoLoan, paidFrom |-> NoAccount]
InstalmentRow == [state : {"none", "there", "deleted"}, loan : Loans \cup {NoLoan},
                  paidFrom : Accounts \cup {NoAccount}]

Idle == [pc |-> "idle", op |-> "none", loan |-> NoLoan, inst |-> NoInstalment,
         acct |-> NoAccount, paid |-> 0, rows |-> {}, new |-> {}, length |-> 0,
         open |-> Zero, owed |-> 0, write |-> "nothing", stale |-> FALSE]

PCs == {"idle", "claim", "remaining", "reverse", "countPaid", "findUnpaid", "delete",
        "insert", "loanRow", "commit"}
Ops == {"none", "pay", "reverse", "set", "remove", "close"}

Request == [pc : PCs, op : Ops, loan : Loans \cup {NoLoan},
            inst : Instalments \cup {NoInstalment}, acct : Accounts \cup {NoAccount},
            paid : Nat, rows : SUBSET Instalments, new : SUBSET Instalments,
            length : Nat, open : Legs, owed : Int,
            write : {"nothing", "active", "settled", "closed", "deleted"}, stale : BOOLEAN]

-----------------------------------------------------------------------------
(* What the statements read: the committed rows.                           *)

LiveLoan(l) == loan[l].status # "none" /\ ~loan[l].deleted

Schedule(l) == {i \in Instalments : inst[i].state = "there" /\ inst[i].loan = l}
Paid(i)     == inst[i].paidFrom # NoAccount
Unpaid(l)   == {i \in Schedule(l) : ~Paid(i)}

\* An id that no schedule has and no open transaction is inserting.
Unused(i) == inst[i].state = "none" /\ \A p \in Requests : i \notin req[p].new

\* Fresh rows for these places of a schedule.
DrawRows(seqs) ==
    {S \in SUBSET {i \in Instalments : Unused(i) /\ SeqOf[i] \in seqs} :
        \A n \in seqs : Cardinality({i \in S : SeqOf[i] = n}) = 1}

-----------------------------------------------------------------------------
(* Row locks: an instalment that was claimed or deleted, a loan that was   *)
(* updated, until the transaction ends.                                    *)

Repays(p) == req[p].op \in {"pay", "reverse"}

HoldsInstalment(p, i) ==
    \/ Repays(p) /\ req[p].inst = i /\ req[p].pc \in {"remaining", "reverse", "loanRow", "commit"}
    \/ req[p].op = "set" /\ i \in req[p].rows /\ req[p].pc \in {"insert", "commit"}

HoldsLoan(p, l) == req[p].loan = l /\ req[p].pc = "commit" /\ req[p].write # "nothing"

-----------------------------------------------------------------------------
Init == /\ loan = [l \in Loans |-> NoSuchLoan]
        /\ inst = [i \in Instalments |-> NoSuchInstalment]
        /\ held = [i \in Instalments |-> Zero]
        /\ received = [l \in Loans |-> 0]
        /\ req = [p \in Requests |-> Idle]
        /\ raced = {}

Unwritten == UNCHANGED <<loan, inst, held, received, raced>>

Begin(p, r) == req[p].pc = "idle" /\ req' = [req EXCEPT ![p] = r] /\ Unwritten
Goto(p, pc) == req' = [req EXCEPT ![p].pc = pc]
End(p)      == req' = [req EXCEPT ![p] = Idle]

\* Everything create writes is new, so nobody waits for it or sees a part.
CreateLoan(l) ==
    /\ loan[l] = NoSuchLoan
    /\ \E n \in Lengths : \E S \in DrawRows(1..n) :
          inst' = [i \in Instalments |->
                      IF i \in S THEN [state |-> "there", loan |-> l, paidFrom |-> NoAccount]
                                 ELSE inst[i]]
    /\ loan' = [loan EXCEPT ![l] = [status |-> "active", deleted |-> FALSE]]
    /\ received' = [received EXCEPT ![l] = Borrowed[l]]
    /\ UNCHANGED <<held, req, raced>>

-----------------------------------------------------------------------------
(* Paying an instalment and reversing a payment.                           *)

Repay(p, op, i, a) ==
    /\ inst[i].state = "there" /\ LiveLoan(inst[i].loan)
    /\ Begin(p, [Idle EXCEPT !.pc = "claim", !.op = op, !.loan = inst[i].loan,
                             !.inst = i, !.acct = a])

PayInstalment(p)     == \E i \in Instalments, a \in Accounts : Repay(p, "pay", i, a)
ReverseInstalment(p) == \E i \in Instalments : Repay(p, "reverse", i, NoAccount)

\* Mutant of Claimable: a check at the start instead of a conditional claim.
AlwaysClaimable(p) == inst[req[p].inst].state = "there"

Claimable(p) ==
    /\ inst[req[p].inst].state = "there"
    /\ Paid(req[p].inst) <=> req[p].op = "reverse"

Claim(p) ==
    /\ req[p].pc = "claim"
    /\ \A q \in Requests \ {p} : ~HoldsInstalment(q, req[p].inst)
    /\ IF ~Claimable(p) THEN End(p)
       ELSE Goto(p, IF req[p].op = "pay" THEN "remaining" ELSE "reverse")
    /\ Unwritten

\* Mutant of Remaining: the schedule is counted without the claim just made.
RemainingBeforeClaim(p) == Unpaid(req[p].loan)

\* Mutant of Remaining: only what was due before counts, so the last row settles.
RemainingEarlier(p) ==
    {i \in Unpaid(req[p].loan) : SeqOf[i] < SeqOf[req[p].inst]}

Remaining(p) == Unpaid(req[p].loan) \ {req[p].inst}

CountRemaining(p) ==
    /\ req[p].pc = "remaining"
    /\ IF Remaining(p) = {}
       THEN req' = [req EXCEPT ![p].pc = "loanRow", ![p].write = "settled"]
       ELSE Goto(p, "commit")
    /\ Unwritten

ReverseRepayment(p) ==
    /\ req[p].op = "reverse" /\ req[p].pc = "reverse"
    /\ req' = [req EXCEPT ![p].pc = "loanRow", ![p].open = held[req[p].inst],
                          ![p].write = "active"]
    /\ Unwritten

-----------------------------------------------------------------------------
(* Replacing the unpaid rows of the schedule.                              *)

SetInstalments(p) ==
    \E l \in Loans, n \in Lengths :
        /\ LiveLoan(l)
        /\ Begin(p, [Idle EXCEPT !.pc = "countPaid", !.op = "set", !.loan = l, !.length = n])

CountPaid(p) ==
    /\ req[p].op = "set" /\ req[p].pc = "countPaid"
    /\ req' = [req EXCEPT ![p].pc = "findUnpaid",
                          ![p].paid = Cardinality({i \in Schedule(req[p].loan) : Paid(i)})]
    /\ Unwritten

FindUnpaid(p) ==
    /\ req[p].pc = "findUnpaid"
    /\ req' = [req EXCEPT ![p].pc = "delete", ![p].rows = Unpaid(req[p].loan)]
    /\ Unwritten

\* Mutant of StillUnpaid: the ids found first, then deleted by id.
StillThere(S) == {i \in S : inst[i].state = "there"}

StillUnpaid(S) == {i \in S : inst[i].state = "there" /\ ~Paid(i)}

DeleteUnpaid(p) ==
    /\ req[p].pc = "delete"
    /\ \A i \in req[p].rows, q \in Requests \ {p} : ~HoldsInstalment(q, i)
    /\ req' = [req EXCEPT ![p].pc = "insert", ![p].rows = StillUnpaid(req[p].rows)]
    /\ Unwritten

NewSeqs(p) == (req[p].paid + 1)..(req[p].paid + req[p].length)

\* The unique index on (loan_id, seq) waits for a transaction that inserts the
\* same place, or deletes the row that has it, and fails on a row that stays.
InsertInstalments(p) ==
    /\ req[p].op = "set" /\ req[p].pc = "insert"
    /\ \A q \in Requests \ {p} :
          req[q].loan = req[p].loan /\ req[q].op = "set" /\ req[q].pc \in {"insert", "commit"}
              => \A i \in req[q].new \cup req[q].rows : SeqOf[i] \notin NewSeqs(p)
    /\ IF \E i \in Schedule(req[p].loan) \ req[p].rows : SeqOf[i] \in NewSeqs(p)
       THEN End(p)
       ELSE \E S \in DrawRows(NewSeqs(p)) :
               req' = [req EXCEPT ![p].pc = "commit", ![p].new = S]
    /\ Unwritten

-----------------------------------------------------------------------------
(* Closing by hand, and removing a loan nothing was repaid on.             *)

CloseLoan(p) ==
    \E l \in Loans :
        /\ LiveLoan(l)
        /\ Begin(p, [Idle EXCEPT !.pc = "loanRow", !.op = "close", !.loan = l,
                                 !.write = "closed"])

RemoveLoan(p) ==
    \E l \in Loans :
        /\ LiveLoan(l)
        /\ Begin(p, [Idle EXCEPT !.pc = "countPaid", !.op = "remove", !.loan = l])

CheckUnpaid(p) ==
    /\ req[p].op = "remove" /\ req[p].pc = "countPaid"
    /\ IF \E i \in Schedule(req[p].loan) : Paid(i) THEN End(p) ELSE Goto(p, "reverse")
    /\ Unwritten

ReverseReceived(p) ==
    /\ req[p].op = "remove" /\ req[p].pc = "reverse"
    /\ req' = [req EXCEPT ![p].pc = "loanRow", ![p].owed = received[req[p].loan],
                          ![p].write = "deleted"]
    /\ Unwritten

UpdateLoan(p) ==
    /\ req[p].pc = "loanRow"
    /\ \A q \in Requests \ {p} : ~HoldsLoan(q, req[p].loan)
    /\ Goto(p, "commit")
    /\ Unwritten

-----------------------------------------------------------------------------
(* Commit and rollback.                                                    *)

\* Every other request that has already read the loan is now behind it.
EndAndOvertake(p) ==
    req' = [q \in Requests |->
               IF q = p THEN Idle
               ELSE IF req[q].loan = req[p].loan THEN [req[q] EXCEPT !.stale = TRUE]
               ELSE req[q]]

WrittenLoan(p) ==
    CASE req[p].write = "nothing" -> loan[req[p].loan]
      [] req[p].write = "deleted" -> [loan[req[p].loan] EXCEPT !.deleted = TRUE]
      [] OTHER                    -> [loan[req[p].loan] EXCEPT !.status = req[p].write]

Commit(p, op) ==
    /\ req[p].op = op /\ req[p].pc = "commit"
    /\ loan' = [loan EXCEPT ![req[p].loan] = WrittenLoan(p)]
    /\ raced' = IF req[p].stale THEN raced \cup {req[p].loan} ELSE raced
    /\ EndAndOvertake(p)

CommitPay(p) ==
    LET i == req[p].inst  a == req[p].acct IN
    /\ Commit(p, "pay")
    /\ inst' = [inst EXCEPT ![i].paidFrom = a]
    /\ held' = [held EXCEPT ![i] = [x \in Accounts |-> held[i][x] + Repayment(i, a)[x]]]
    /\ UNCHANGED received

CommitReverse(p) ==
    LET i == req[p].inst IN
    /\ Commit(p, "reverse")
    /\ inst' = [inst EXCEPT ![i].paidFrom = NoAccount]
    /\ held' = [held EXCEPT ![i] = [x \in Accounts |-> held[i][x] - req[p].open[x]]]
    /\ UNCHANGED received

CommitSet(p) ==
    /\ Commit(p, "set")
    /\ inst' = [i \in Instalments |->
                   IF i \in req[p].rows
                   THEN [inst[i] EXCEPT !.state = "deleted"]
                   ELSE IF i \in req[p].new
                   THEN [state |-> "there", loan |-> req[p].loan, paidFrom |-> NoAccount]
                   ELSE inst[i]]
    /\ UNCHANGED <<held, received>>

CommitRemove(p) ==
    /\ Commit(p, "remove")
    /\ received' = [received EXCEPT ![req[p].loan] = @ - req[p].owed]
    /\ UNCHANGED <<inst, held>>

CommitClose(p) == Commit(p, "close") /\ UNCHANGED <<inst, held, received>>

Rollback(p) == req[p].pc # "idle" /\ End(p) /\ Unwritten

-----------------------------------------------------------------------------
Start(p) == \/ PayInstalment(p) \/ ReverseInstalment(p) \/ SetInstalments(p)
            \/ CloseLoan(p) \/ RemoveLoan(p)

Continue(p) ==
    \/ Claim(p) \/ CountRemaining(p) \/ ReverseRepayment(p)
    \/ CountPaid(p) \/ FindUnpaid(p) \/ DeleteUnpaid(p) \/ InsertInstalments(p)
    \/ CheckUnpaid(p) \/ ReverseReceived(p) \/ UpdateLoan(p)
    \/ CommitPay(p) \/ CommitReverse(p) \/ CommitSet(p) \/ CommitRemove(p) \/ CommitClose(p)

Next == \/ \E l \in Loans : CreateLoan(l)
        \/ \E p \in Requests : Start(p) \/ Continue(p) \/ Rollback(p)

Spec == Init /\ [][Next]_vars

-----------------------------------------------------------------------------
(* Properties.                                                             *)

\* Every variable has its shape.
TypeOK ==
    /\ loan \in [Loans -> LoanRow]
    /\ inst \in [Instalments -> InstalmentRow]
    /\ held \in [Instalments -> Legs]
    /\ received \in [Loans -> Int]
    /\ req \in [Requests -> Request]
    /\ raced \subseteq Loans

\* The ledger holds the repayment of a paid instalment, on the account it was
\* paid from, exactly once, and nothing of one that is unpaid, reversed or
\* deleted: "paid ones moved money through an account and their ledger rows must
\* keep matching them" (setInstalments), "a double click cannot pay the same
\* instalment twice" (payInstalment).
LedgerMatchesPaid ==
    \A i \in Instalments : held[i] = IF Paid(i) THEN Repayment(i, inst[i].paidFrom) ELSE Zero

\* A paid row leaves a schedule, or becomes unpaid, only when its payment is
\* reversed: replacing the schedule while somebody pays never takes it.
PaidRowsStay ==
    [][\A i \in Instalments :
          Paid(i) => \/ inst'[i] = inst[i]
                     \/ \E p \in Requests : req[p].inst = i /\ CommitReverse(p)]_vars

\* "The status can never sit at active on a loan that is fully repaid"
\* (payInstalment), unless a request was overtaken on it: two payments of the
\* last two rows made at once each count the other's row as unpaid.
ActiveMeansOwedUnlessRaced ==
    \A l \in Loans \ raced : loan[l].status = "active" => Unpaid(l) # {}

\* A removed loan leaves no money behind, neither what was borrowed nor a
\* repayment that explains nothing (remove: "removing the loan would leave the
\* ledger rows explaining nothing"), unless a request was overtaken on it.
RemovedLeavesNothingUnlessRaced ==
    \A l \in Loans \ raced :
        loan[l].deleted => received[l] = 0 /\ \A i \in Schedule(l) : held[i] = Zero

\* A payment that settles its loan, and was not overtaken, leaves no row unpaid
\* (payInstalment counts what remains after its claim).
SettlesOnlyWhenRepaid ==
    [][\A p \in Requests, l \in Loans :
          CommitPay(p) /\ req[p].loan = l /\ req[p].write = "settled" /\ ~req[p].stale
              => Unpaid(l)' = {}]_vars

\* Until a request is overtaken on it, a loan is closed exactly when it is repaid and
\* leaves nothing behind when it is removed (payInstalment, remove).
LoanHoldsUnlessRaced == ActiveMeansOwedUnlessRaced /\ RemovedLeavesNothingUnlessRaced
=============================================================================
