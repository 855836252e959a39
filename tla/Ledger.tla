------------------------------- MODULE Ledger -------------------------------
(***************************************************************************)
(* The money ledger: every record that moves money (payments, expenses,    *)
(* team payouts, owner withdrawals, due transactions, shareholder          *)
(* distributions and currency exchanges), the accounts they move it on,    *)
(* and the append-only account_transactions table between them.            *)
(*                                                                         *)
(* Requests run concurrently, each in one READ COMMITTED transaction: a    *)
(* statement reads what is committed when it runs, a transaction's rows    *)
(* appear together when it commits, and a request that fails on the way    *)
(* leaves nothing.  There is one action per statement whose place between  *)
(* the statements of other requests can be told apart.                     *)
(*                                                                         *)
(* The rows of account_transactions are only ever appended, and what the   *)
(* code reads of them is a sum: per record and account (openPositions),    *)
(* per account (getAccountBalance), or whether an account has any.  So the *)
(* table is kept as `held', the sum per record and account, and `moved',   *)
(* the accounts that have a row.                                           *)
(***************************************************************************)
EXTENDS Integers, FiniteSets, Functions

CONSTANTS Requests,   \* concurrent requests
          Records,    \* ids of money records, of every table
          Accounts,
          Currency,   \* Currency[a]: the account's currency, fixed at creation
          Opened,     \* the accounts that exist at the start
          Opening,    \* Opening[a]: the account's opening balance
          Tables,     \* Tables[r]: the tables the id r may be drawn for
          Amounts,    \* Amounts[k]: amounts a payload for table k may carry
          Fees,       \* fees an exchange may carry
          Rates,      \* exchange rates a payload may carry
          NoRecord, NoAccount

\* The tables, by the sign their amount has in the ledger.
Income   == {"payment", "due_received"}
Outgoing == {"expense", "team_payout", "owner_withdrawal", "due_payment",
             "shareholder_distribution"}
Kinds    == Income \cup Outgoing \cup {"exchange"}

ASSUME LedgerAssumption ==
    /\ IsFiniteSet(Records)
    /\ Currency \in [Accounts -> {"USD", "BDT"}]
    /\ Opening \in [Accounts -> Int]
    /\ Opened \subseteq Accounts
    /\ Tables \in [Records -> SUBSET Kinds]
    /\ Amounts \in [Kinds -> SUBSET (Nat \ {0})]    \* zod: amounts are positive
    /\ Fees \subseteq Nat
    /\ Rates \subseteq Nat \ {0}
    /\ NoRecord \notin Records
    /\ NoAccount \notin Accounts

VARIABLES account,  \* account[a]: "none", "live" or "deleted"
          row,      \* row[r]: the record's own row
          held,     \* held[r][a]: sum of the ledger rows of r on a
          moved,    \* accounts with at least one ledger row
          req,      \* req[p]: what request p is doing
          raced     \* ghost: records written by a request that another
                    \* request's commit on the same record had overtaken

vars == <<account, row, held, moved, req, raced>>

-----------------------------------------------------------------------------
(* What a record says it moves: a signed amount per account.               *)

Legs == [Accounts -> Int]
Zero == [a \in Accounts |-> 0]
Touched(legs) == {a \in Accounts : legs[a] # 0}

CurrencyOf(k) == IF k = "payment" THEN "USD" ELSE "BDT"

Leg(k, a, n) ==
    [x \in Accounts |-> IF x # a THEN 0 ELSE IF k \in Income THEN n ELSE -n]

ExchangeLegs(from, to, n, fee, rate) ==
    [x \in Accounts |-> IF x = from THEN -n
                        ELSE IF x = to THEN (n - fee) * rate ELSE 0]

\* The legs a record of each table may have: one leg in the table's currency,
\* or both halves of an exchange.
ExchangePayloads ==
    {x \in Accounts \X Accounts \X Amounts["exchange"] \X Fees \X Rates :
        Currency[x[1]] = "USD" /\ Currency[x[2]] = "BDT" /\ x[4] < x[3]}

LegsOf ==
    [k \in Kinds |->
        IF k = "exchange"
        THEN {ExchangeLegs(x[1], x[2], x[3], x[4], x[5]) : x \in ExchangePayloads}
        ELSE {Leg(k, x[1], x[2]) :
                 x \in {y \in Accounts \X Amounts[k] : Currency[y[1]] = CurrencyOf(k)}}]

NoRow == [state |-> "none", kind |-> "none", legs |-> Zero]
Row   == [state : {"live", "deleted"}, kind : Kinds, legs : Legs]

Idle == [pc |-> "idle", op |-> "none", rec |-> NoRecord, acct |-> NoAccount,
         kind |-> "none", new |-> Zero, open |-> Zero, rewrite |-> FALSE, stale |-> FALSE]

PCs == {"idle", "assertAccount", "lockRow", "balance", "reverse", "insert",
        "updateRow", "commit", "count", "deleteAccount"}
Ops == {"none", "create", "update", "delete", "deleteAccount"}

Request == [pc : PCs, op : Ops, rec : Records \cup {NoRecord},
            acct : Accounts \cup {NoAccount}, kind : Kinds \cup {"none"},
            new : Legs, open : Legs, rewrite : BOOLEAN, stale : BOOLEAN]

-----------------------------------------------------------------------------
(* What the statements of the code read.                                   *)

\* reverseLedgerEntries nets every row of the record, earlier reversals
\* included; getAccountBalance sums the account over every record.
OpenPositions(r) == held[r]

GetAccountBalance(a) == Opening[a] + SumFunction([r \in Records |-> held[r][a]])

AssertAccount(a, currency)     == account[a] = "live" /\ Currency[a] = currency

Writes(p)  == req[p].op \in {"create", "update", "delete"}
Mutates(p) == req[p].op \in {"update", "delete"}
Inserts(p) == Touched(req[p].new) \cup Touched(req[p].open)

(***************************************************************************)
(* Locks, held until the transaction ends.  lockRow takes the account FOR  *)
(* UPDATE; an insert into account_transactions takes FOR KEY SHARE on the  *)
(* account its foreign key names, which FOR UPDATE excludes; the UPDATE of *)
(* a record's row locks that row.                                          *)
(***************************************************************************)
\* Mutant of HoldsForUpdate: createExchange without lockRow.
NoLock(p, a) == FALSE

HoldsForUpdate(p, a) ==
    /\ req[p].op = "create" /\ req[p].kind = "exchange"
    /\ req[p].acct = a
    /\ req[p].pc \in {"balance", "insert", "commit"}

\* Mutant of HoldsKeyShare: the exchange's own row, whose foreign key shares
\* the account, is inserted before lockRow asks for the account.
SharedBeforeLocked(p, a) ==
    /\ Writes(p) /\ req[p].rewrite
    /\ req[p].pc \in {"lockRow", "updateRow", "commit"}
    /\ a \in Inserts(p)

HoldsKeyShare(p, a) ==
    /\ Writes(p) /\ req[p].rewrite
    /\ req[p].pc \in {"updateRow", "commit"}
    /\ a \in Inserts(p)

HoldsRow(p, r) == Mutates(p) /\ req[p].pc = "commit" /\ req[p].rec = r

\* Mutant of AccountUnlocked: the lock taken is one that key-share locks do not
\* exclude (FOR NO KEY UPDATE).
NoKeyUnlocked(p, a) == \A q \in Requests \ {p} : ~HoldsForUpdate(q, a)

AccountUnlocked(p, a) ==
    \A q \in Requests \ {p} : ~HoldsForUpdate(q, a) /\ ~HoldsKeyShare(q, a)

-----------------------------------------------------------------------------
Init == /\ account = [a \in Accounts |-> IF a \in Opened THEN "live" ELSE "none"]
        /\ row = [r \in Records |-> NoRow]
        /\ held = [r \in Records |-> Zero]
        /\ moved = {}
        /\ req = [p \in Requests |-> Idle]
        /\ raced = {}

Goto(p, pc) == req' = [req EXCEPT ![p].pc = pc]
End(p)      == req' = [req EXCEPT ![p] = Idle]

-----------------------------------------------------------------------------
(* Accounts.  The unique index on (organization, name) makes creation one  *)
(* step; deletion is three statements outside any transaction.             *)

CreateAccount(a) ==
    /\ account[a] = "none"
    /\ account' = [account EXCEPT ![a] = "live"]
    /\ UNCHANGED <<row, held, moved, req, raced>>

DeleteAccount(p, a) ==
    /\ req[p].pc = "idle"
    /\ account[a] = "live"
    /\ req' = [req EXCEPT ![p] = [Idle EXCEPT !.pc = "count", !.op = "deleteAccount",
                                              !.acct = a]]
    /\ UNCHANGED <<account, row, held, moved, raced>>

CountMovements(p) ==
    /\ req[p].pc = "count"
    /\ IF req[p].acct \in moved THEN End(p) ELSE Goto(p, "deleteAccount")
    /\ UNCHANGED <<account, row, held, moved, raced>>

MarkAccountDeleted(p) ==
    /\ req[p].pc = "deleteAccount"
    /\ \A q \in Requests : ~HoldsForUpdate(q, req[p].acct)
    /\ account' = [account EXCEPT ![req[p].acct] = "deleted"]
    /\ End(p)
    /\ UNCHANGED <<row, held, moved, raced>>

-----------------------------------------------------------------------------
(* Recording money.  A new id is a fresh uuid.                             *)

Fresh(r) == row[r].state = "none" /\ \A p \in Requests : req[p].rec # r

BeginCreate(p, r, k, a, legs, pc) ==
    /\ req[p].pc = "idle"
    /\ Fresh(r) /\ k \in Tables[r]
    /\ req' = [req EXCEPT ![p] = [Idle EXCEPT !.pc = pc, !.op = "create", !.rec = r,
                                              !.acct = a, !.kind = k, !.new = legs,
                                              !.rewrite = TRUE]]
    /\ UNCHANGED <<account, row, held, moved, raced>>

CreateRecord(p, k) ==
    \E r \in Records, a \in Accounts, n \in Amounts[k] :
        /\ AssertAccount(a, CurrencyOf(k))
        /\ BeginCreate(p, r, k, a, Leg(k, a, n), "insert")

CreatePayment(p)        == CreateRecord(p, "payment")
CreateExpense(p)        == CreateRecord(p, "expense")
CreatePayout(p)         == CreateRecord(p, "team_payout")
CreateWithdrawal(p)     == CreateRecord(p, "owner_withdrawal")
CreateDueTransaction(p) == CreateRecord(p, "due_received") \/ CreateRecord(p, "due_payment")
CreateDistribution(p)   == CreateRecord(p, "shareholder_distribution")

CreateExchange(p) ==
    \E r \in Records, from, to \in Accounts, n \in Amounts["exchange"], fee \in Fees,
       rate \in Rates :
        /\ fee < n
        /\ AssertAccount(from, "USD")
        /\ AssertAccount(to, "BDT")
        /\ BeginCreate(p, r, "exchange", from, ExchangeLegs(from, to, n, fee, rate), "lockRow")

LockRow(p) ==
    /\ req[p].pc = "lockRow"
    /\ AccountUnlocked(p, req[p].acct)
    /\ IF account[req[p].acct] = "live" THEN Goto(p, "balance") ELSE End(p)
    /\ UNCHANGED <<account, row, held, moved, raced>>

CheckBalance(p) ==
    /\ req[p].pc = "balance"
    /\ IF -req[p].new[req[p].acct] > GetAccountBalance(req[p].acct)
       THEN End(p)
       ELSE Goto(p, "insert")
    /\ UNCHANGED <<account, row, held, moved, raced>>

-----------------------------------------------------------------------------
(* Editing and deleting.  The record is read first and nothing is claimed: *)
(* every write that follows is by id.                                      *)

\* A bound: no new edit of a record that has been raced, whose ledger rows
\* could otherwise drift without end.
WithinBound(r) == r \notin raced

BeginMutation(p, r, k, op, a, legs, rewrite, pc) ==
    /\ req[p].pc = "idle"
    /\ row[r].state = "live" /\ row[r].kind = k
    /\ WithinBound(r)
    /\ req' = [req EXCEPT ![p] = [Idle EXCEPT !.pc = pc, !.op = op, !.rec = r,
                                              !.acct = a, !.kind = k, !.new = legs,
                                              !.rewrite = rewrite]]
    /\ UNCHANGED <<account, row, held, moved, raced>>

\* Mutant of LedgerChanged: an edit that only moves the record to another
\* account is taken for an edit of a note.
SameTotal(r, legs) == SumFunction(legs) # SumFunction(row[r].legs)

\* The account or the amount differs from the row as the request read it.  A
\* changed date rewrites the ledger too, so an equal pair may be rewritten.
LedgerChanged(r, legs) == legs # row[r].legs

UpdateRecord(p, k) ==
    \E r \in Records, a \in Accounts, n \in Amounts[k], dateChanged \in BOOLEAN :
        BeginMutation(p, r, k, "update", a, Leg(k, a, n),
                      dateChanged \/ LedgerChanged(r, Leg(k, a, n)), "assertAccount")

UpdatePayment(p)    == UpdateRecord(p, "payment")
UpdateExpense(p)    == UpdateRecord(p, "expense")
UpdatePayout(p)     == UpdateRecord(p, "team_payout")
UpdateWithdrawal(p) == UpdateRecord(p, "owner_withdrawal")

AssertTargetAccount(p) ==
    /\ req[p].pc = "assertAccount"
    /\ IF ~AssertAccount(req[p].acct, CurrencyOf(req[p].kind)) THEN End(p)
       ELSE IF req[p].rewrite THEN Goto(p, "reverse") ELSE Goto(p, "updateRow")
    /\ UNCHANGED <<account, row, held, moved, raced>>

DeleteRecord(p, k) ==
    \E r \in Records : BeginMutation(p, r, k, "delete", NoAccount, Zero, TRUE, "reverse")

DeletePayment(p)        == DeleteRecord(p, "payment")
DeleteExpense(p)        == DeleteRecord(p, "expense")
DeletePayout(p)         == DeleteRecord(p, "team_payout")
DeleteWithdrawal(p)     == DeleteRecord(p, "owner_withdrawal")
DeleteDueTransaction(p) == DeleteRecord(p, "due_received") \/ DeleteRecord(p, "due_payment")
DeleteDistribution(p)   == DeleteRecord(p, "shareholder_distribution")
DeleteExchange(p)       == DeleteRecord(p, "exchange")

ReverseLedgerEntries(p) ==
    /\ req[p].pc = "reverse"
    /\ req' = [req EXCEPT ![p].pc = "insert", ![p].open = OpenPositions(req[p].rec)]
    /\ UNCHANGED <<account, row, held, moved, raced>>

\* The inserts: the negated positions, then the fresh entry.
WriteLedgerEntries(p) ==
    /\ req[p].pc = "insert"
    /\ \A a \in Inserts(p), q \in Requests \ {p} : ~HoldsForUpdate(q, a)
    /\ Goto(p, IF Mutates(p) THEN "updateRow" ELSE "commit")
    /\ UNCHANGED <<account, row, held, moved, raced>>

UpdateRow(p) ==
    /\ req[p].pc = "updateRow"
    /\ \A q \in Requests \ {p} : ~HoldsRow(q, req[p].rec)
    /\ Goto(p, "commit")
    /\ UNCHANGED <<account, row, held, moved, raced>>

-----------------------------------------------------------------------------
(* Commit: the rows of the transaction appear, its locks go.               *)

Rewritten(p) == [a \in Accounts |-> held[req[p].rec][a] - req[p].open[a] + req[p].new[a]]

\* Every other request that has already read the record is now behind it.
EndAndOvertake(p) ==
    req' = [q \in Requests |->
               IF q = p THEN Idle
               ELSE IF Mutates(q) /\ req[q].rec = req[p].rec
                    THEN [req[q] EXCEPT !.stale = TRUE]
                    ELSE req[q]]

Commit(p, newRow) ==
    /\ req[p].pc = "commit"
    /\ row' = [row EXCEPT ![req[p].rec] = newRow]
    /\ held' = IF req[p].rewrite THEN [held EXCEPT ![req[p].rec] = Rewritten(p)] ELSE held
    /\ moved' = IF req[p].rewrite THEN moved \cup Inserts(p) ELSE moved
    /\ raced' = IF req[p].stale THEN raced \cup {req[p].rec} ELSE raced
    /\ EndAndOvertake(p)
    /\ UNCHANGED account

CommitCreate(p) ==
    req[p].op = "create" /\ Commit(p, [state |-> "live", kind |-> req[p].kind, legs |-> req[p].new])

\* The UPDATE names its columns: deleted_at is not one of them.
CommitUpdate(p) ==
    req[p].op = "update" /\ Commit(p, [row[req[p].rec] EXCEPT !.legs = req[p].new])

CommitDelete(p) ==
    req[p].op = "delete" /\ Commit(p, [row[req[p].rec] EXCEPT !.state = "deleted"])

\* A later statement fails, the connection is lost or the interactive
\* transaction times out: nothing of it remains.
Rollback(p) ==
    /\ req[p].pc # "idle"
    /\ End(p)
    /\ UNCHANGED <<account, row, held, moved, raced>>

-----------------------------------------------------------------------------
Start(p) ==
    \/ \E a \in Accounts : DeleteAccount(p, a)
    \/ CreatePayment(p) \/ CreateExpense(p) \/ CreatePayout(p) \/ CreateWithdrawal(p)
    \/ CreateDueTransaction(p) \/ CreateDistribution(p) \/ CreateExchange(p)
    \/ UpdatePayment(p) \/ UpdateExpense(p) \/ UpdatePayout(p) \/ UpdateWithdrawal(p)
    \/ DeletePayment(p) \/ DeleteExpense(p) \/ DeletePayout(p) \/ DeleteWithdrawal(p)
    \/ DeleteDueTransaction(p) \/ DeleteDistribution(p) \/ DeleteExchange(p)

Continue(p) ==
    \/ CountMovements(p) \/ MarkAccountDeleted(p)
    \/ LockRow(p) \/ CheckBalance(p)
    \/ AssertTargetAccount(p) \/ ReverseLedgerEntries(p) \/ WriteLedgerEntries(p) \/ UpdateRow(p)
    \/ CommitCreate(p) \/ CommitUpdate(p) \/ CommitDelete(p)

Next == \/ \E a \in Accounts : CreateAccount(a)
        \/ \E p \in Requests : Start(p) \/ Continue(p) \/ Rollback(p)

\* The event loop runs every request that can run, and PostgreSQL grants a
\* lock in the order it was asked for, so a request that is again and again
\* able to proceed does.  Nothing says that a request is ever made.
Spec == Init /\ [][Next]_vars
FairSpec == Spec /\ \A p \in Requests : SF_vars(Continue(p))

-----------------------------------------------------------------------------
(* Properties.                                                             *)

\* Every variable has its shape, and a record's legs are ones its table
\* allows: a USD record never sits on a BDT account, money in is positive
\* and money out negative (assertAccount, writeLedgerEntry).
TypeOK ==
    /\ account \in [Accounts -> {"none", "live", "deleted"}]
    /\ row \in [Records -> Row \cup {NoRow}]
    /\ held \in [Records -> Legs]
    /\ moved \subseteq Accounts
    /\ req \in [Requests -> Request]
    /\ raced \subseteq Records
    /\ \A r \in Records : row[r] # NoRow => row[r].legs \in LegsOf[row[r].kind]

\* What a record should hold on each account, as scripts/ledgerDrift.ts
\* computes it: what it says, or nothing once deleted.
Expected(r) == IF row[r].state = "live" THEN row[r].legs ELSE Zero

\* The ledger holds exactly what a record says as long as no edit or delete
\* of it committed after another one had read it and was overtaken; requests
\* on other records, account deletions and rollbacks may interleave freely.
NoDriftUnlessRaced == \A r \in Records \ raced : held[r] = Expected(r)

\* The balance an exchange was checked against is still there when the
\* exchange commits: no other request spends it in between (lockRow).
ExchangeNeverOverdraws ==
    [][\A p \in Requests, a \in Accounts :
          (req[p].kind = "exchange" /\ req[p].acct = a /\ CommitCreate(p))
             => GetAccountBalance(a)' >= 0]_vars

\* While an exchange holds its account, nobody moves the balance it was or
\* will be checked against ("two exchanges at once cannot both spend the same
\* balance", createExchange).
LockedBalanceStable ==
    [][\A p \in Requests, a \in Accounts :
          HoldsForUpdate(p, a) /\ HoldsForUpdate(p, a)'
             => GetAccountBalance(a)' = GetAccountBalance(a)]_vars

\* No request waits for ever: the account locks, the key-share locks and the
\* row locks are never taken in a circle.
EveryRequestEnds == \A p \in Requests : req[p].pc # "idle" ~> req[p].pc = "idle"
=============================================================================
