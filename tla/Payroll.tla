------------------------------ MODULE Payroll ------------------------------
(***************************************************************************)
(* A month's salaries: opening a run with a line per member, setting its   *)
(* lines, paying it and discarding it, by concurrent requests.  As in      *)
(* Ledger, an action is a statement of a READ COMMITTED transaction and    *)
(* what a request wrote appears when it commits.                           *)
(*                                                                         *)
(* Paying creates a payout and its ledger row per line; they are kept as   *)
(* `payouts', the sum per run and person, which outlives the run.  What    *)
(* becomes of a payout on its own screen is in Ledger.                     *)
(***************************************************************************)
EXTENDS Naturals, FiniteSets

CONSTANTS Requests,
          Runs,       \* ids of payroll runs
          Months,
          Members,    \* the active members, who get a line on every run
          Nets,       \* what a line may be set to: gross minus deductions
          NoRun, NoMonth

ASSUME PayrollAssumption ==
    /\ Nets \subseteq Nat      \* a negative wage is refused
    /\ NoRun \notin Runs
    /\ NoMonth \notin Months

VARIABLES run,      \* run[r]: [state, month]
          net,      \* net[r][u]: the line of u on r
          payouts,  \* payouts[r][u]: payouts made to u by completing r
          req,      \* req[p]: what request p is doing
          raced     \* ghost: months whose run was paid after a request to discard
                    \* it had seen a draft, and discarded then

vars == <<run, net, payouts, req, raced>>

-----------------------------------------------------------------------------
Wages   == [Members -> Nat]
Nothing == [u \in Members |-> 0]

NoSuchRun == [state |-> "none", month |-> NoMonth]
RunRow    == [state : {"none", "draft", "completed", "discarded"}, month : Months \cup {NoMonth}]

Idle == [pc |-> "idle", op |-> "none", run |-> NoRun, month |-> NoMonth,
         wages |-> Nothing,   \* the lines it will write, or pay
         named |-> {},        \* whose lines its payload names
         stale |-> FALSE]

PCs == {"idle", "insert", "lock", "check", "delete", "commit"}
Ops == {"none", "create", "set", "complete", "remove"}

Request == [pc : PCs, op : Ops, run : Runs \cup {NoRun}, month : Months \cup {NoMonth},
            wages : Wages, named : SUBSET Members, stale : BOOLEAN]

Standing(r) == run[r].state \in {"draft", "completed"}
Draft(r)    == run[r].state = "draft"
RunOf(m)    == {r \in Runs : Standing(r) /\ run[r].month = m}

-----------------------------------------------------------------------------
(* Locks, held until the transaction ends: lockRow(payrollRun), and the    *)
(* row a DELETE removes.                                                   *)

\* Mutant of HoldsRun: setItems and complete without lockRow.
HoldsDeleted(p, r) ==
    req[p].run = r /\ req[p].op = "remove" /\ req[p].pc = "commit"

HoldsRun(p, r) ==
    /\ req[p].run = r
    /\ \/ req[p].op \in {"set", "complete"} /\ req[p].pc \in {"check", "commit"}
       \/ req[p].op = "remove" /\ req[p].pc = "commit"

Free(p, r) == \A q \in Requests \ {p} : ~HoldsRun(q, r)

-----------------------------------------------------------------------------
Init == /\ run = [r \in Runs |-> NoSuchRun]
        /\ net = [r \in Runs |-> Nothing]
        /\ payouts = [r \in Runs |-> Nothing]
        /\ req = [p \in Requests |-> Idle]
        /\ raced = {}

RowsStay    == UNCHANGED <<run, net, payouts, raced>>
Begin(p, r) == req[p].pc = "idle" /\ req' = [req EXCEPT ![p] = r] /\ RowsStay
Goto(p, pc) == req' = [req EXCEPT ![p].pc = pc]
End(p)      == req' = [req EXCEPT ![p] = Idle]

Unused(r) == run[r].state = "none" /\ \A p \in Requests : req[p].run # r

-----------------------------------------------------------------------------
(* The requests.                                                           *)

\* Every active member gets a line at zero.
CreateRun(p) ==
    \E m \in Months :
        /\ RunOf(m) = {}
        /\ Begin(p, [Idle EXCEPT !.pc = "insert", !.op = "create", !.month = m])

\* The unique index waits for whoever is inserting or deleting the month's run.
InsertRun(p) ==
    LET m == req[p].month IN
    /\ req[p].pc = "insert"
    /\ \A q \in Requests \ {p} :
          req[q].month = m /\ req[q].pc = "commit" => req[q].op \notin {"create", "remove"}
    /\ IF RunOf(m) # {} THEN End(p)
       ELSE \E r \in Runs : Unused(r) /\ req' = [req EXCEPT ![p].pc = "commit", ![p].run = r]
    /\ RowsStay

\* The lines that the payload names; one of another run is refused.
SetItems(p) ==
    \E r \in Runs, named \in SUBSET Members, wages \in [Members -> Nets] :
        /\ Standing(r)
        /\ Begin(p, [Idle EXCEPT !.pc = "lock", !.op = "set", !.run = r, !.month = run[r].month,
                                 !.named = named, !.wages = wages])

Complete(p) ==
    \E r \in Runs :
        /\ Standing(r)
        /\ Begin(p, [Idle EXCEPT !.pc = "lock", !.op = "complete", !.run = r,
                                 !.month = run[r].month])

\* Mutant of Removable: a run that has been paid may be discarded as well.
RemovableAnyway(r) == Standing(r)

Removable(r) == Draft(r)

\* The status is read before the transaction, and not again.
RemoveRun(p) ==
    \E r \in Runs :
        /\ Removable(r)
        /\ Begin(p, [Idle EXCEPT !.pc = "delete", !.op = "remove", !.run = r,
                                 !.month = run[r].month])

-----------------------------------------------------------------------------
LockRun(p) ==
    /\ req[p].pc = "lock"
    /\ Free(p, req[p].run)
    /\ IF Standing(req[p].run) THEN Goto(p, "check") ELSE End(p)
    /\ RowsStay

NewLines(p) ==
    [u \in Members |-> IF u \in req[p].named THEN req[p].wages[u] ELSE net[req[p].run][u]]

\* What is paid is what the lines say now; with every line at zero nothing is.
CheckDraft(p) ==
    LET r == req[p].run IN
    /\ req[p].pc = "check"
    /\ IF ~Draft(r) \/ (req[p].op = "complete" /\ net[r] = Nothing)
       THEN End(p)
       ELSE req' = [req EXCEPT
                       ![p].pc = "commit",
                       ![p].wages = IF req[p].op = "complete" THEN net[r] ELSE NewLines(p)]
    /\ RowsStay

\* By id alone.  A run that is gone makes it fail.
DeleteRun(p) ==
    /\ req[p].pc = "delete"
    /\ Free(p, req[p].run)
    /\ IF Standing(req[p].run) THEN Goto(p, "commit") ELSE End(p)
    /\ RowsStay

-----------------------------------------------------------------------------
(* Commit and rollback.                                                    *)

\* Whoever was about to discard a run that is paid now is behind it.
EndAndOvertake(p) ==
    req' = [q \in Requests |->
               IF q = p THEN Idle
               ELSE IF req[p].op = "complete" /\ req[q].op = "remove" /\ req[q].run = req[p].run
                    THEN [req[q] EXCEPT !.stale = TRUE]
                    ELSE req[q]]

Commit(p, op) == req[p].op = op /\ req[p].pc = "commit" /\ EndAndOvertake(p)

CommitCreate(p) ==
    /\ Commit(p, "create")
    /\ run' = [run EXCEPT ![req[p].run] = [state |-> "draft", month |-> req[p].month]]
    /\ UNCHANGED <<net, payouts, raced>>

CommitSet(p) ==
    /\ Commit(p, "set")
    /\ net' = [net EXCEPT ![req[p].run] = req[p].wages]
    /\ UNCHANGED <<run, payouts, raced>>

CommitComplete(p) ==
    LET r == req[p].run IN
    /\ Commit(p, "complete")
    /\ run' = [run EXCEPT ![r].state = "completed"]
    /\ payouts' = [payouts EXCEPT ![r] = [u \in Members |-> payouts[r][u] + req[p].wages[u]]]
    /\ UNCHANGED <<net, raced>>

\* The lines go with the run, the payouts stay.
CommitRemove(p) ==
    /\ Commit(p, "remove")
    /\ run' = [run EXCEPT ![req[p].run].state = "discarded"]
    /\ net' = [net EXCEPT ![req[p].run] = Nothing]
    /\ raced' = IF req[p].stale THEN raced \cup {req[p].month} ELSE raced
    /\ UNCHANGED payouts

Rollback(p) == req[p].pc # "idle" /\ End(p) /\ RowsStay

-----------------------------------------------------------------------------
Next == \E p \in Requests :
            \/ CreateRun(p) \/ SetItems(p) \/ Complete(p) \/ RemoveRun(p)
            \/ InsertRun(p) \/ LockRun(p) \/ CheckDraft(p) \/ DeleteRun(p)
            \/ CommitCreate(p) \/ CommitSet(p) \/ CommitComplete(p) \/ CommitRemove(p)
            \/ Rollback(p)

Spec == Init /\ [][Next]_vars

-----------------------------------------------------------------------------
(* Properties.                                                             *)

\* Every variable has its shape.
TypeOK ==
    /\ run \in [Runs -> RunRow]
    /\ net \in [Runs -> Wages]
    /\ payouts \in [Runs -> Wages]
    /\ req \in [Requests -> Request]
    /\ raced \subseteq Months

\* "A completed run's payouts are what people were paid, and must keep matching
\* it" (setItems): its lines and its payouts agree, and each was paid once, "two
\* clicks on pay must not both see a draft" (complete).
PayoutsMatchRun ==
    \A r \in Runs : run[r].state = "completed" => payouts[r] = net[r]

\* "The guard that stops a month being paid twice" (complete): of the runs there
\* ever were for a month, one has paid anybody.
PaidBy(m) == {r \in Runs : run[r].month = m /\ payouts[r] # Nothing}

MonthPaidOnce == \A m \in Months : Cardinality(PaidBy(m)) <= 1

\* The same of every month whose run was not paid while a request was discarding it.
MonthPaidOnceUnlessRaced == \A m \in Months \ raced : Cardinality(PaidBy(m)) <= 1
=============================================================================
