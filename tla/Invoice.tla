------------------------------ MODULE Invoice ------------------------------
(***************************************************************************)
(* Invoices, their lines, and the payments made against them, by           *)
(* concurrent requests.  The status of an invoice is derived from its      *)
(* payments (recalcInvoiceStatus) by every request that changes one.  What *)
(* a payment does to the ledger is in Ledger.                              *)
(*                                                                         *)
(* As in Ledger, an action is a statement of a READ COMMITTED transaction  *)
(* and what a request wrote appears when it commits; the request itself    *)
(* reads its own rows before that.  Lines are written and deleted a whole  *)
(* payload at a time, so a sheet stands for the lines of one payload.      *)
(***************************************************************************)
EXTENDS Integers, Sequences, FiniteSets, Functions

CONSTANTS Requests,
          Invoices, Payments, Sheets,   \* ids
          SheetSum,     \* SheetSum[s]: what the lines of s amount to
          Amounts,      \* amounts a payment may have
          Adjustments,  \* tax minus discount
          CreatedAs,    \* the statuses createInvoice may be sent
          SetTo,        \* the statuses updateInvoice may be sent
          NoInvoice, NoPayment, NoSheet

Statuses  == {"draft", "sent", "partially_paid", "paid", "overdue", "cancelled"}
Preserved == {"draft", "cancelled"}

ASSUME InvoiceAssumption ==
    /\ IsFiniteSet(Payments) /\ IsFiniteSet(Sheets)
    /\ SheetSum \in [Sheets -> Nat]
    /\ Amounts \subseteq Nat \ {0}
    /\ Adjustments \subseteq Int
    /\ CreatedAs \subseteq Statuses /\ SetTo \subseteq Statuses
    /\ NoInvoice \notin Invoices /\ NoPayment \notin Payments /\ NoSheet \notin Sheets

VARIABLES invoice,  \* invoice[v]: the row of v
          sheet,    \* sheet[s]: [state, invoice]
          payment,  \* payment[k]: [state, invoice, amount]
          req,      \* req[p]: what request p is doing
          raced     \* ghost: invoices written by a request that another one's
                    \* commit on the same invoice had overtaken

vars == <<invoice, sheet, payment, req, raced>>

-----------------------------------------------------------------------------
NoRow == [state |-> "none", status |-> "draft", subtotal |-> 0, adjust |-> 0, total |-> 0]
InvoiceRow == [state : {"none", "live", "deleted"}, status : Statuses,
               subtotal : Nat, adjust : Int, total : Nat]

NoLines  == [state |-> "none", invoice |-> NoInvoice]
SheetRow == [state : {"none", "there"}, invoice : Invoices \cup {NoInvoice}]

Unpaid     == [state |-> "none", invoice |-> NoInvoice, amount |-> 0]
PaymentRow == [state : {"none", "live", "deleted"}, invoice : Invoices \cup {NoInvoice},
               amount : Nat]

Idle == [pc |-> "idle", op |-> "none",
         inv |-> NoInvoice, pay |-> NoPayment, sheet |-> NoSheet,
         drop |-> {},         \* sheets found, then deleted, by it
         new |-> NoRow,       \* the columns updateInvoice will write
         status |-> "keep",   \* the status it was sent, or has derived
         give |-> Unpaid,     \* the payment row it will write or has written
         move |-> FALSE,      \* whether the payload names an invoice
         left |-> <<>>,       \* invoices still to be recalculated
         seen |-> NoRow,      \* the invoice recalcInvoiceStatus has read
         wrote |-> [v \in Invoices |-> NoRow],   \* rows it has written and holds
         stale |-> FALSE]

PCs == {"idle", "findLines", "replaceLines", "writeInvoice", "countPayments", "deleteInvoice",
        "writePayment", "recalc", "sum", "status", "commit"}
Ops == {"none", "updateInvoice", "deleteInvoice", "createPayment", "updatePayment",
        "deletePayment"}

Request == [pc : PCs, op : Ops, inv : Invoices \cup {NoInvoice},
            pay : Payments \cup {NoPayment}, sheet : Sheets \cup {NoSheet},
            drop : SUBSET Sheets, new : InvoiceRow, status : Statuses \cup {"keep"},
            give : PaymentRow, move : BOOLEAN, left : Seq(Invoices), seen : InvoiceRow,
            wrote : [Invoices -> InvoiceRow], stale : BOOLEAN]

-----------------------------------------------------------------------------
(* What a statement of p reads: the committed rows, and its own.           *)

Written(p, v) == req[p].wrote[v].state # "none"
PaymentWritten(p) ==
    req[p].op = "createPayment" \/ (req[p].pay # NoPayment /\ req[p].pc # "writePayment")

InvoiceSeen(p, v) == IF Written(p, v) THEN req[p].wrote[v] ELSE invoice[v]
PaymentSeen(p, k) == IF req[p].pay = k /\ PaymentWritten(p) THEN req[p].give ELSE payment[k]

\* The rows p waits for.
InvoiceFree(p, v) == \A q \in Requests \ {p} : ~Written(q, v)
PaymentFree(p, k) == \A q \in Requests \ {p} : req[q].pay = k => ~PaymentWritten(q)
SheetFree(p, s) ==
    \A q \in Requests \ {p} : s \in req[q].drop => req[q].pc \in {"findLines", "replaceLines"}

Live(v)       == invoice[v].state = "live"
LivePay(k)    == payment[k].state = "live"
LinesOf(v)    == {s \in Sheets : sheet[s] = [state |-> "there", invoice |-> v]}
\* Of deleted lines nothing is left: their sheet stands for others once nobody looks for it.
UnusedSheet(s) ==
    sheet[s] = NoLines /\ \A q \in Requests : req[q].sheet # s /\ s \notin req[q].drop

-----------------------------------------------------------------------------
Init == /\ invoice = [v \in Invoices |-> NoRow]
        /\ sheet = [s \in Sheets |-> NoLines]
        /\ payment = [k \in Payments |-> Unpaid]
        /\ req = [p \in Requests |-> Idle]
        /\ raced = {}

Unwritten   == UNCHANGED <<invoice, sheet, payment, raced>>

\* A bound: nothing new is begun once an invoice has been raced, since what
\* must hold of it is not promised any more.
WithinBound == raced = {}

Begin(p, r) == /\ req[p].pc = "idle" /\ WithinBound
               /\ req' = [req EXCEPT ![p] = r]
               /\ Unwritten
Goto(p, pc) == req' = [req EXCEPT ![p].pc = pc]
End(p)      == req' = [req EXCEPT ![p] = Idle]

-----------------------------------------------------------------------------
(* Invoices.                                                               *)

\* Lines, discount and tax give the total; one below zero is refused.
Priced(s, adjust, status) ==
    [state |-> "live", status |-> status, subtotal |-> SheetSum[s], adjust |-> adjust,
     total |-> SheetSum[s] + adjust]

\* Everything it writes is new: nobody waits for it or sees a part.
CreateInvoice(v) ==
    /\ invoice[v].state = "none"
    /\ \E s \in Sheets, adjust \in Adjustments, status \in CreatedAs :
          /\ UnusedSheet(s)
          /\ SheetSum[s] + adjust >= 0
          /\ invoice' = [invoice EXCEPT ![v] = Priced(s, adjust, status)]
          /\ sheet' = [sheet EXCEPT ![s] = [state |-> "there", invoice |-> v]]
    /\ UNCHANGED <<payment, req, raced>>

UpdateInvoice(p) ==
    \E v \in Invoices, s \in Sheets \cup {NoSheet}, adjust \in Adjustments,
       status \in SetTo \cup {"keep"} :
        LET subtotal == IF s = NoSheet THEN invoice[v].subtotal ELSE SheetSum[s] IN
        /\ Live(v)
        /\ s # NoSheet => UnusedSheet(s)
        /\ subtotal + adjust >= 0
        /\ Begin(p, [Idle EXCEPT !.pc = IF s = NoSheet THEN "writeInvoice" ELSE "findLines",
                                 !.op = "updateInvoice", !.inv = v, !.sheet = s,
                                 !.new = [state |-> "live", status |-> "draft",
                                          subtotal |-> subtotal, adjust |-> adjust,
                                          total |-> subtotal + adjust],
                                 !.status = status])

\* Mutant of FindLines: the new lines are added to the old ones.
FindNoLines(p) ==
    /\ req[p].pc = "findLines"
    /\ Goto(p, "replaceLines")
    /\ Unwritten

\* deleteMany finds the lines, waits for those another request has deleted, and
\* deletes the ones still there; createMany adds the new ones.
FindLines(p) ==
    /\ req[p].pc = "findLines"
    /\ req' = [req EXCEPT ![p].pc = "replaceLines", ![p].drop = LinesOf(req[p].inv)]
    /\ Unwritten

ReplaceLines(p) ==
    /\ req[p].pc = "replaceLines"
    /\ \A s \in req[p].drop : SheetFree(p, s)
    /\ req' = [req EXCEPT ![p].pc = "writeInvoice", ![p].drop = @ \cap LinesOf(req[p].inv)]
    /\ Unwritten

WriteInvoice(p) ==
    LET v == req[p].inv IN
    /\ req[p].pc = "writeInvoice"
    /\ InvoiceFree(p, v)
    /\ req' = [req EXCEPT
                  ![p].pc = "recalc", ![p].left = <<v>>, ![p].new = NoRow, ![p].status = "keep",
                  ![p].wrote[v] =
                      [invoice[v] EXCEPT
                          !.status = IF req[p].status = "keep" THEN @ ELSE req[p].status,
                          !.subtotal = req[p].new.subtotal, !.adjust = req[p].new.adjust,
                          !.total = req[p].new.total]]
    /\ Unwritten

DeleteInvoice(p) ==
    \E v \in Invoices :
        /\ Live(v)
        /\ Begin(p, [Idle EXCEPT !.pc = "countPayments", !.op = "deleteInvoice", !.inv = v])

PaidOn(v) == {k \in Payments : LivePay(k) /\ payment[k].invoice = v}

CountPayments(p) ==
    /\ req[p].pc = "countPayments"
    /\ IF PaidOn(req[p].inv) # {} THEN End(p) ELSE Goto(p, "deleteInvoice")
    /\ Unwritten

MarkDeleted(p) ==
    LET v == req[p].inv IN
    /\ req[p].pc = "deleteInvoice"
    /\ InvoiceFree(p, v)
    /\ req' = [req EXCEPT ![p].pc = "commit",
                          ![p].wrote[v] = [invoice[v] EXCEPT !.state = "deleted"]]
    /\ Unwritten

-----------------------------------------------------------------------------
(* Payments.                                                               *)

Listed(v) == IF v = NoInvoice THEN <<>> ELSE <<v>>

\* An invoice named in the payload has to be live (assertReferences).
Payable == {v \in Invoices : Live(v)} \cup {NoInvoice}

\* Where a request goes on with these invoices to recalculate.
Recalculating(r, left) ==
    [r EXCEPT !.left = left, !.pc = IF left = <<>> THEN "commit" ELSE "recalc"]

UnusedPayment(k) == payment[k].state = "none" /\ \A q \in Requests : req[q].pay # k

CreatePayment(p) ==
    \E k \in Payments, v \in Payable, n \in Amounts :
        /\ UnusedPayment(k)
        /\ Begin(p, Recalculating(
                        [Idle EXCEPT !.op = "createPayment", !.pay = k,
                                     !.give = [state |-> "live", invoice |-> v, amount |-> n]],
                        Listed(v)))

\* The amount not sent is the one that was read, and is written all the same.
UpdatePayment(p) ==
    \E k \in Payments, move \in BOOLEAN, n \in Amounts \cup {0} :
    \E v \in IF move THEN Payable ELSE {NoInvoice} :
        /\ LivePay(k)
        /\ Begin(p, [Idle EXCEPT !.pc = "writePayment", !.op = "updatePayment", !.pay = k,
                                 !.inv = payment[k].invoice, !.move = move,
                                 !.give = [state |-> "live", invoice |-> v,
                                           amount |-> IF n = 0 THEN payment[k].amount ELSE n]])

DeletePayment(p) ==
    \E k \in Payments :
        /\ LivePay(k)
        /\ Begin(p, [Idle EXCEPT !.pc = "writePayment", !.op = "deletePayment", !.pay = k,
                                 !.inv = payment[k].invoice])

PaymentRowOf(p) ==
    LET row == payment[req[p].pay] IN
    IF req[p].op = "deletePayment"
    THEN [row EXCEPT !.state = "deleted"]
    ELSE [row EXCEPT !.invoice = IF req[p].move THEN req[p].give.invoice ELSE @,
                     !.amount = req[p].give.amount]

\* The invoice it used to pay, then the one it now does.
Affected(old, now) == IF old = now THEN Listed(old) ELSE Listed(old) \o Listed(now)

\* A deletion has no second: it recalculates the invoice of the row it has read.
WritePayment(p) ==
    LET now == PaymentRowOf(p)
        pays == IF req[p].op = "deletePayment" THEN req[p].inv ELSE now.invoice IN
    /\ req[p].pc = "writePayment"
    /\ PaymentFree(p, req[p].pay)
    /\ req' = [req EXCEPT ![p] = Recalculating([@ EXCEPT !.give = now, !.move = FALSE],
                                              Affected(@.inv, pays))]
    /\ Unwritten

-----------------------------------------------------------------------------
(* recalcInvoiceStatus.                                                    *)

Advance(p) == req' = [req EXCEPT ![p] = Recalculating([@ EXCEPT !.seen = NoRow], Tail(@.left))]

\* Mutant of IsPreserved: a draft is recalculated as well.
OnlyCancelled(status) == status = "cancelled"

IsPreserved(status) == status \in Preserved

ReadInvoice(p) ==
    LET row == InvoiceSeen(p, Head(req[p].left)) IN
    /\ req[p].pc = "recalc"
    /\ IF IsPreserved(row.status) THEN Advance(p)
       ELSE req' = [req EXCEPT ![p].pc = "sum", ![p].seen = row]
    /\ Unwritten

\* Mutant of PaidTotal: a deleted payment is still counted.
PaidEver(p, v) ==
    SumFunction([k \in Payments |->
                    IF PaymentSeen(p, k).invoice = v THEN PaymentSeen(p, k).amount ELSE 0])

PaidTotal(p, v) ==
    SumFunction([k \in Payments |->
                    IF PaymentSeen(p, k).state = "live" /\ PaymentSeen(p, k).invoice = v
                    THEN PaymentSeen(p, k).amount ELSE 0])

Derived(paid, total) ==
    IF paid >= total /\ total > 0 THEN "paid"
    ELSE IF paid > 0 THEN "partially_paid"
    ELSE "sent"

SumPayments(p) ==
    LET next == Derived(PaidTotal(p, Head(req[p].left)), req[p].seen.total) IN
    /\ req[p].pc = "sum"
    /\ IF next = req[p].seen.status THEN Advance(p)
       ELSE req' = [req EXCEPT ![p].pc = "status", ![p].status = next]
    /\ Unwritten

\* By id alone, whatever the row has become since it was read.
WriteStatus(p) ==
    LET v == Head(req[p].left) IN
    /\ req[p].pc = "status"
    /\ InvoiceFree(p, v)
    /\ req' = [req EXCEPT
                  ![p] = Recalculating(
                             [@ EXCEPT !.wrote[v] = [InvoiceSeen(p, v) EXCEPT
                                                        !.status = req[p].status],
                                       !.seen = NoRow, !.status = "keep"],
                             Tail(@.left))]
    /\ Unwritten

-----------------------------------------------------------------------------
(* Commit and rollback.                                                    *)

\* The invoices a request has to do with: named, written, or paid by its payment.
Touches(p) ==
    {v \in Invoices : \/ v \in {req[p].inv, req[p].give.invoice}
                      \/ Written(p, v)
                      \/ req[p].pay # NoPayment /\ payment[req[p].pay].invoice = v}

\* Of its invoice a new payment has only seen that it is there, until it is
\* recalculated.
Outdates(p, q) ==
    /\ req[q].op = "createPayment" /\ req[q].pc = "recalc" => req[p].op = "deleteInvoice"
    /\ \/ Touches(q) \cap Touches(p) # {}
       \/ req[q].pay = req[p].pay /\ req[p].pay # NoPayment

EndAndOvertake(p) ==
    req' = [q \in Requests |->
               IF q = p THEN Idle
               ELSE IF Outdates(p, q) THEN [req[q] EXCEPT !.stale = TRUE]
               ELSE req[q]]

Commit(p) ==
    /\ req[p].pc = "commit"
    /\ invoice' = [v \in Invoices |-> InvoiceSeen(p, v)]
    /\ payment' = [k \in Payments |-> PaymentSeen(p, k)]
    /\ sheet' = [s \in Sheets |->
                    IF s \in req[p].drop THEN NoLines
                    ELSE IF s = req[p].sheet THEN [state |-> "there", invoice |-> req[p].inv]
                    ELSE sheet[s]]
    /\ raced' = IF req[p].stale THEN raced \cup Touches(p) ELSE raced
    /\ EndAndOvertake(p)

Rollback(p) == req[p].pc # "idle" /\ End(p) /\ Unwritten

-----------------------------------------------------------------------------
Next == \/ \E v \in Invoices : CreateInvoice(v)
        \/ \E p \in Requests :
              \/ UpdateInvoice(p) \/ DeleteInvoice(p)
              \/ CreatePayment(p) \/ UpdatePayment(p) \/ DeletePayment(p)
              \/ FindLines(p) \/ ReplaceLines(p) \/ WriteInvoice(p)
              \/ CountPayments(p) \/ MarkDeleted(p) \/ WritePayment(p)
              \/ ReadInvoice(p) \/ SumPayments(p) \/ WriteStatus(p)
              \/ Commit(p) \/ Rollback(p)

Spec == Init /\ [][Next]_vars

-----------------------------------------------------------------------------
(* Properties.                                                             *)

\* Every variable has its shape.
TypeOK ==
    /\ invoice \in [Invoices -> InvoiceRow]
    /\ sheet \in [Sheets -> SheetRow]
    /\ payment \in [Payments -> PaymentRow]
    /\ req \in [Requests -> Request]
    /\ raced \subseteq Invoices

PaidSoFar(v) == SumFunction([k \in Payments |-> IF k \in PaidOn(v) THEN payment[k].amount ELSE 0])

\* "Invoice status, derived from what has been paid rather than set by hand, so
\* a deleted payment cannot leave an invoice marked paid" (invoiceStatus.ts).
StatusFollows(v) ==
    Live(v) /\ invoice[v].status \notin Preserved
        => invoice[v].status = Derived(PaidSoFar(v), invoice[v].total)

\* That holds of every invoice on which no request was overtaken, as payments are
\* made, corrected, moved off and onto it and deleted while its total changes.
StatusFollowsUnlessRaced == \A v \in Invoices \ raced : StatusFollows(v)

\* "Totals are computed here from the line items" (invoice.service.ts): the
\* subtotal is the sum of the lines that are there, unless a request was
\* overtaken on the invoice.
SubtotalMatchesLinesUnlessRaced ==
    \A v \in Invoices \ raced :
        Live(v) => /\ invoice[v].subtotal = SumFunctionOnSet(SheetSum, LinesOf(v))
                   /\ invoice[v].total = invoice[v].subtotal + invoice[v].adjust

\* "Deleting one with money against it would detach the payment" (deleteInvoice):
\* a deleted invoice has no payment, unless a request was overtaken on it.
DeletedHasNoPaymentsUnlessRaced ==
    \A v \in Invoices \ raced : invoice[v].state = "deleted" => PaidOn(v) = {}

\* `draft' is "not sent yet; a payment must not send it" and `cancelled' is "a
\* decision that outlives payments" (invoiceStatus.ts): what a payment's request
\* commits, not overtaken, leaves both alone.
PaymentsNeverSend ==
    [][\A p \in Requests, v \in Invoices :
          Commit(p) /\ req[p].pay # NoPayment /\ ~req[p].stale
              /\ invoice[v].status \in Preserved
              => invoice'[v].status = invoice[v].status]_vars

\* Until a request is overtaken on it, what an invoice asks for is what its lines say,
\* and no payment is left to an invoice that is gone (updateInvoice, deleteInvoice).
InvoiceHoldsUnlessRaced == SubtotalMatchesLinesUnlessRaced /\ DeletedHasNoPaymentsUnlessRaced
=============================================================================
