----------------------------- MODULE InvoiceProofs -----------------------------
(***************************************************************************)
(* Proofs about Invoice, for any requests, invoices, payments and sheets.  *)
(***************************************************************************)
EXTENDS Invoice, SumTheorems, SequenceTheorems, TLAPS

\* The invariant says of each request what it is about (Shape), that what is new to it is
\* nobody else's (Apart), and, unless another one's commit has overtaken it, that what it
\* has read is still so (Fresh).  All three speak of a request by its record.

Changing == {"findLines", "replaceLines", "writeInvoice"}
Settling == {"recalc", "sum", "status", "commit"}

\* The invoices that a request names: it writes no others.
Named(r) == {r.inv, r.give.invoice} \cap Invoices

\* Those it has still to recalculate, at most two.
Lists(N) == {<<>>} \cup {<<a>> : a \in N} \cup {<<a, b>> : a, b \in N}
Todo(r)  == Range(r.left)

Wrote(r, v) == r.wrote[v].state # "none"

\* What a request reads, by its record (InvoiceSeen, PaymentSeen, PaidTotal).
RowBy(r, v) == IF Wrote(r, v) THEN r.wrote[v] ELSE invoice[v]
HasWrittenPayment(r) == r.op = "createPayment" \/ (r.pay # NoPayment /\ r.pc # "writePayment")
PayBy(r, k) == IF r.pay = k /\ HasWrittenPayment(r) THEN r.give ELSE payment[k]
PaidBy(r, v) ==
    SumFunction([k \in Payments |->
                    IF PayBy(r, k).state = "live" /\ PayBy(r, k).invoice = v
                    THEN PayBy(r, k).amount ELSE 0])

UpdatesInvoice(r) ==
    /\ r.pc \in Changing \cup Settling
    /\ r.inv \in Invoices /\ r.pay = NoPayment /\ r.give = Unpaid
    /\ r.sheet = NoSheet => r.pc \notin {"findLines", "replaceLines"} /\ r.drop = {}
    /\ r.pc \in Settling => Wrote(r, r.inv)
DeletesInvoice(r) ==
    /\ r.pc \in {"countPayments", "deleteInvoice", "commit"}
    /\ r.inv \in Invoices /\ r.pay = NoPayment /\ r.give = Unpaid /\ r.sheet = NoSheet
    /\ r.pc = "commit" => r.wrote[r.inv].state = "deleted"
CreatesPayment(r) ==
    /\ r.pc \in Settling
    /\ r.inv = NoInvoice /\ r.pay \in Payments /\ r.sheet = NoSheet /\ r.give.state = "live"
    /\ payment[r.pay] = Unpaid
    /\ r.left \in {<<>>, <<r.give.invoice>>}
    /\ r.pc = "recalc" => \A v \in Invoices : ~Wrote(r, v)
WritesPayment(r) ==
    /\ r.pc \in Settling \cup {"writePayment"}
    /\ r.pay \in Payments /\ r.sheet = NoSheet
    /\ payment[r.pay].state # "none"
    /\ r.op = "updatePayment" /\ r.pc = "writePayment" => r.give.state = "live"
    /\ r.pc # "writePayment" =>
          r.give.state # "none" /\ (r.op = "deletePayment" => r.give.state = "deleted")

Shape(r) ==
    /\ r.pc = "idle" => r = Idle
    /\ r.pc # "idle" => r.op # "none"
    /\ r.op = "updateInvoice" => UpdatesInvoice(r)
    /\ r.op = "deleteInvoice" => DeletesInvoice(r)
    /\ r.op = "createPayment" => CreatesPayment(r)
    /\ r.op \in {"updatePayment", "deletePayment"} => WritesPayment(r)
    /\ r.left \in Lists(Named(r))
    /\ r.pc \in {"recalc", "sum", "status"} <=> r.left # <<>>
    /\ r.pc = "status" => r.status # "keep"
    /\ \A v \in Invoices : Wrote(r, v) => r.pc \in Settling /\ v \in Named(r)
    /\ \A v \in Named(r) : invoice[v].state # "none"
    /\ \A s \in r.drop : sheet[s].invoice \in {r.inv, NoInvoice}
    /\ r.drop # {} => r.op = "updateInvoice"
    /\ r.sheet # NoSheet => sheet[r.sheet] = NoLines /\ r.sheet \notin r.drop

Apart(r, s) ==
    /\ r.sheet # NoSheet => s.sheet # r.sheet /\ r.sheet \notin s.drop
    /\ r.op = "createPayment" => s.pay # r.pay

\* The figures that an edit of an invoice writes: those of its lines.
Figures(r, row) ==
    /\ row.subtotal = IF r.sheet = NoSheet THEN invoice[r.inv].subtotal ELSE SheetSum[r.sheet]
    /\ row.total = row.subtotal + row.adjust

FreshEdit(r) ==
    /\ r.pc \in Changing => Figures(r, r.new)
    /\ r.pc \in Settling => Figures(r, r.wrote[r.inv])
    /\ r.sheet # NoSheet /\ r.pc # "findLines" => LinesOf(r.inv) \subseteq r.drop

FreshDelete(r) == r.pc \in {"deleteInvoice", "commit"} => PaidOn(r.inv) = {}

FreshPayment(r) ==
    /\ r.op # "createPayment" =>
          payment[r.pay].invoice = r.inv /\ payment[r.pay].state = "live"
    /\ r.give.state = "live" =>
          \A v \in Invoices \ raced : v = r.give.invoice => Live(v)
    /\ r.op = "deletePayment" => r.give.invoice \in {r.inv, NoInvoice}
    /\ r.op = "updatePayment" /\ r.pc # "writePayment" => r.give.state = "live"
    /\ \A v \in Invoices : Wrote(r, v) =>
          /\ r.wrote[v].subtotal = invoice[v].subtotal /\ r.wrote[v].adjust = invoice[v].adjust
          /\ r.wrote[v].total = invoice[v].total
          /\ invoice[v].status \notin Preserved

\* What a request makes of an invoice agrees with what it makes of its payments.
SettledBy(r, v) ==
    RowBy(r, v).state = "live" /\ RowBy(r, v).status \notin Preserved
        => RowBy(r, v).status = Derived(PaidBy(r, v), RowBy(r, v).total)

FreshStatus(r) ==
    /\ r.pc \in Settling => \A v \in Named(r) \ Todo(r) : SettledBy(r, v)
    /\ r.pc = "sum" => r.seen = RowBy(r, Head(r.left)) /\ r.seen.status \notin Preserved
    /\ r.pc = "status" =>
          /\ RowBy(r, Head(r.left)).status \notin Preserved
          /\ r.status = Derived(PaidBy(r, Head(r.left)), RowBy(r, Head(r.left)).total)

Fresh(r) ==
    /\ r.op = "updateInvoice" => FreshEdit(r)
    /\ r.op = "deleteInvoice" => FreshDelete(r)
    /\ r.op \in {"createPayment", "updatePayment", "deletePayment"} => FreshPayment(r)
    /\ r.op # "deleteInvoice" =>
          \A v \in Invoices : Wrote(r, v) => r.wrote[v].state = invoice[v].state
    /\ FreshStatus(r)

\* What there is belongs to something that was there.
DataInv ==
    /\ \A k \in Payments : /\ payment[k].state = "none" => payment[k] = Unpaid
                           /\ payment[k].invoice # NoInvoice
                                 => invoice[payment[k].invoice].state # "none"
    /\ \A s \in Sheets : IF sheet[s].state = "none" THEN sheet[s] = NoLines
                         ELSE /\ sheet[s].invoice # NoInvoice
                              /\ invoice[sheet[s].invoice].state # "none"

\* An invoice has the lines of one payload, and asks for what they say.
LinesInv ==
    \A v \in Invoices \ raced :
        Live(v) => /\ \E s \in Sheets : LinesOf(v) = {s} /\ invoice[v].subtotal = SheetSum[s]
                   /\ invoice[v].total = invoice[v].subtotal + invoice[v].adjust

IInv == /\ TypeOK /\ DataInv
        /\ \A p \in Requests : Shape(req[p]) /\ (~req[p].stale => Fresh(req[p]))
        /\ \A p, q \in Requests : p # q => Apart(req[p], req[q])
        /\ LinesInv /\ DeletedHasNoPaymentsUnlessRaced

-----------------------------------------------------------------------------
(* A statement changes its request and nothing else.                       *)

\* What the actions say of a request is what the invariant says of its record.
LEMMA ByRecord ==
    ASSUME NEW p
    PROVE  /\ \A v : Written(p, v) <=> Wrote(req[p], v)
           /\ \A v : InvoiceSeen(p, v) = RowBy(req[p], v)
           /\ \A k : PaymentSeen(p, k) = PayBy(req[p], k)
           /\ \A v : PaidTotal(p, v) = PaidBy(req[p], v)
<1>1. \A v : Written(p, v) <=> Wrote(req[p], v)
    BY DEF Written, Wrote
<1>2. \A k : PaymentSeen(p, k) = PayBy(req[p], k)
    BY DEF PaymentSeen, PayBy, PaymentWritten, HasWrittenPayment
<1>3. \A v : PaidTotal(p, v) = PaidBy(req[p], v)
    BY <1>2 DEF PaidTotal, PaidBy
<1>4. \A v : InvoiceSeen(p, v) = RowBy(req[p], v)
    BY <1>1 DEF InvoiceSeen, RowBy
<1> QED BY <1>1, <1>2, <1>3, <1>4

\* A derived status is a status, and none that payments leave alone.
LEMMA DerivedStatus ==
    ASSUME NEW paid, NEW total
    PROVE  Derived(paid, total) \in Statuses \ Preserved
BY DEF Derived, Statuses, Preserved

\* What a request reads are rows.
LEMMA ReadTypes ==
    ASSUME TypeOK, NEW r \in Request
    PROVE  /\ \A v \in Invoices : RowBy(r, v) \in InvoiceRow
           /\ \A k \in Payments : PayBy(r, k) \in PaymentRow
BY DEF TypeOK, Request, RowBy, PayBy

\* Of a list that is not empty: its head, and its tail.
LEMMA ListStep ==
    ASSUME NEW N, NEW l \in Lists(N), l # <<>>
    PROVE  /\ Head(l) \in N /\ Tail(l) \in Lists(N)
           /\ Range(l) = {Head(l)} \cup Range(Tail(l))
<1>1. CASE \E a \in N : l = <<a>>
    <2>1. PICK a \in N : l = <<a>>
        BY <1>1
    <2>2. Head(l) = a /\ Tail(l) = <<>>
        BY <2>1
    <2>3. Range(l) = {a}
        BY <2>1 DEF Range
    <2>4. Range(<<>>) = {} /\ <<>> \in Lists(N)
        BY DEF Range, Lists
    <2>5. Range(l) = {Head(l)} \cup Range(Tail(l))
        BY <2>2, <2>3, <2>4
    <2> QED BY <2>1, <2>2, <2>4, <2>5
<1>2. CASE \E a, b \in N : l = <<a, b>>
    <2>1. PICK a \in N, b \in N : l = <<a, b>>
        BY <1>2
    <2>2. Head(l) = a /\ Tail(l) = <<b>>
        BY <2>1
    <2>3. Range(l) = {a, b}
        BY <2>1 DEF Range
    <2>4. Range(<<b>>) = {b} /\ <<b>> \in Lists(N)
        BY DEF Range, Lists
    <2>5. Range(l) = {Head(l)} \cup Range(Tail(l))
        BY <2>2, <2>3, <2>4
    <2> QED BY <2>1, <2>2, <2>4, <2>5
<1> QED BY <1>1, <1>2 DEF Lists

\* A list of invoices is what the type of a request asks for.
LEMMA ListTypes ==
    ASSUME NEW N, N \subseteq Invoices
    PROVE  Lists(N) \subseteq Seq(Invoices)
<1>1. SUFFICES ASSUME NEW l \in Lists(N) PROVE l \in Seq(Invoices)
    OBVIOUS
<1>2. CASE \E a \in N : l = <<a>>
    <2>1. PICK a \in N : l = <<a>>
        BY <1>2
    <2> QED BY <2>1
<1>3. CASE \E a, b \in N : l = <<a, b>>
    <2>1. PICK a \in N, b \in N : l = <<a, b>>
        BY <1>3
    <2>2. a \in Invoices /\ b \in Invoices
        OBVIOUS
    <2> QED BY <2>1, <2>2
<1>4. CASE l = <<>>
    BY <1>4
<1>5. l = <<>> \/ (\E a \in N : l = <<a>>) \/ (\E a, b \in N : l = <<a, b>>)
    BY DEF Lists
<1> QED BY <1>2, <1>3, <1>4, <1>5

\* As long as no row changes, what is said of a request depends on the request alone.
LEMMA Quiet ==
    ASSUME Unwritten, NEW r
    PROVE  (Shape(r) => Shape(r)') /\ (Fresh(r) => Fresh(r)')
<1>1. invoice' = invoice /\ sheet' = sheet /\ payment' = payment /\ raced' = raced
    BY DEF Unwritten
<1>2. Shape(r) => Shape(r)'
    BY <1>1 DEF Shape, UpdatesInvoice, DeletesInvoice, CreatesPayment, WritesPayment
<1>3. /\ \A v : RowBy(r, v)' = RowBy(r, v)
      /\ \A k : PayBy(r, k)' = PayBy(r, k)
    BY <1>1 DEF RowBy, PayBy
<1>4. \A v : PaidBy(r, v)' = PaidBy(r, v)
    BY <1>3 DEF PaidBy
<1>5. FreshStatus(r) => FreshStatus(r)'
    <2>1. \A v : SettledBy(r, v)' <=> SettledBy(r, v)
        BY <1>3, <1>4 DEF SettledBy
    <2> QED BY <1>3, <1>4, <2>1 DEF FreshStatus
<1>6. /\ FreshEdit(r) => FreshEdit(r)'
      /\ FreshDelete(r) => FreshDelete(r)'
      /\ FreshPayment(r) => FreshPayment(r)'
    BY <1>1 DEF FreshEdit, Figures, LinesOf, FreshDelete, PaidOn, LivePay, FreshPayment, Live
<1>7. Fresh(r) => Fresh(r)'
    BY <1>1, <1>5, <1>6 DEF Fresh
<1> QED BY <1>2, <1>7

\* A step that writes no row keeps the invariant when its request goes on as it should.
LEMMA LocalStep ==
    ASSUME IInv, Unwritten, NEW p \in Requests, NEW z \in Request,
           req' = [req EXCEPT ![p] = z],
           Shape(z), ~z.stale => Fresh(z),
           \A q \in Requests \ {p} : Apart(z, req[q]) /\ Apart(req[q], z)
    PROVE  IInv'
<1>1. invoice' = invoice /\ sheet' = sheet /\ payment' = payment /\ raced' = raced
    BY DEF Unwritten
<1>2. req \in [Requests -> Request]
    BY DEF IInv, TypeOK
<1>3. TypeOK'
    BY <1>1, <1>2 DEF IInv, TypeOK
<1>4. DataInv' /\ LinesInv' /\ DeletedHasNoPaymentsUnlessRaced'
    BY <1>1 DEF IInv, DataInv, LinesInv, Live, LinesOf, DeletedHasNoPaymentsUnlessRaced, PaidOn,
                LivePay
<1>5. req'[p] = z /\ \A q \in Requests \ {p} : req'[q] = req[q]
    BY <1>2
<1>6. ASSUME NEW q \in Requests PROVE Shape(req[q])' /\ (~req'[q].stale => Fresh(req[q])')
    <2>1. PICK s : s = req'[q]
        OBVIOUS
    <2>2. Shape(s) /\ (~s.stale => Fresh(s))
        BY <1>5, <2>1 DEF IInv
    <2>3. Shape(s)' /\ (~s.stale => Fresh(s)')
        BY <2>2, Quiet
    <2>4. Shape(req[q])' <=> Shape(s)'
        BY <2>1 DEF Shape, UpdatesInvoice, DeletesInvoice, CreatesPayment, WritesPayment
    <2> QED BY <2>1, <2>3
<1>7. ASSUME NEW q \in Requests, NEW s \in Requests, q # s PROVE Apart(req[q], req[s])'
    BY <1>5, <1>7 DEF IInv, Apart
<1> QED BY <1>3, <1>4, <1>6, <1>7 DEF IInv

\* A request that claims nothing new stays apart from the others.
LEMMA StaysApart ==
    ASSUME IInv, NEW p \in Requests, NEW z,
           z.sheet = req[p].sheet, z.drop \subseteq req[p].drop,
           z.op = req[p].op, z.pay = req[p].pay
    PROVE  \A q \in Requests \ {p} : Apart(z, req[q]) /\ Apart(req[q], z)
BY DEF IInv, Apart

\* So does one that is done.
LEMMA IdleFits ==
    ASSUME IInv, NEW p \in Requests
    PROVE  /\ Idle \in Request /\ Shape(Idle) /\ Fresh(Idle)
           /\ \A q \in Requests \ {p} : Apart(Idle, req[q]) /\ Apart(req[q], Idle)
<1>1. Idle \in Request
    BY DEF Idle, Request, PCs, Ops, NoRow, InvoiceRow, Statuses, Unpaid, PaymentRow
<1>2. Shape(Idle)
    <2>1. /\ Idle.pc = "idle" /\ Idle.op = "none" /\ Idle.left = <<>> /\ Idle.drop = {}
          /\ Idle.sheet = NoSheet /\ \A v \in Invoices : ~Wrote(Idle, v)
        BY DEF Idle, Wrote, NoRow
    <2>2. Named(Idle) = {}
        BY InvoiceAssumption DEF Idle, Unpaid, Named
    <2>3. Idle.left \in Lists(Named(Idle))
        BY <2>1 DEF Lists
    <2> QED BY <2>1, <2>2, <2>3 DEF Shape
<1>3. Fresh(Idle)
    BY DEF Fresh, Idle, Wrote, NoRow, FreshStatus, Settling
<1>4. ASSUME NEW q \in Requests \ {p} PROVE Apart(Idle, req[q]) /\ Apart(req[q], Idle)
    <2>1. Shape(req[q])
        BY DEF IInv
    <2>2. req[q].op = "createPayment" => req[q].pay \in Payments
        BY <2>1 DEF Shape, CreatesPayment
    <2> QED BY <2>2, InvoiceAssumption DEF Apart, Idle
<1> QED BY <1>1, <1>2, <1>3, <1>4

\* Ending without a trace.
LEMMA EndKeeps ==
    ASSUME IInv, NEW p \in Requests, End(p), Unwritten
    PROVE  IInv'
BY IdleFits, LocalStep DEF End

\* What is known of a request.
LEMMA Known ==
    ASSUME IInv, NEW p \in Requests
    PROVE  /\ req[p] \in Request /\ Shape(req[p]) /\ (~req[p].stale => Fresh(req[p]))
           /\ Named(req[p]) \subseteq Invoices /\ req \in [Requests -> Request]
BY DEF IInv, TypeOK, Named

\* Reading and writing of rows by a request that goes on settling: whatever of it stays
\* as it was.
LEMMA SameReads ==
    ASSUME NEW r, NEW z, z.op = r.op, z.pay = r.pay, z.give = r.give,
           z.pc # "writePayment", r.pc # "writePayment"
    PROVE  /\ \A k : PayBy(z, k) = PayBy(r, k)
           /\ \A v : PaidBy(z, v) = PaidBy(r, v)
<1>1. \A k : PayBy(z, k) = PayBy(r, k)
    BY DEF PayBy, HasWrittenPayment
<1>2. \A v : PaidBy(z, v) = PaidBy(r, v)
    BY <1>1 DEF PaidBy
<1> QED BY <1>1, <1>2

\* What r has written differs from the rows as they are in the status alone, or is what
\* it was asked to write.
StatusAlone(r, rows) ==
    /\ \A v \in Invoices : rows[v].state # "none" =>
          /\ rows[v].state = invoice[v].state
          /\ r.op # "updateInvoice" =>
                /\ rows[v].subtotal = invoice[v].subtotal
                /\ rows[v].adjust = invoice[v].adjust
                /\ rows[v].total = invoice[v].total
                /\ invoice[v].status \notin Preserved
    /\ r.op = "updateInvoice" => Figures(r, rows[r.inv])

\* A request on its way through recalcInvoiceStatus keeps the invariant when what it has
\* settled agrees, and what it has written differs in the status alone.
LEMMA SettleStep ==
    ASSUME IInv, Unwritten, NEW p \in Requests, NEW r, r = req[p],
           r.pc \in {"recalc", "sum", "status"},
           NEW z \in Request, req' = [req EXCEPT ![p] = z],
           z.op = r.op, z.inv = r.inv, z.pay = r.pay, z.sheet = r.sheet, z.drop = r.drop,
           z.give = r.give, z.stale = r.stale, z.pc \in Settling,
           z.left = r.left \/ z.left = Tail(r.left),
           z.pc \in {"recalc", "sum", "status"} <=> z.left # <<>>,
           z.pc = "recalc" => z.left = Tail(r.left),
           z.pc = "status" => z.status # "keep",
           \A v \in Invoices : Wrote(r, v) => Wrote(z, v),
           \A v \in Invoices : Wrote(z, v) => v \in Named(r),
           ~r.stale =>
               /\ FreshStatus(z)
               /\ StatusAlone(r, z.wrote)
    PROVE  IInv'
<1>1. /\ r \in Request /\ Shape(r) /\ (~r.stale => Fresh(r))
      /\ Named(r) \subseteq Invoices
    BY Known
<1>2. r.left \in Lists(Named(r)) /\ r.left # <<>>
    BY <1>1 DEF Shape
<1>3. r.op \in {"updateInvoice", "createPayment", "updatePayment", "deletePayment"}
    BY <1>1 DEF Shape, DeletesInvoice, Request, Ops
<1>4. Named(z) = Named(r)
    BY DEF Named
<1>5. Tail(r.left) \in Lists(Named(r))
    BY <1>2, ListStep
<1>6. Shape(z)
    <2>1. CASE r.op = "updateInvoice"
        <3>1. UpdatesInvoice(z)
            BY <1>1, <2>1 DEF Shape, UpdatesInvoice, Settling
        <3> QED BY <1>1, <1>2, <1>4, <1>5, <2>1, <3>1 DEF Shape, Settling
    <2>2. CASE r.op = "createPayment"
        <3>1. r.left = <<r.give.invoice>>
            BY <1>1, <1>2, <2>2 DEF Shape, CreatesPayment
        <3>2. Tail(r.left) = <<>>
            BY <3>1
        <3>3. CreatesPayment(z)
            BY <1>1, <2>2, <3>1, <3>2 DEF Shape, CreatesPayment, Settling
        <3> QED BY <1>1, <1>2, <1>4, <1>5, <2>2, <3>3 DEF Shape, Settling
    <2>3. CASE r.op \in {"updatePayment", "deletePayment"}
        <3>1. WritesPayment(z)
            BY <1>1, <2>3 DEF Shape, WritesPayment, Settling
        <3> QED BY <1>1, <1>2, <1>4, <1>5, <2>3, <3>1 DEF Shape, Settling
    <2> QED BY <1>3, <2>1, <2>2, <2>3
<1>7. ASSUME ~z.stale PROVE Fresh(z)
    <2>1. ~r.stale /\ Fresh(r)
        BY <1>1, <1>7
    <2>2. CASE r.op = "updateInvoice"
        <3>1. FreshEdit(z)
            BY <1>1, <2>1, <2>2 DEF Fresh, FreshEdit, Figures, Settling, Changing, StatusAlone
        <3> QED BY <2>1, <2>2, <3>1 DEF Fresh, StatusAlone, Wrote
    <2>3. CASE r.op \in {"createPayment", "updatePayment", "deletePayment"}
        <3>1. FreshPayment(z)
            BY <1>1, <2>1, <2>3 DEF Fresh, FreshPayment, Settling, StatusAlone, Wrote
        <3> QED BY <2>1, <2>3, <3>1 DEF Fresh, StatusAlone, Wrote
    <2> QED BY <1>3, <2>2, <2>3
<1>8. \A q \in Requests \ {p} : Apart(z, req[q]) /\ Apart(req[q], z)
    BY StaysApart
<1> QED BY <1>6, <1>7, <1>8, LocalStep

-----------------------------------------------------------------------------
(* recalcInvoiceStatus.                                                    *)

\* What a request has to recalculate first, and what is left then.
LEMMA HeadOfList ==
    ASSUME IInv, NEW p \in Requests, NEW r, r = req[p],
           r.pc \in {"recalc", "sum", "status"}
    PROVE  /\ r.left # <<>> /\ Head(r.left) \in Named(r) /\ Head(r.left) \in Invoices
           /\ Tail(r.left) \in Lists(Named(r)) /\ Tail(r.left) \in Seq(Invoices)
           /\ Todo(r) = {Head(r.left)} \cup Range(Tail(r.left))
<1>1. r \in Request /\ Shape(r) /\ Named(r) \subseteq Invoices
    BY Known
<1>2. r.left \in Lists(Named(r)) /\ r.left # <<>>
    BY <1>1 DEF Shape
<1>3. /\ Head(r.left) \in Named(r) /\ Tail(r.left) \in Lists(Named(r))
      /\ Todo(r) = {Head(r.left)} \cup Range(Tail(r.left))
    BY <1>2, ListStep DEF Todo
<1> QED BY <1>1, <1>2, <1>3, ListTypes

\* Of a payment's request or an edit that is fresh, what it wrote is as SettleStep asks.
LEMMA WrittenStays ==
    ASSUME NEW r, Fresh(r), Shape(r), r.op # "deleteInvoice", r.op # "none",
           r.op \in Ops, r.pc \in {"recalc", "sum", "status"}
    PROVE  StatusAlone(r, r.wrote)
<1>1. CASE r.op = "updateInvoice"
    BY <1>1 DEF Fresh, FreshEdit, Settling, StatusAlone, Wrote
<1>2. CASE r.op \in {"createPayment", "updatePayment", "deletePayment"}
    BY <1>2 DEF Fresh, FreshPayment, StatusAlone, Wrote
<1> QED BY <1>1, <1>2 DEF Ops

\* A request settles before its commit: no deletion of an invoice, and nothing idle.
LEMMA SettlingOps ==
    ASSUME NEW r \in Request, Shape(r), r.pc \in {"recalc", "sum", "status"}
    PROVE  r.op \in {"updateInvoice", "createPayment", "updatePayment", "deletePayment"}
BY DEF Shape, DeletesInvoice, Request, Ops

\* Going on to the next invoice, when this one agrees with its payments.
LEMMA AdvanceKeeps ==
    ASSUME IInv, Unwritten, NEW p \in Requests, Advance(p),
           req[p].pc \in {"recalc", "sum", "status"},
           ~req[p].stale => SettledBy(req[p], Head(req[p].left))
    PROVE  IInv'
<1>1. PICK r : r = req[p]
    OBVIOUS
<1>2. /\ r \in Request /\ Shape(r) /\ (~r.stale => Fresh(r))
      /\ Named(r) \subseteq Invoices /\ req \in [Requests -> Request]
    BY <1>1, Known
<1>3. /\ r.left # <<>> /\ Head(r.left) \in Named(r) /\ Tail(r.left) \in Seq(Invoices)
      /\ Todo(r) = {Head(r.left)} \cup Range(Tail(r.left))
    BY <1>1, HeadOfList
<1>4. PICK z : z = Recalculating([r EXCEPT !.seen = NoRow], Tail(r.left))
    OBVIOUS
<1>5. z = [r EXCEPT !.seen = NoRow, !.left = Tail(r.left),
                    !.pc = IF Tail(r.left) = <<>> THEN "commit" ELSE "recalc"]
    BY <1>2, <1>4 DEF Recalculating, Request
<1>6. req' = [req EXCEPT ![p] = z]
    BY <1>1, <1>4 DEF Advance
<1>7. /\ z.op = r.op /\ z.inv = r.inv /\ z.pay = r.pay /\ z.sheet = r.sheet
      /\ z.drop = r.drop /\ z.give = r.give /\ z.stale = r.stale /\ z.wrote = r.wrote
      /\ z.left = Tail(r.left) /\ z.pc = IF z.left = <<>> THEN "commit" ELSE "recalc"
    BY <1>2, <1>5 DEF Request
<1>8. z \in Request
    <2>1. NoRow \in InvoiceRow
        BY DEF NoRow, InvoiceRow, Statuses
    <2>2. "commit" \in PCs /\ "recalc" \in PCs
        BY DEF PCs
    <2> QED BY <1>2, <1>3, <1>5, <2>1, <2>2 DEF Request
<1>9. ASSUME ~r.stale PROVE FreshStatus(z)
    <2>1. Fresh(r)
        BY <1>2, <1>9
    <2>2. ASSUME NEW v \in Named(z) \ Todo(z) PROVE SettledBy(z, v)
        <3>1. v \in Named(r) /\ (v = Head(r.left) \/ v \notin Todo(r))
            BY <1>3, <1>7 DEF Named, Todo
        <3>2. SettledBy(r, v)
            <4>1. CASE v = Head(r.left)
                BY <1>1, <1>9, <4>1
            <4>2. CASE v \notin Todo(r)
                BY <1>1, <2>1, <3>1, <4>2 DEF Fresh, FreshStatus, Settling
            <4> QED BY <3>1, <4>1, <4>2
        <3>3. RowBy(z, v) = RowBy(r, v)
            BY <1>7 DEF RowBy, Wrote
        <3>4. PaidBy(z, v) = PaidBy(r, v)
            <4>1. z.pc # "writePayment" /\ r.pc # "writePayment"
                BY <1>1, <1>7
            <4> QED BY <1>7, <4>1, SameReads
        <3> QED BY <3>2, <3>3, <3>4 DEF SettledBy
    <2> QED BY <1>7, <2>2 DEF FreshStatus
<1>10. ASSUME NEW v \in Invoices, Wrote(z, v) PROVE v \in Named(r)
    BY <1>2, <1>7, <1>10 DEF Shape, Wrote
<1>11. \A v \in Invoices : Wrote(r, v) <=> Wrote(z, v)
    BY <1>7 DEF Wrote
<1>12. r.op \in {"updateInvoice", "createPayment", "updatePayment", "deletePayment"}
    BY <1>1, <1>2, SettlingOps
<1>13. ASSUME ~r.stale
       PROVE  StatusAlone(r, z.wrote)
    <2>1. Fresh(r) /\ Shape(r) /\ r.op # "deleteInvoice" /\ r.op # "none" /\ r.op \in Ops
        BY <1>2, <1>12, <1>13 DEF Ops
    <2>2. r.pc \in {"recalc", "sum", "status"}
        BY <1>1
    <2> QED BY <1>7, <2>1, <2>2, WrittenStays
<1>14. /\ z.pc \in Settling /\ (z.pc \in {"recalc", "sum", "status"} <=> z.left # <<>>)
       /\ z.pc # "status"
    BY <1>7 DEF Settling
<1>15. r.pc \in {"recalc", "sum", "status"}
    BY <1>1
<1> QED BY <1>1, <1>6, <1>7, <1>8, <1>9, <1>10, <1>11, <1>13, <1>14, <1>15, SettleStep

\* The status of an invoice is read.
LEMMA ReadInvoiceKeeps ==
    ASSUME IInv, NEW p \in Requests, ReadInvoice(p)
    PROVE  IInv'
<1>1. PICK r : r = req[p]
    OBVIOUS
<1>2. PICK row : row = RowBy(r, Head(r.left))
    OBVIOUS
<1>3. InvoiceSeen(p, Head(req[p].left)) = row
    BY <1>1, <1>2, ByRecord
<1>4. r.pc = "recalc" /\ Unwritten
    BY <1>1 DEF ReadInvoice
<1>5. /\ r \in Request /\ Shape(r) /\ (~r.stale => Fresh(r))
      /\ Named(r) \subseteq Invoices /\ req \in [Requests -> Request]
    BY <1>1, Known
<1>6. /\ r.left # <<>> /\ Head(r.left) \in Named(r) /\ Head(r.left) \in Invoices
    BY <1>1, <1>4, HeadOfList
<1>7. CASE row.status \in Preserved
    <2>1. Advance(p)
        BY <1>3, <1>7 DEF ReadInvoice, IsPreserved
    <2>2. SettledBy(r, Head(r.left))
        BY <1>2, <1>7 DEF SettledBy
    <2> QED BY <1>1, <1>4, <2>1, <2>2, AdvanceKeeps
<1>8. CASE row.status \notin Preserved
    <2> DEFINE z == [r EXCEPT !.pc = "sum", !.seen = row]
    <2>1. req' = [req EXCEPT ![p] = z]
        BY <1>1, <1>3, <1>8, <1>5 DEF ReadInvoice, IsPreserved
    <2>2. /\ z.op = r.op /\ z.inv = r.inv /\ z.pay = r.pay /\ z.sheet = r.sheet
          /\ z.drop = r.drop /\ z.give = r.give /\ z.stale = r.stale /\ z.wrote = r.wrote
          /\ z.left = r.left /\ z.pc = "sum" /\ z.seen = row
        BY <1>5 DEF Request
    <2>3. z \in Request
        <3>1. row \in InvoiceRow
            BY <1>2, <1>5, <1>6, ReadTypes DEF IInv
        <3> QED BY <1>5, <3>1 DEF Request, PCs
    <2> HIDE DEF z
    <2>4. \A v : RowBy(z, v) = RowBy(r, v) /\ PaidBy(z, v) = PaidBy(r, v)
        <3>1. z.pc # "writePayment" /\ r.pc # "writePayment"
            BY <1>4, <2>2
        <3>2. \A v : PaidBy(z, v) = PaidBy(r, v)
            BY <2>2, <3>1, SameReads
        <3> QED BY <2>2, <3>2 DEF RowBy, Wrote
    <2>5. ASSUME ~r.stale PROVE FreshStatus(z)
        <3>1. Fresh(r)
            BY <1>5, <2>5
        <3>2. ASSUME NEW v \in Named(z) \ Todo(z) PROVE SettledBy(z, v)
            <4>1. v \in Named(r) \ Todo(r)
                BY <2>2 DEF Named, Todo
            <4>2. SettledBy(r, v)
                BY <1>4, <3>1, <4>1 DEF Fresh, FreshStatus, Settling
            <4> QED BY <2>4, <4>2 DEF SettledBy
        <3> QED BY <1>2, <1>8, <2>2, <2>4, <3>2 DEF FreshStatus
    <2>6. \A v \in Invoices : Wrote(r, v) <=> Wrote(z, v)
        BY <2>2 DEF Wrote
    <2>7. \A v \in Invoices : Wrote(z, v) => v \in Named(r)
        BY <1>5, <2>6 DEF Shape
    <2>8. r.op \in {"updateInvoice", "createPayment", "updatePayment", "deletePayment"}
        BY <1>4, <1>5, SettlingOps
    <2>9. ASSUME ~r.stale
          PROVE  StatusAlone(r, z.wrote)
        <3>1. Fresh(r) /\ Shape(r) /\ r.op # "deleteInvoice" /\ r.op # "none" /\ r.op \in Ops
            BY <1>5, <2>8, <2>9 DEF Ops
        <3> QED BY <1>4, <2>2, <3>1, WrittenStays
    <2>10. z.pc \in Settling /\ (z.pc \in {"recalc", "sum", "status"} <=> z.left # <<>>)
        BY <1>6, <2>2 DEF Settling
    <2> QED BY <1>1, <1>4, <2>1, <2>2, <2>3, <2>5, <2>6, <2>7, <2>9, <2>10, SettleStep
<1> QED BY <1>7, <1>8

\* What has been paid on it is summed.
LEMMA SumPaymentsKeeps ==
    ASSUME IInv, NEW p \in Requests, SumPayments(p)
    PROVE  IInv'
<1>1. PICK r : r = req[p]
    OBVIOUS
<1>2. PICK next : next = Derived(PaidBy(r, Head(r.left)), r.seen.total)
    OBVIOUS
<1>3. Derived(PaidTotal(p, Head(req[p].left)), req[p].seen.total) = next
    BY <1>1, <1>2, ByRecord
<1>4. r.pc = "sum" /\ Unwritten
    BY <1>1 DEF SumPayments
<1>5. /\ r \in Request /\ Shape(r) /\ (~r.stale => Fresh(r))
      /\ Named(r) \subseteq Invoices /\ req \in [Requests -> Request]
    BY <1>1, Known
<1>6. /\ r.left # <<>> /\ Head(r.left) \in Named(r) /\ Head(r.left) \in Invoices
    BY <1>1, <1>4, HeadOfList
<1>7. ASSUME ~r.stale
      PROVE  r.seen = RowBy(r, Head(r.left)) /\ r.seen.status \notin Preserved
    BY <1>4, <1>5, <1>7 DEF Fresh, FreshStatus
<1>8. CASE next = r.seen.status
    <2>1. Advance(p)
        BY <1>1, <1>3, <1>8 DEF SumPayments
    <2>2. ASSUME ~r.stale PROVE SettledBy(r, Head(r.left))
        BY <1>2, <1>7, <1>8, <2>2 DEF SettledBy
    <2> QED BY <1>1, <1>4, <2>1, <2>2, AdvanceKeeps
<1>9. CASE next # r.seen.status
    <2> DEFINE z == [r EXCEPT !.pc = "status", !.status = next]
    <2>1. req' = [req EXCEPT ![p] = z]
        BY <1>1, <1>3, <1>9, <1>5 DEF SumPayments
    <2>2. /\ z.op = r.op /\ z.inv = r.inv /\ z.pay = r.pay /\ z.sheet = r.sheet
          /\ z.drop = r.drop /\ z.give = r.give /\ z.stale = r.stale /\ z.wrote = r.wrote
          /\ z.left = r.left /\ z.pc = "status" /\ z.status = next
        BY <1>5 DEF Request
    <2>3. next \in Statuses
        BY <1>2, DerivedStatus
    <2>4. z \in Request /\ z.status # "keep"
        <3>1. "status" \in PCs /\ next # "keep"
            BY <2>3 DEF PCs, Statuses
        <3>2. z \in Request
            BY <1>5, <2>3, <3>1 DEF Request
        <3> QED BY <2>2, <3>1, <3>2
    <2> HIDE DEF z
    <2>5. \A v : RowBy(z, v) = RowBy(r, v) /\ PaidBy(z, v) = PaidBy(r, v)
        <3>1. z.pc # "writePayment" /\ r.pc # "writePayment"
            BY <1>4, <2>2
        <3>2. \A v : PaidBy(z, v) = PaidBy(r, v)
            BY <2>2, <3>1, SameReads
        <3> QED BY <2>2, <3>2 DEF RowBy, Wrote
    <2>6. ASSUME ~r.stale PROVE FreshStatus(z)
        <3>1. Fresh(r)
            BY <1>5, <2>6
        <3>2. ASSUME NEW v \in Named(z) \ Todo(z) PROVE SettledBy(z, v)
            <4>1. v \in Named(r) \ Todo(r)
                BY <2>2 DEF Named, Todo
            <4>2. SettledBy(r, v)
                BY <1>4, <3>1, <4>1 DEF Fresh, FreshStatus, Settling
            <4> QED BY <2>5, <4>2 DEF SettledBy
        <3>3. /\ RowBy(z, Head(z.left)).status \notin Preserved
              /\ z.status = Derived(PaidBy(z, Head(z.left)), RowBy(z, Head(z.left)).total)
            BY <1>2, <1>7, <2>2, <2>5, <2>6
        <3> QED BY <2>2, <3>2, <3>3 DEF FreshStatus
    <2>7. \A v \in Invoices : Wrote(r, v) <=> Wrote(z, v)
        BY <2>2 DEF Wrote
    <2>8. \A v \in Invoices : Wrote(z, v) => v \in Named(r)
        BY <1>5, <2>7 DEF Shape
    <2>9. r.op \in {"updateInvoice", "createPayment", "updatePayment", "deletePayment"}
        BY <1>4, <1>5, SettlingOps
    <2>10. ASSUME ~r.stale PROVE StatusAlone(r, z.wrote)
        <3>1. Fresh(r) /\ Shape(r) /\ r.op # "deleteInvoice" /\ r.op # "none" /\ r.op \in Ops
            BY <1>5, <2>9, <2>10 DEF Ops
        <3> QED BY <1>4, <2>2, <3>1, WrittenStays
    <2>11. z.pc \in Settling /\ (z.pc \in {"recalc", "sum", "status"} <=> z.left # <<>>)
        BY <1>6, <2>2 DEF Settling
    <2> QED BY <1>1, <1>4, <2>1, <2>2, <2>4, <2>6, <2>7, <2>8, <2>10, <2>11, SettleStep
<1> QED BY <1>8, <1>9

\* The derived status is written.
LEMMA WriteStatusKeeps ==
    ASSUME IInv, NEW p \in Requests, WriteStatus(p)
    PROVE  IInv'
<1>1. PICK r : r = req[p]
    OBVIOUS
<1>2. PICK v : v = Head(r.left)
    OBVIOUS
<1>3. PICK row : row = [RowBy(r, v) EXCEPT !.status = r.status]
    OBVIOUS
<1>4. r.pc = "status" /\ Unwritten
    BY <1>1 DEF WriteStatus
<1>5. /\ r \in Request /\ Shape(r) /\ (~r.stale => Fresh(r))
      /\ Named(r) \subseteq Invoices /\ req \in [Requests -> Request]
    BY <1>1, Known
<1>6. /\ r.left # <<>> /\ v \in Named(r) /\ v \in Invoices
      /\ Tail(r.left) \in Seq(Invoices) /\ Todo(r) = {v} \cup Range(Tail(r.left))
    BY <1>1, <1>2, <1>4, HeadOfList
<1>7. RowBy(r, v) \in InvoiceRow /\ r.status \in Statuses
    <2>1. r.status # "keep"
        BY <1>4, <1>5 DEF Shape
    <2>2. RowBy(r, v) \in InvoiceRow
        BY <1>5, <1>6, ReadTypes DEF IInv
    <2> QED BY <1>5, <2>1, <2>2 DEF Request
<1>8. /\ row \in InvoiceRow /\ row.status = r.status /\ row.state = RowBy(r, v).state
      /\ row.subtotal = RowBy(r, v).subtotal /\ row.adjust = RowBy(r, v).adjust
      /\ row.total = RowBy(r, v).total
    BY <1>3, <1>7 DEF InvoiceRow
<1>9. row.state # "none"
    <2>1. invoice[v].state # "none"
        BY <1>5, <1>6 DEF Shape
    <2> QED BY <1>8, <2>1 DEF RowBy, Wrote
<1> DEFINE y == [r EXCEPT !.wrote[v] = row, !.seen = NoRow, !.status = "keep"]
<1>10. PICK z : z = Recalculating(y, Tail(r.left))
    OBVIOUS
<1>11. req' = [req EXCEPT ![p] = z]
    <2>1. InvoiceSeen(p, Head(req[p].left)) = RowBy(r, v)
        BY <1>1, <1>2, ByRecord
    <2> QED BY <1>1, <1>2, <1>3, <1>5, <1>10, <2>1 DEF WriteStatus
<1>12. /\ z.op = r.op /\ z.inv = r.inv /\ z.pay = r.pay /\ z.sheet = r.sheet
       /\ z.drop = r.drop /\ z.give = r.give /\ z.stale = r.stale
       /\ z.left = Tail(r.left) /\ z.pc = IF z.left = <<>> THEN "commit" ELSE "recalc"
       /\ z.wrote = [r.wrote EXCEPT ![v] = row]
    BY <1>5, <1>10 DEF Recalculating, Request
<1>13. z \in Request
    <2>1. NoRow \in InvoiceRow
        BY DEF NoRow, InvoiceRow, Statuses
    <2>2. [r.wrote EXCEPT ![v] = row] \in [Invoices -> InvoiceRow]
        BY <1>5, <1>8 DEF Request
    <2>3. z = [r EXCEPT !.wrote = [r.wrote EXCEPT ![v] = row], !.seen = NoRow, !.status = "keep",
                        !.left = Tail(r.left),
                        !.pc = IF Tail(r.left) = <<>> THEN "commit" ELSE "recalc"]
        BY <1>5, <1>10 DEF Recalculating, Request
    <2>4. PICK y1 : y1 = [r EXCEPT !.wrote = [r.wrote EXCEPT ![v] = row], !.seen = NoRow]
        OBVIOUS
    <2>5. y1 \in Request
        BY <1>5, <2>1, <2>2, <2>4 DEF Request
    <2>6. z = [y1 EXCEPT !.status = "keep", !.left = Tail(r.left),
                         !.pc = IF Tail(r.left) = <<>> THEN "commit" ELSE "recalc"]
        BY <2>3, <2>4
    <2>7. "commit" \in PCs /\ "recalc" \in PCs
        BY DEF PCs
    <2> QED BY <1>6, <2>5, <2>6, <2>7 DEF Request
<1>14. /\ z.wrote[v] = row
       /\ \A w \in Invoices \ {v} : z.wrote[w] = r.wrote[w]
    BY <1>5, <1>6, <1>12 DEF Request
<1>15. \A w \in Invoices : PaidBy(z, w) = PaidBy(r, w)
    <2>1. z.pc # "writePayment" /\ r.pc # "writePayment"
        BY <1>4, <1>12
    <2> QED BY <1>12, <2>1, SameReads
<1>16. ASSUME ~r.stale PROVE FreshStatus(z)
    <2>1. Fresh(r)
        BY <1>5, <1>16
    <2>2. ASSUME NEW w \in Named(z) \ Todo(z) PROVE SettledBy(z, w)
        <3>1. w \in Named(r) /\ w \in Invoices
            BY <1>12, <2>2 DEF Named
        <3>2. CASE w = v
            <4>1. RowBy(z, w) = row
                BY <1>9, <1>14, <3>2 DEF RowBy, Wrote
            <4>2. r.status = Derived(PaidBy(r, v), RowBy(r, v).total)
                BY <1>2, <1>4, <2>1 DEF Fresh, FreshStatus
            <4> QED BY <1>8, <1>15, <3>1, <3>2, <4>1, <4>2 DEF SettledBy
        <3>3. CASE w # v
            <4>1. RowBy(z, w) = RowBy(r, w)
                BY <1>14, <3>1, <3>3 DEF RowBy, Wrote
            <4>2. w \notin Todo(r)
                BY <1>6, <1>12, <2>2, <3>3 DEF Todo
            <4>3. SettledBy(r, w)
                BY <1>4, <2>1, <3>1, <4>2 DEF Fresh, FreshStatus, Settling
            <4> QED BY <1>15, <3>1, <4>1, <4>3 DEF SettledBy
        <3> QED BY <3>2, <3>3
    <2> QED BY <1>12, <2>2 DEF FreshStatus
<1>17. r.op \in {"updateInvoice", "createPayment", "updatePayment", "deletePayment"}
    BY <1>4, <1>5, SettlingOps
<1>18. ASSUME ~r.stale PROVE StatusAlone(r, z.wrote)
    <2>1. Fresh(r) /\ Shape(r) /\ r.op # "deleteInvoice" /\ r.op # "none" /\ r.op \in Ops
        BY <1>5, <1>17, <1>18 DEF Ops
    <2>2. StatusAlone(r, r.wrote)
        BY <1>4, <2>1, WrittenStays
    <2>3. /\ row.state = invoice[v].state
          /\ r.op # "updateInvoice" =>
                /\ row.subtotal = invoice[v].subtotal /\ row.adjust = invoice[v].adjust
                /\ row.total = invoice[v].total /\ invoice[v].status \notin Preserved
        <3>1. CASE Wrote(r, v)
            BY <1>6, <1>8, <2>2, <3>1 DEF StatusAlone, Wrote, RowBy
        <3>2. CASE ~Wrote(r, v)
            <4>1. RowBy(r, v) = invoice[v]
                BY <3>2 DEF RowBy
            <4>2. RowBy(r, v).status \notin Preserved
                BY <1>2, <1>4, <2>1 DEF Fresh, FreshStatus
            <4> QED BY <1>8, <4>1, <4>2
        <3> QED BY <3>1, <3>2
    <2>4. ASSUME r.op = "updateInvoice" PROVE Figures(r, z.wrote[r.inv])
        <3>1. Figures(r, r.wrote[r.inv])
            BY <2>2, <2>4 DEF StatusAlone
        <3>2. r.inv \in Invoices /\ Wrote(r, r.inv)
            BY <1>4, <1>5, <2>4 DEF Shape, UpdatesInvoice, Settling
        <3>3. CASE v = r.inv
            <4>1. RowBy(r, v) = r.wrote[r.inv]
                BY <3>2, <3>3 DEF RowBy
            <4> QED BY <1>8, <1>14, <3>1, <3>3, <4>1 DEF Figures
        <3>4. CASE v # r.inv
            BY <1>14, <3>1, <3>2, <3>4
        <3> QED BY <3>3, <3>4
    <2>5. ASSUME NEW w \in Invoices, z.wrote[w].state # "none"
          PROVE  /\ z.wrote[w].state = invoice[w].state
                 /\ r.op # "updateInvoice" =>
                       /\ z.wrote[w].subtotal = invoice[w].subtotal
                       /\ z.wrote[w].adjust = invoice[w].adjust
                       /\ z.wrote[w].total = invoice[w].total
                       /\ invoice[w].status \notin Preserved
        <3>1. CASE w = v
            BY <1>14, <2>3, <3>1
        <3>2. CASE w # v
            BY <1>14, <2>2, <2>5, <3>2 DEF StatusAlone
        <3> QED BY <3>1, <3>2
    <2> QED BY <2>4, <2>5 DEF StatusAlone
<1>19. /\ \A w \in Invoices : Wrote(r, w) => Wrote(z, w)
       /\ \A w \in Invoices : Wrote(z, w) => w \in Named(r)
    <2>1. \A w \in Invoices : Wrote(r, w) => w \in Named(r)
        BY <1>5 DEF Shape
    <2> QED BY <1>6, <1>9, <1>14, <2>1 DEF Wrote
<1>20. /\ z.pc \in Settling /\ (z.pc \in {"recalc", "sum", "status"} <=> z.left # <<>>)
       /\ z.pc # "status"
    BY <1>12 DEF Settling
<1>21. r.pc \in {"recalc", "sum", "status"}
    BY <1>4
<1> QED BY <1>1, <1>4, <1>11, <1>12, <1>13, <1>16, <1>18, <1>19, <1>20, <1>21, SettleStep

-----------------------------------------------------------------------------
(* Beginning a request.                                                    *)

\* What a request begins with is nobody else's.
LEMMA BeginKeeps ==
    ASSUME IInv, NEW p \in Requests, NEW z \in Request, Begin(p, z),
           Shape(z), ~z.stale => Fresh(z), z.drop = {},
           z.sheet # NoSheet => UnusedSheet(z.sheet),
           IF z.op = "createPayment" THEN UnusedPayment(z.pay)
           ELSE z.pay # NoPayment => LivePay(z.pay)
    PROVE  IInv'
<1>1. req' = [req EXCEPT ![p] = z] /\ Unwritten
    BY DEF Begin
<1>2. ASSUME NEW q \in Requests \ {p} PROVE Apart(z, req[q]) /\ Apart(req[q], z)
    <2>1. Shape(req[q]) /\ req[q] \in Request
        BY Known
    <2>2. z.sheet # NoSheet => z.sheet # req[q].sheet /\ z.sheet \notin req[q].drop
        BY DEF UnusedSheet
    <2>3. z.op = "createPayment" => req[q].pay # z.pay
        BY DEF UnusedPayment
    <2>4. ASSUME req[q].op = "createPayment" PROVE z.pay # req[q].pay
        <3>1. req[q].pay \in Payments /\ payment[req[q].pay] = Unpaid
            BY <2>1, <2>4 DEF Shape, CreatesPayment
        <3>2. ~LivePay(req[q].pay)
            BY <3>1 DEF LivePay, Unpaid
        <3>3. req[q].pay # NoPayment
            BY <3>1, InvoiceAssumption
        <3> QED BY <2>3, <3>2, <3>3
    <2> QED BY <2>2, <2>3, <2>4 DEF Apart
<1> QED BY <1>1, <1>2, LocalStep

\* The fields of a request that has just begun.
LEMMA IdleFields ==
    /\ Idle \in Request /\ Idle.inv = NoInvoice /\ Idle.pay = NoPayment
    /\ Idle.sheet = NoSheet /\ Idle.drop = {} /\ Idle.give = Unpaid /\ Idle.left = <<>>
    /\ Idle.stale = FALSE /\ Idle.status = "keep" /\ Unpaid.state = "none"
    /\ Unpaid.invoice = NoInvoice /\ \A v \in Invoices : ~Wrote(Idle, v)
<1>1. Idle \in Request
    BY DEF Idle, Request, PCs, Ops, NoRow, InvoiceRow, Statuses, Unpaid, PaymentRow
<1>2. \A v \in Invoices : ~Wrote(Idle, v)
    BY DEF Idle, Wrote, NoRow
<1> QED BY <1>1, <1>2 DEF Idle, Unpaid

\* An edit of an invoice, with other lines or without.
LEMMA UpdateInvoiceKeeps ==
    ASSUME IInv, NEW p \in Requests, UpdateInvoice(p)
    PROVE  IInv'
<1>0. PICK v \in Invoices, s \in Sheets \cup {NoSheet}, adjust \in Adjustments,
           status \in SetTo \cup {"keep"} :
          LET subtotal == IF s = NoSheet THEN invoice[v].subtotal ELSE SheetSum[s] IN
          /\ Live(v)
          /\ s # NoSheet => UnusedSheet(s)
          /\ subtotal + adjust >= 0
          /\ Begin(p, [Idle EXCEPT !.pc = IF s = NoSheet THEN "writeInvoice" ELSE "findLines",
                                   !.op = "updateInvoice", !.inv = v, !.sheet = s,
                                   !.new = [state |-> "live", status |-> "draft",
                                            subtotal |-> subtotal, adjust |-> adjust,
                                            total |-> subtotal + adjust],
                                   !.status = status])
    BY Zenon DEF UpdateInvoice
<1>01. PICK subtotal : subtotal = IF s = NoSheet THEN invoice[v].subtotal ELSE SheetSum[s]
    OBVIOUS
<1>1. /\ subtotal = IF s = NoSheet THEN invoice[v].subtotal ELSE SheetSum[s]
      /\ Live(v) /\ (s # NoSheet => UnusedSheet(s)) /\ subtotal + adjust >= 0
      /\ Begin(p, [Idle EXCEPT !.pc = IF s = NoSheet THEN "writeInvoice" ELSE "findLines",
                               !.op = "updateInvoice", !.inv = v, !.sheet = s,
                               !.new = [state |-> "live", status |-> "draft",
                                        subtotal |-> subtotal, adjust |-> adjust,
                                        total |-> subtotal + adjust],
                               !.status = status])
    BY <1>0, <1>01
<1> DEFINE new == [state |-> "live", status |-> "draft", subtotal |-> subtotal,
                   adjust |-> adjust, total |-> subtotal + adjust]
           z == [Idle EXCEPT !.pc = IF s = NoSheet THEN "writeInvoice" ELSE "findLines",
                             !.op = "updateInvoice", !.inv = v, !.sheet = s,
                             !.new = new, !.status = status]
<1>2. /\ z.pc = (IF s = NoSheet THEN "writeInvoice" ELSE "findLines") /\ z.op = "updateInvoice"
      /\ z.inv = v /\ z.sheet = s /\ z.new = new /\ z.status = status /\ z.stale = FALSE
      /\ z.pay = NoPayment /\ z.drop = {} /\ z.give = Unpaid /\ z.left = <<>>
      /\ \A w \in Invoices : ~Wrote(z, w)
    BY IdleFields DEF Request, Wrote
<1>3. new \in InvoiceRow
    <2>1. subtotal \in Nat
        BY <1>1, InvoiceAssumption DEF IInv, TypeOK, InvoiceRow
    <2>2. adjust \in Int /\ subtotal + adjust \in Nat
        BY <1>1, <2>1, InvoiceAssumption
    <2> QED BY <2>1, <2>2 DEF InvoiceRow, Statuses
<1>4. z \in Request
    <2>1. status \in Statuses \cup {"keep"}
        BY InvoiceAssumption
    <2>2. "writeInvoice" \in PCs /\ "findLines" \in PCs /\ "updateInvoice" \in Ops
        BY DEF PCs, Ops
    <2> HIDE DEF new
    <2>3. PICK y : y = [Idle EXCEPT !.pc = IF s = NoSheet THEN "writeInvoice" ELSE "findLines",
                                    !.op = "updateInvoice", !.inv = v]
        OBVIOUS
    <2>4. y \in Request
        BY <2>2, <2>3, IdleFields DEF Request
    <2>5. z = [y EXCEPT !.sheet = s, !.new = new, !.status = status]
        BY <2>3
    <2> HIDE DEF z
    <2> QED BY <1>3, <2>1, <2>4, <2>5 DEF Request
<1>5. Figures(z, new)
    BY <1>1, <1>2 DEF Figures
<1>6. Begin(p, z)
    BY <1>1
<1> HIDE DEF z, new
<1>7. Named(z) = {v}
    BY <1>2, IdleFields, InvoiceAssumption DEF Named
<1>8. Shape(z)
    <2>1. UpdatesInvoice(z)
        BY <1>2 DEF UpdatesInvoice, Changing, Settling
    <2>2. z.left \in Lists(Named(z))
        BY <1>2 DEF Lists
    <2>3. s # NoSheet => sheet[s] = NoLines
        BY <1>1 DEF UnusedSheet
    <2>4. invoice[v].state # "none"
        BY <1>1 DEF Live
    <2> QED BY <1>2, <1>7, <2>1, <2>2, <2>3, <2>4 DEF Shape
<1>9. Fresh(z)
    <2>1. FreshEdit(z)
        BY <1>2, <1>5 DEF FreshEdit, Settling
    <2>2. FreshStatus(z)
        BY <1>2 DEF FreshStatus, Settling
    <2> QED BY <1>2, <2>1, <2>2 DEF Fresh
<1> QED BY <1>1, <1>2, <1>4, <1>6, <1>8, <1>9, BeginKeeps

\* The deletion of an invoice.
LEMMA DeleteInvoiceKeeps ==
    ASSUME IInv, NEW p \in Requests, DeleteInvoice(p)
    PROVE  IInv'
<1>1. PICK v \in Invoices :
          /\ Live(v)
          /\ Begin(p, [Idle EXCEPT !.pc = "countPayments", !.op = "deleteInvoice", !.inv = v])
    BY DEF DeleteInvoice
<1> DEFINE z == [Idle EXCEPT !.pc = "countPayments", !.op = "deleteInvoice", !.inv = v]
<1>2. /\ z.pc = "countPayments" /\ z.op = "deleteInvoice"
      /\ z.inv = v /\ z.sheet = NoSheet /\ z.stale = FALSE /\ z.status = "keep"
      /\ z.pay = NoPayment /\ z.drop = {} /\ z.give = Unpaid /\ z.left = <<>>
      /\ \A w \in Invoices : ~Wrote(z, w)
    BY IdleFields DEF Request, Wrote
<1>3. z \in Request
    <2>1. "countPayments" \in PCs /\ "deleteInvoice" \in Ops
        BY DEF PCs, Ops
    <2> QED BY <2>1, IdleFields DEF Request
<1>4. Begin(p, z)
    BY <1>1
<1> HIDE DEF z
<1>5. Named(z) = {v}
    BY <1>2, IdleFields, InvoiceAssumption DEF Named
<1>6. Shape(z)
    <2>1. DeletesInvoice(z)
        BY <1>2 DEF DeletesInvoice
    <2>2. z.left \in Lists(Named(z))
        BY <1>2 DEF Lists
    <2>3. invoice[v].state # "none"
        BY <1>1 DEF Live
    <2> QED BY <1>2, <1>5, <2>1, <2>2, <2>3 DEF Shape
<1>7. Fresh(z)
    BY <1>2 DEF Fresh, FreshDelete, FreshStatus, Settling
<1> QED BY <1>2, <1>3, <1>4, <1>6, <1>7, BeginKeeps

\* A new payment, on a live invoice or on none.
LEMMA CreatePaymentKeeps ==
    ASSUME IInv, NEW p \in Requests, CreatePayment(p)
    PROVE  IInv'
<1>1. PICK k \in Payments, v \in Payable, n \in Amounts :
          /\ UnusedPayment(k)
          /\ Begin(p, Recalculating(
                          [Idle EXCEPT !.op = "createPayment", !.pay = k,
                                       !.give = [state |-> "live", invoice |-> v, amount |-> n]],
                          Listed(v)))
    BY DEF CreatePayment
<1> DEFINE give == [state |-> "live", invoice |-> v, amount |-> n]
           z == [Idle EXCEPT !.op = "createPayment", !.pay = k, !.give = give,
                             !.left = Listed(v),
                             !.pc = IF Listed(v) = <<>> THEN "commit" ELSE "recalc"]
<1>2. v \in Invoices \cup {NoInvoice} /\ (v # NoInvoice => v \in Invoices /\ Live(v))
    BY DEF Payable
<1>3. Listed(v) = IF v = NoInvoice THEN <<>> ELSE <<v>>
    BY DEF Listed
<1>4. /\ z.pc = (IF v = NoInvoice THEN "commit" ELSE "recalc") /\ z.op = "createPayment"
      /\ z.inv = NoInvoice /\ z.sheet = NoSheet /\ z.stale = FALSE /\ z.status = "keep"
      /\ z.pay = k /\ z.drop = {} /\ z.give = give /\ z.left = Listed(v)
      /\ \A w \in Invoices : ~Wrote(z, w)
    BY <1>3, IdleFields DEF Request, Wrote
<1>5. give \in PaymentRow
    <2>1. n \in Nat
        BY InvoiceAssumption
    <2> QED BY <1>2, <2>1 DEF PaymentRow
<1>6. z \in Request
    <2>1. Listed(v) \in Seq(Invoices)
        <3>1. CASE v = NoInvoice
            BY <1>3, <3>1
        <3>2. CASE v # NoInvoice
            BY <1>2, <1>3, <3>2
        <3> QED BY <3>1, <3>2
    <2>2. "commit" \in PCs /\ "recalc" \in PCs /\ "createPayment" \in Ops
        BY DEF PCs, Ops
    <2> HIDE DEF give
    <2>3. PICK y : y = [Idle EXCEPT !.op = "createPayment", !.pay = k, !.give = give]
        OBVIOUS
    <2>4. y \in Request
        BY <1>5, <2>2, <2>3, IdleFields DEF Request
    <2>5. z = [y EXCEPT !.left = Listed(v),
                        !.pc = IF Listed(v) = <<>> THEN "commit" ELSE "recalc"]
        BY <2>3
    <2> HIDE DEF z
    <2> QED BY <2>1, <2>2, <2>4, <2>5 DEF Request
<1>7. Begin(p, z)
    <2>1. z = Recalculating([Idle EXCEPT !.op = "createPayment", !.pay = k, !.give = give],
                            Listed(v))
        BY IdleFields DEF Recalculating, Request
    <2> QED BY <1>1, <2>1
<1>8. give.state = "live" /\ give.invoice = v
    OBVIOUS
<1> HIDE DEF z, give
<1>9. Named(z) = {v} \cap Invoices
    BY <1>2, <1>4, <1>8, InvoiceAssumption DEF Named
<1>10. payment[k] = Unpaid
    BY <1>1 DEF IInv, DataInv, UnusedPayment
<1>11. z.left \in Lists(Named(z)) /\ (z.left # <<>> => Todo(z) = {v})
    <2>1. CASE v = NoInvoice
        BY <1>3, <1>4, <2>1 DEF Lists
    <2>2. CASE v # NoInvoice
        <3>1. z.left = <<v>> /\ v \in Named(z)
            BY <1>2, <1>3, <1>4, <1>9, <2>2
        <3>2. Range(<<v>>) = {v}
            BY DEF Range
        <3> QED BY <3>1, <3>2 DEF Lists, Todo
    <2> QED BY <2>1, <2>2
<1>12. Shape(z)
    <2>1. CreatesPayment(z)
        BY <1>3, <1>4, <1>8, <1>10 DEF CreatesPayment, Settling
    <2>2. v \in Invoices => invoice[v].state # "none"
        BY <1>2, InvoiceAssumption DEF Live
    <2>3. z.pc \in {"recalc", "sum", "status"} <=> z.left # <<>>
        BY <1>3, <1>4
    <2> QED BY <1>4, <1>9, <1>11, <2>1, <2>2, <2>3 DEF Shape
<1>13. Fresh(z)
    <2>1. FreshPayment(z)
        <3>1. \A w \in Invoices \ raced : w = z.give.invoice => Live(w)
            BY <1>2, <1>4, <1>8, InvoiceAssumption
        <3> QED BY <1>4, <3>1 DEF FreshPayment
    <2>2. FreshStatus(z)
        <3>1. Named(z) \subseteq Todo(z)
            <4>1. CASE v = NoInvoice
                BY <1>9, <4>1, InvoiceAssumption
            <4>2. CASE v # NoInvoice
                BY <1>3, <1>4, <1>9, <1>11, <4>2
            <4> QED BY <4>1, <4>2
        <3> QED BY <1>4, <3>1 DEF FreshStatus
    <2> QED BY <1>4, <2>1, <2>2 DEF Fresh
<1> QED BY <1>1, <1>4, <1>6, <1>7, <1>12, <1>13, BeginKeeps

\* The correction of a payment, and its deletion: nothing is written yet.
LEMMA ChangePaymentKeeps ==
    ASSUME IInv, NEW p \in Requests, NEW k \in Payments, LivePay(k),
           NEW op \in {"updatePayment", "deletePayment"}, NEW give \in PaymentRow,
           NEW move \in BOOLEAN,
           op = "updatePayment" => give.state = "live",
           op = "deletePayment" => give = Unpaid,
           give.invoice # NoInvoice => Live(give.invoice),
           Begin(p, [Idle EXCEPT !.pc = "writePayment", !.op = op, !.pay = k,
                                 !.inv = payment[k].invoice, !.move = move, !.give = give])
    PROVE  IInv'
<1>1. PICK v : v = payment[k].invoice
    OBVIOUS
<1> DEFINE z == [Idle EXCEPT !.pc = "writePayment", !.op = op, !.pay = k, !.inv = v,
                             !.move = move, !.give = give]
<1>2. /\ z.pc = "writePayment" /\ z.op = op /\ z.give = give
      /\ z.inv = v /\ z.sheet = NoSheet /\ z.stale = FALSE /\ z.status = "keep"
      /\ z.pay = k /\ z.drop = {} /\ z.left = <<>>
      /\ \A w \in Invoices : ~Wrote(z, w)
    BY IdleFields DEF Request, Wrote
<1>3. v \in Invoices \cup {NoInvoice} /\ (v # NoInvoice => invoice[v].state # "none")
    BY <1>1 DEF IInv, TypeOK, PaymentRow, DataInv
<1>4. z \in Request
    <2>1. "writePayment" \in PCs /\ op \in Ops
        BY DEF PCs, Ops
    <2> QED BY <1>3, <2>1, IdleFields DEF Request
<1>5. Begin(p, z)
    BY <1>1
<1> HIDE DEF z
<1>6. Shape(z)
    <2>1. WritesPayment(z)
        BY <1>2 DEF WritesPayment, Settling, LivePay
    <2>2. z.left \in Lists(Named(z))
        BY <1>2 DEF Lists
    <2>3. \A w \in Named(z) : invoice[w].state # "none"
        BY <1>2, <1>3, InvoiceAssumption DEF Named, Live
    <2> QED BY <1>2, <2>1, <2>2, <2>3 DEF Shape
<1>7. Fresh(z)
    <2>1. FreshPayment(z)
        <3>1. payment[z.pay].invoice = z.inv /\ payment[z.pay].state = "live"
            BY <1>1, <1>2 DEF LivePay
        <3>2. \A w \in Invoices \ raced : w = z.give.invoice => Live(w)
            BY <1>2, InvoiceAssumption
        <3>3. z.op = "deletePayment" => z.give.invoice = NoInvoice
            BY <1>2, IdleFields
        <3> QED BY <1>2, <3>1, <3>2, <3>3 DEF FreshPayment
    <2>2. FreshStatus(z)
        BY <1>2 DEF FreshStatus, Settling
    <2> QED BY <1>2, <2>1, <2>2 DEF Fresh
<1> QED BY <1>2, <1>4, <1>5, <1>6, <1>7, BeginKeeps

\* The correction of a payment, which may move it to another invoice.
LEMMA UpdatePaymentKeeps ==
    ASSUME IInv, NEW p \in Requests, UpdatePayment(p)
    PROVE  IInv'
<1>1. PICK k \in Payments, move \in BOOLEAN, n \in Amounts \cup {0} :
      \E v \in IF move THEN Payable ELSE {NoInvoice} :
          /\ LivePay(k)
          /\ Begin(p, [Idle EXCEPT !.pc = "writePayment", !.op = "updatePayment", !.pay = k,
                                   !.inv = payment[k].invoice, !.move = move,
                                   !.give = [state |-> "live", invoice |-> v,
                                             amount |-> IF n = 0 THEN payment[k].amount ELSE n]])
    BY DEF UpdatePayment
<1>2. PICK v \in IF move THEN Payable ELSE {NoInvoice} :
          /\ LivePay(k)
          /\ Begin(p, [Idle EXCEPT !.pc = "writePayment", !.op = "updatePayment", !.pay = k,
                                   !.inv = payment[k].invoice, !.move = move,
                                   !.give = [state |-> "live", invoice |-> v,
                                             amount |-> IF n = 0 THEN payment[k].amount ELSE n]])
    BY <1>1
<1>3. v \in Invoices \cup {NoInvoice} /\ (v # NoInvoice => Live(v))
    BY DEF Payable
<1> DEFINE give == [state |-> "live", invoice |-> v,
                    amount |-> IF n = 0 THEN payment[k].amount ELSE n]
<1>4. give \in PaymentRow
    <2>1. n \in Nat /\ payment[k].amount \in Nat
        BY InvoiceAssumption DEF IInv, TypeOK, PaymentRow
    <2> QED BY <1>3, <2>1 DEF PaymentRow
<1>5. give.state = "live" /\ give.invoice = v
    OBVIOUS
<1>6. Begin(p, [Idle EXCEPT !.pc = "writePayment", !.op = "updatePayment", !.pay = k,
                            !.inv = payment[k].invoice, !.move = move, !.give = give])
    BY <1>2
<1> HIDE DEF give
<1> QED BY <1>2, <1>3, <1>4, <1>5, <1>6, ChangePaymentKeeps

\* The deletion of a payment.
LEMMA DeletePaymentKeeps ==
    ASSUME IInv, NEW p \in Requests, DeletePayment(p)
    PROVE  IInv'
<1>1. PICK k \in Payments :
          /\ LivePay(k)
          /\ Begin(p, [Idle EXCEPT !.pc = "writePayment", !.op = "deletePayment", !.pay = k,
                                   !.inv = payment[k].invoice])
    BY DEF DeletePayment
<1>2. [Idle EXCEPT !.pc = "writePayment", !.op = "deletePayment", !.pay = k,
                   !.inv = payment[k].invoice]
      = [Idle EXCEPT !.pc = "writePayment", !.op = "deletePayment", !.pay = k,
                     !.inv = payment[k].invoice, !.move = FALSE, !.give = Unpaid]
    <2>1. Idle.move = FALSE
        BY DEF Idle
    <2> QED BY <2>1, IdleFields DEF Request
<1>3. Unpaid \in PaymentRow /\ Unpaid.invoice = NoInvoice
    BY DEF Unpaid, PaymentRow
<1> QED BY <1>1, <1>2, <1>3, ChangePaymentKeeps

-----------------------------------------------------------------------------
(* Statements before a request settles.                                    *)

\* Of a request that is still changing rows: it edits an invoice and has written none.
LEMMA ChangingFields ==
    ASSUME NEW r \in Request, Shape(r), r.pc \in Changing
    PROVE  /\ r.op = "updateInvoice" /\ r.inv \in Invoices /\ r.pay = NoPayment
           /\ r.give = Unpaid /\ r.left = <<>> /\ Named(r) = {r.inv}
           /\ \A v \in Invoices : ~Wrote(r, v)
           /\ r.sheet = NoSheet => r.drop = {}
           /\ r.pc \in {"findLines", "replaceLines"} => r.sheet # NoSheet
           /\ invoice[r.inv].state # "none"
<1>1. r.op = "updateInvoice"
    BY DEF Shape, Changing, Request, Ops, DeletesInvoice, CreatesPayment, WritesPayment, Settling
<1>2. UpdatesInvoice(r)
    BY <1>1 DEF Shape
<1>3. \A v \in Invoices : ~Wrote(r, v)
    BY DEF Shape, Changing, Settling
<1>4. r.left = <<>>
    BY DEF Shape, Changing
<1>5. Named(r) = {r.inv}
    BY <1>2, IdleFields, InvoiceAssumption DEF UpdatesInvoice, Named
<1>6. invoice[r.inv].state # "none"
    BY <1>5 DEF Shape
<1> QED BY <1>1, <1>2, <1>3, <1>4, <1>5, <1>6 DEF UpdatesInvoice

\* The lines of the invoice are found, to be deleted.
LEMMA FindLinesKeeps ==
    ASSUME IInv, NEW p \in Requests, FindLines(p)
    PROVE  IInv'
<1>1. PICK r : r = req[p]
    OBVIOUS
<1>2. r.pc = "findLines" /\ Unwritten
    BY <1>1 DEF FindLines
<1>3. /\ r \in Request /\ Shape(r) /\ (~r.stale => Fresh(r)) /\ req \in [Requests -> Request]
    BY <1>1, Known
<1>4. /\ r.op = "updateInvoice" /\ r.inv \in Invoices /\ r.pay = NoPayment
      /\ r.give = Unpaid /\ r.left = <<>> /\ Named(r) = {r.inv} /\ r.sheet # NoSheet
      /\ invoice[r.inv].state # "none" /\ \A v \in Invoices : ~Wrote(r, v)
    BY <1>2, <1>3, ChangingFields DEF Changing
<1> DEFINE z == [r EXCEPT !.pc = "replaceLines", !.drop = LinesOf(r.inv)]
<1>5. req' = [req EXCEPT ![p] = z]
    BY <1>1, <1>3 DEF FindLines
<1>6. /\ z.op = r.op /\ z.inv = r.inv /\ z.pay = r.pay /\ z.sheet = r.sheet /\ z.give = r.give
      /\ z.stale = r.stale /\ z.wrote = r.wrote /\ z.left = r.left /\ z.new = r.new
      /\ z.pc = "replaceLines" /\ z.drop = LinesOf(r.inv)
    BY <1>3 DEF Request
<1>7. z \in Request
    BY <1>3 DEF Request, PCs, LinesOf
<1> HIDE DEF z
<1>8. Named(z) = {r.inv} /\ \A v \in Invoices : ~Wrote(z, v)
    BY <1>4, <1>6 DEF Named, Wrote
<1>9. sheet[r.sheet] = NoLines /\ r.sheet \notin LinesOf(r.inv)
    <2>1. sheet[r.sheet] = NoLines
        BY <1>3, <1>4 DEF Shape
    <2> QED BY <2>1 DEF LinesOf, NoLines
<1>10. Shape(z)
    <2>1. UpdatesInvoice(z)
        BY <1>4, <1>6 DEF UpdatesInvoice, Changing, Settling
    <2>2. z.left \in Lists(Named(z))
        BY <1>4, <1>6 DEF Lists
    <2>3. \A s \in z.drop : sheet[s].invoice = z.inv
        BY <1>6 DEF LinesOf
    <2> QED BY <1>4, <1>6, <1>8, <1>9, <2>1, <2>2, <2>3 DEF Shape
<1>11. ASSUME ~z.stale PROVE Fresh(z)
    <2>1. Fresh(r)
        BY <1>3, <1>6, <1>11
    <2>2. Figures(r, r.new)
        BY <1>2, <1>4, <2>1 DEF Fresh, FreshEdit, Changing
    <2>3. FreshEdit(z)
        BY <1>6, <2>2 DEF FreshEdit, Figures, Settling
    <2>4. FreshStatus(z)
        BY <1>6 DEF FreshStatus, Settling
    <2> QED BY <1>4, <1>6, <1>8, <2>3, <2>4 DEF Fresh
<1>12. ASSUME NEW q \in Requests \ {p} PROVE Apart(z, req[q]) /\ Apart(req[q], z)
    <2>1. Apart(r, req[q]) /\ Apart(req[q], r)
        BY <1>1 DEF IInv
    <2>2. Shape(req[q])
        BY Known
    <2>3. req[q].sheet # NoSheet => req[q].sheet \notin LinesOf(r.inv)
        BY <2>2 DEF Shape, LinesOf, NoLines
    <2> QED BY <1>6, <2>1, <2>3 DEF Apart
<1> QED BY <1>2, <1>5, <1>7, <1>10, <1>11, <1>12, LocalStep

\* Those still there are deleted, and the new ones added.
LEMMA ReplaceLinesKeeps ==
    ASSUME IInv, NEW p \in Requests, ReplaceLines(p)
    PROVE  IInv'
<1>1. PICK r : r = req[p]
    OBVIOUS
<1>2. r.pc = "replaceLines" /\ Unwritten
    BY <1>1 DEF ReplaceLines
<1>3. /\ r \in Request /\ Shape(r) /\ (~r.stale => Fresh(r)) /\ req \in [Requests -> Request]
    BY <1>1, Known
<1>4. /\ r.op = "updateInvoice" /\ r.inv \in Invoices /\ r.pay = NoPayment
      /\ r.give = Unpaid /\ r.left = <<>> /\ Named(r) = {r.inv} /\ r.sheet # NoSheet
      /\ invoice[r.inv].state # "none" /\ \A v \in Invoices : ~Wrote(r, v)
    BY <1>2, <1>3, ChangingFields DEF Changing
<1> DEFINE z == [r EXCEPT !.pc = "writeInvoice", !.drop = r.drop \cap LinesOf(r.inv)]
<1>5. req' = [req EXCEPT ![p] = z]
    BY <1>1, <1>3 DEF ReplaceLines
<1>6. /\ z.op = r.op /\ z.inv = r.inv /\ z.pay = r.pay /\ z.sheet = r.sheet /\ z.give = r.give
      /\ z.stale = r.stale /\ z.wrote = r.wrote /\ z.left = r.left /\ z.new = r.new
      /\ z.pc = "writeInvoice" /\ z.drop = r.drop \cap LinesOf(r.inv)
    BY <1>3 DEF Request
<1>7. z \in Request
    BY <1>3 DEF Request, PCs
<1> HIDE DEF z
<1>8. Named(z) = {r.inv} /\ \A v \in Invoices : ~Wrote(z, v)
    BY <1>4, <1>6 DEF Named, Wrote
<1>9. Shape(z)
    <2>1. UpdatesInvoice(z)
        BY <1>4, <1>6 DEF UpdatesInvoice, Changing, Settling
    <2>2. z.left \in Lists(Named(z))
        BY <1>4, <1>6 DEF Lists
    <2>3. \A s \in z.drop : sheet[s].invoice = z.inv
        BY <1>6 DEF LinesOf
    <2>4. sheet[z.sheet] = NoLines /\ z.sheet \notin z.drop
        BY <1>3, <1>4, <1>6 DEF Shape
    <2> QED BY <1>4, <1>6, <1>8, <2>1, <2>2, <2>3, <2>4 DEF Shape
<1>10. ASSUME ~z.stale PROVE Fresh(z)
    <2>1. Fresh(r)
        BY <1>3, <1>6, <1>10
    <2>2. Figures(r, r.new) /\ LinesOf(r.inv) \subseteq r.drop
        BY <1>2, <1>4, <2>1 DEF Fresh, FreshEdit, Changing
    <2>3. FreshEdit(z)
        BY <1>6, <2>2 DEF FreshEdit, Figures, Settling
    <2>4. FreshStatus(z)
        BY <1>6 DEF FreshStatus, Settling
    <2> QED BY <1>4, <1>6, <1>8, <2>3, <2>4 DEF Fresh
<1>11. \A q \in Requests \ {p} : Apart(z, req[q]) /\ Apart(req[q], z)
    BY <1>1, <1>6, StaysApart
<1> QED BY <1>2, <1>5, <1>7, <1>9, <1>10, <1>11, LocalStep

\* The invoice is written, with the figures computed before the transaction began.
LEMMA WriteInvoiceKeeps ==
    ASSUME IInv, NEW p \in Requests, WriteInvoice(p)
    PROVE  IInv'
<1>1. PICK r : r = req[p]
    OBVIOUS
<1>2. PICK v : v = r.inv
    OBVIOUS
<1>3. r.pc = "writeInvoice" /\ Unwritten
    BY <1>1 DEF WriteInvoice
<1>4. /\ r \in Request /\ Shape(r) /\ (~r.stale => Fresh(r)) /\ req \in [Requests -> Request]
    BY <1>1, Known
<1>5. /\ r.op = "updateInvoice" /\ v \in Invoices /\ r.pay = NoPayment
      /\ r.give = Unpaid /\ r.left = <<>> /\ Named(r) = {v}
      /\ r.sheet = NoSheet => r.drop = {}
      /\ invoice[v].state # "none" /\ \A w \in Invoices : ~Wrote(r, w)
    BY <1>2, <1>3, <1>4, ChangingFields DEF Changing
<1>6. PICK row : row = [invoice[v] EXCEPT
                           !.status = IF r.status = "keep" THEN @ ELSE r.status,
                           !.subtotal = r.new.subtotal, !.adjust = r.new.adjust,
                           !.total = r.new.total]
    OBVIOUS
<1>7. /\ row \in InvoiceRow /\ row.state = invoice[v].state
      /\ row.subtotal = r.new.subtotal /\ row.adjust = r.new.adjust /\ row.total = r.new.total
    <2>1. invoice[v] \in InvoiceRow
        BY <1>5 DEF IInv, TypeOK
    <2>2. r.new \in InvoiceRow /\ r.status \in Statuses \cup {"keep"}
        BY <1>4 DEF Request
    <2> QED BY <1>6, <2>1, <2>2 DEF InvoiceRow
<1>8. PICK z : z = [r EXCEPT !.pc = "recalc", !.left = <<v>>, !.new = NoRow, !.status = "keep",
                             !.wrote = [r.wrote EXCEPT ![v] = row]]
    OBVIOUS
<1>9. req' = [req EXCEPT ![p] = z]
    BY <1>1, <1>2, <1>4, <1>6, <1>8 DEF WriteInvoice, Request
<1>10. /\ z.op = r.op /\ z.inv = v /\ z.pay = r.pay /\ z.sheet = r.sheet /\ z.give = r.give
       /\ z.stale = r.stale /\ z.wrote = [r.wrote EXCEPT ![v] = row] /\ z.left = <<v>>
       /\ z.pc = "recalc" /\ z.drop = r.drop /\ z.status = "keep"
    BY <1>2, <1>4, <1>8 DEF Request
<1>11. z \in Request
    <2>1. NoRow \in InvoiceRow
        BY DEF NoRow, InvoiceRow, Statuses
    <2>2. [r.wrote EXCEPT ![v] = row] \in [Invoices -> InvoiceRow]
        BY <1>4, <1>7 DEF Request
    <2>3. <<v>> \in Seq(Invoices)
        BY <1>5
    <2> QED BY <1>4, <1>8, <2>1, <2>2, <2>3 DEF Request, PCs
<1>12. /\ z.wrote[v] = row /\ Wrote(z, v)
       /\ \A w \in Invoices \ {v} : ~Wrote(z, w)
    <2>1. z.wrote[v] = row /\ \A w \in Invoices \ {v} : z.wrote[w] = r.wrote[w]
        BY <1>4, <1>5, <1>10 DEF Request
    <2> QED BY <1>5, <1>7, <2>1 DEF Wrote
<1>13. Named(z) = {v} /\ Todo(z) = {v}
    <2>1. Named(z) = Named(r)
        BY <1>2, <1>10 DEF Named
    <2>2. Range(<<v>>) = {v}
        BY DEF Range
    <2> QED BY <1>5, <1>10, <2>1, <2>2 DEF Todo
<1>14. Shape(z)
    <2>1. UpdatesInvoice(z)
        BY <1>5, <1>10, <1>12 DEF UpdatesInvoice, Changing, Settling
    <2>2. z.left \in Lists(Named(z)) /\ z.left # <<>>
        BY <1>10, <1>13 DEF Lists
    <2>3. \A s \in z.drop : sheet[s].invoice \in {z.inv, NoInvoice}
        BY <1>2, <1>4, <1>10 DEF Shape
    <2>4. z.sheet # NoSheet => sheet[z.sheet] = NoLines /\ z.sheet \notin z.drop
        BY <1>4, <1>10 DEF Shape
    <2> QED BY <1>5, <1>10, <1>12, <1>13, <2>1, <2>2, <2>3, <2>4 DEF Shape, Settling
<1>15. ASSUME ~z.stale PROVE Fresh(z)
    <2>1. Fresh(r)
        BY <1>4, <1>10, <1>15
    <2>2. /\ Figures(r, r.new)
          /\ r.sheet # NoSheet => LinesOf(v) \subseteq r.drop
        BY <1>2, <1>3, <1>5, <2>1 DEF Fresh, FreshEdit, Changing
    <2>3. Figures(z, z.wrote[z.inv])
        BY <1>2, <1>7, <1>10, <1>12, <2>2 DEF Figures
    <2>4. FreshEdit(z)
        BY <1>10, <2>2, <2>3 DEF FreshEdit, Changing
    <2>5. FreshStatus(z)
        BY <1>10, <1>13 DEF FreshStatus
    <2> QED BY <1>5, <1>7, <1>10, <1>12, <2>4, <2>5 DEF Fresh
<1>16. \A q \in Requests \ {p} : Apart(z, req[q]) /\ Apart(req[q], z)
    BY <1>1, <1>2, <1>10, StaysApart
<1> QED BY <1>3, <1>9, <1>11, <1>14, <1>15, <1>16, LocalStep

\* Of a request that deletes an invoice, before it does.
LEMMA DeletingFields ==
    ASSUME NEW r \in Request, Shape(r), r.pc \in {"countPayments", "deleteInvoice"}
    PROVE  /\ r.op = "deleteInvoice" /\ r.inv \in Invoices /\ r.pay = NoPayment
           /\ r.give = Unpaid /\ r.left = <<>> /\ Named(r) = {r.inv} /\ r.sheet = NoSheet
           /\ r.drop = {} /\ invoice[r.inv].state # "none"
           /\ \A v \in Invoices : ~Wrote(r, v)
<1>1. r.op = "deleteInvoice"
    BY DEF Shape, Changing, Request, Ops, UpdatesInvoice, CreatesPayment, WritesPayment, Settling
<1>2. DeletesInvoice(r)
    BY <1>1 DEF Shape
<1>3. \A v \in Invoices : ~Wrote(r, v)
    BY DEF Shape, Settling
<1>4. r.left = <<>> /\ r.drop = {}
    BY <1>1 DEF Shape
<1>5. Named(r) = {r.inv}
    BY <1>2, IdleFields, InvoiceAssumption DEF DeletesInvoice, Named
<1>6. invoice[r.inv].state # "none"
    BY <1>5 DEF Shape
<1> QED BY <1>1, <1>2, <1>3, <1>4, <1>5, <1>6 DEF DeletesInvoice

\* The payments of an invoice that is to be deleted are counted.
LEMMA CountPaymentsKeeps ==
    ASSUME IInv, NEW p \in Requests, CountPayments(p)
    PROVE  IInv'
<1>1. PICK r : r = req[p]
    OBVIOUS
<1>2. r.pc = "countPayments" /\ Unwritten
    BY <1>1 DEF CountPayments
<1>3. /\ r \in Request /\ Shape(r) /\ (~r.stale => Fresh(r)) /\ req \in [Requests -> Request]
    BY <1>1, Known
<1>4. /\ r.op = "deleteInvoice" /\ r.inv \in Invoices /\ r.pay = NoPayment
      /\ r.give = Unpaid /\ r.left = <<>> /\ Named(r) = {r.inv} /\ r.sheet = NoSheet
      /\ r.drop = {} /\ invoice[r.inv].state # "none" /\ \A v \in Invoices : ~Wrote(r, v)
    BY <1>2, <1>3, DeletingFields
<1>5. CASE PaidOn(r.inv) # {}
    <2>1. End(p)
        BY <1>1, <1>5 DEF CountPayments
    <2> QED BY <1>2, <2>1, EndKeeps
<1>6. CASE PaidOn(r.inv) = {}
    <2> DEFINE z == [r EXCEPT !.pc = "deleteInvoice"]
    <2>1. req' = [req EXCEPT ![p] = z]
        BY <1>1, <1>3, <1>6 DEF CountPayments, Goto
    <2>2. /\ z.op = r.op /\ z.inv = r.inv /\ z.pay = r.pay /\ z.sheet = r.sheet
          /\ z.give = r.give /\ z.stale = r.stale /\ z.wrote = r.wrote /\ z.left = r.left
          /\ z.pc = "deleteInvoice" /\ z.drop = r.drop
        BY <1>3 DEF Request
    <2>3. z \in Request
        BY <1>3 DEF Request, PCs
    <2> HIDE DEF z
    <2>4. Named(z) = {r.inv} /\ \A v \in Invoices : ~Wrote(z, v)
        BY <1>4, <2>2 DEF Named, Wrote
    <2>5. Shape(z)
        <3>1. DeletesInvoice(z)
            BY <1>4, <2>2 DEF DeletesInvoice
        <3>2. z.left \in Lists(Named(z))
            BY <1>4, <2>2 DEF Lists
        <3> QED BY <1>4, <2>2, <2>4, <3>1, <3>2 DEF Shape
    <2>6. Fresh(z)
        BY <1>4, <1>6, <2>2, <2>4 DEF Fresh, FreshDelete, FreshStatus, Settling
    <2>7. \A q \in Requests \ {p} : Apart(z, req[q]) /\ Apart(req[q], z)
        BY <1>1, <2>2, StaysApart
    <2> QED BY <1>2, <2>1, <2>3, <2>5, <2>6, <2>7, LocalStep
<1> QED BY <1>5, <1>6

\* The invoice is marked as deleted.
LEMMA MarkDeletedKeeps ==
    ASSUME IInv, NEW p \in Requests, MarkDeleted(p)
    PROVE  IInv'
<1>1. PICK r : r = req[p]
    OBVIOUS
<1>2. PICK v : v = r.inv
    OBVIOUS
<1>3. r.pc = "deleteInvoice" /\ Unwritten
    BY <1>1 DEF MarkDeleted
<1>4. /\ r \in Request /\ Shape(r) /\ (~r.stale => Fresh(r)) /\ req \in [Requests -> Request]
    BY <1>1, Known
<1>5. /\ r.op = "deleteInvoice" /\ v \in Invoices /\ r.pay = NoPayment
      /\ r.give = Unpaid /\ r.left = <<>> /\ Named(r) = {v} /\ r.sheet = NoSheet
      /\ r.drop = {} /\ invoice[v].state # "none" /\ \A w \in Invoices : ~Wrote(r, w)
    BY <1>2, <1>3, <1>4, DeletingFields
<1>6. PICK row : row = [invoice[v] EXCEPT !.state = "deleted"]
    OBVIOUS
<1>7. row \in InvoiceRow /\ row.state = "deleted"
    <2>1. invoice[v] \in InvoiceRow
        BY <1>5 DEF IInv, TypeOK
    <2> QED BY <1>6, <2>1 DEF InvoiceRow
<1>8. PICK z : z = [r EXCEPT !.pc = "commit", !.wrote = [r.wrote EXCEPT ![v] = row]]
    OBVIOUS
<1>9. req' = [req EXCEPT ![p] = z]
    BY <1>1, <1>2, <1>4, <1>6, <1>8 DEF MarkDeleted, Request
<1>10. /\ z.op = r.op /\ z.inv = v /\ z.pay = r.pay /\ z.sheet = r.sheet /\ z.give = r.give
       /\ z.stale = r.stale /\ z.wrote = [r.wrote EXCEPT ![v] = row] /\ z.left = r.left
       /\ z.pc = "commit" /\ z.drop = r.drop
    BY <1>2, <1>4, <1>8 DEF Request
<1>11. z \in Request
    <2>1. [r.wrote EXCEPT ![v] = row] \in [Invoices -> InvoiceRow]
        BY <1>4, <1>7 DEF Request
    <2> QED BY <1>4, <1>8, <2>1 DEF Request, PCs
<1>12. /\ z.wrote[v] = row /\ Wrote(z, v)
       /\ \A w \in Invoices \ {v} : ~Wrote(z, w)
    <2>1. z.wrote[v] = row /\ \A w \in Invoices \ {v} : z.wrote[w] = r.wrote[w]
        BY <1>4, <1>5, <1>10 DEF Request
    <2> QED BY <1>5, <1>7, <2>1 DEF Wrote
<1>13. Named(z) = {v}
    BY <1>2, <1>5, <1>10 DEF Named
<1>14. Shape(z)
    <2>1. DeletesInvoice(z)
        BY <1>5, <1>7, <1>10, <1>12 DEF DeletesInvoice
    <2>2. z.left \in Lists(Named(z))
        BY <1>5, <1>10 DEF Lists
    <2> QED BY <1>5, <1>10, <1>12, <1>13, <2>1, <2>2 DEF Shape, Settling
<1>15. ASSUME ~z.stale PROVE Fresh(z)
    <2>1. Fresh(r)
        BY <1>4, <1>10, <1>15
    <2>2. PaidOn(v) = {}
        BY <1>2, <1>3, <1>5, <2>1 DEF Fresh, FreshDelete
    <2>3. SettledBy(z, v)
        BY <1>7, <1>12 DEF SettledBy, RowBy
    <2>4. FreshStatus(z)
        BY <1>10, <1>13, <2>3 DEF FreshStatus
    <2> QED BY <1>5, <1>10, <2>2, <2>4 DEF Fresh, FreshDelete
<1>16. \A q \in Requests \ {p} : Apart(z, req[q]) /\ Apart(req[q], z)
    BY <1>1, <1>2, <1>10, StaysApart
<1> QED BY <1>3, <1>9, <1>11, <1>14, <1>15, <1>16, LocalStep

\* The invoices that a payment's change affects are the one it used to pay and the one it
\* now does.
LEMMA AffectedIsBoth ==
    ASSUME NEW a \in Invoices \cup {NoInvoice}, NEW b \in Invoices \cup {NoInvoice}
    PROVE  /\ Affected(a, b) \in Lists({a, b} \cap Invoices)
           /\ Range(Affected(a, b)) = {a, b} \cap Invoices
<1>1. ASSUME NEW x, NEW y
      PROVE  Range(<<>>) = {} /\ Range(<<x>>) = {x} /\ Range(<<x, y>>) = {x, y}
    BY DEF Range
<1>2. ASSUME NEW x, NEW y
      PROVE  <<>> \in Lists({}) /\ <<x>> \in Lists({x}) /\ <<x, y>> \in Lists({x, y})
    BY DEF Lists
<1>3. PICK l, N : l = Affected(a, b) /\ N = {a, b} \cap Invoices
    OBVIOUS
<1>4. CASE a = NoInvoice /\ b = NoInvoice
    <2>1. Affected(a, b) = <<>> /\ {a, b} \cap Invoices = {}
        BY <1>4, InvoiceAssumption DEF Affected, Listed
    <2>4. l = <<>> /\ N = {}
        BY <1>3, <2>1
    <2>5. l \in Lists(N) /\ Range(l) = N
        BY <1>1, <1>2, <2>4
    <2> QED BY <1>3, <2>5
<1>5. CASE a = NoInvoice /\ b # NoInvoice
    <2>1. <<b>> \in Seq(Invoices)
        BY <1>5
    <2>2. <<>> \o <<b>> = <<b>>
        BY <2>1, ConcatEmptySeq
    <2>3. Affected(a, b) = <<b>> /\ {a, b} \cap Invoices = {b}
        BY <1>5, <2>2, InvoiceAssumption DEF Affected, Listed
    <2>4. l = <<b>> /\ N = {b}
        BY <1>3, <2>3
    <2>5. l \in Lists(N) /\ Range(l) = N
        BY <1>1, <1>2, <2>4
    <2> QED BY <1>3, <2>5
<1>6. CASE a # NoInvoice /\ b = NoInvoice
    <2>1. <<a>> \in Seq(Invoices)
        BY <1>6
    <2>2. <<a>> \o <<>> = <<a>>
        BY <2>1, ConcatEmptySeq
    <2>3. Affected(a, b) = <<a>> /\ {a, b} \cap Invoices = {a}
        BY <1>6, <2>2, InvoiceAssumption DEF Affected, Listed
    <2>4. l = <<a>> /\ N = {a}
        BY <1>3, <2>3
    <2>5. l \in Lists(N) /\ Range(l) = N
        BY <1>1, <1>2, <2>4
    <2> QED BY <1>3, <2>5
<1>7. CASE a # NoInvoice /\ a = b
    <2>1. Affected(a, b) = <<a>> /\ {a, b} \cap Invoices = {a}
        BY <1>7 DEF Affected, Listed
    <2>4. l = <<a>> /\ N = {a}
        BY <1>3, <2>1
    <2>5. l \in Lists(N) /\ Range(l) = N
        BY <1>1, <1>2, <2>4
    <2> QED BY <1>3, <2>5
<1>8. CASE a # NoInvoice /\ b # NoInvoice /\ a # b
    <2>1. a \in Invoices /\ b \in Invoices
        BY <1>8
    <2>2. <<a>> \o <<b>> = <<a, b>>
        <3>1. <<a>> \in Seq(Invoices) /\ <<b>> \in Seq(Invoices) /\ Len(<<a>>) = 1 /\ Len(<<b>>) = 1
            BY <2>1
        <3>2. PICK c : c = <<a>> \o <<b>>
            OBVIOUS
        <3>3. /\ c \in Seq(Invoices) /\ Len(c) = 2
              /\ \A i \in 1 .. 2 : c[i] = IF i <= 1 THEN <<a>>[i] ELSE <<b>>[i - 1]
            BY <3>1, <3>2, ConcatProperties
        <3>4. <<a, b>> \in Seq(Invoices) /\ Len(<<a, b>>) = 2
            BY <2>1
        <3>5. \A i \in 1 .. 2 : c[i] = <<a, b>>[i]
            BY <3>3
        <3> QED BY <3>2, <3>3, <3>4, <3>5, SeqEqual
    <2>3. Affected(a, b) = <<a, b>> /\ {a, b} \cap Invoices = {a, b}
        BY <1>8, <2>1, <2>2 DEF Affected, Listed
    <2>4. l = <<a, b>> /\ N = {a, b}
        BY <1>3, <2>3
    <2>5. l \in Lists(N) /\ Range(l) = N
        BY <1>1, <1>2, <2>4
    <2> QED BY <1>3, <2>5
<1> QED BY <1>4, <1>5, <1>6, <1>7, <1>8

\* The payment's row is written: moved, corrected or marked as deleted.
LEMMA WritePaymentKeeps ==
    ASSUME IInv, NEW p \in Requests, WritePayment(p)
    PROVE  IInv'
<1>1. PICK r : r = req[p]
    OBVIOUS
<1>2. r.pc = "writePayment" /\ Unwritten
    BY <1>1 DEF WritePayment
<1>3. /\ r \in Request /\ Shape(r) /\ (~r.stale => Fresh(r)) /\ req \in [Requests -> Request]
    BY <1>1, Known
<1>4. /\ r.op \in {"updatePayment", "deletePayment"} /\ r.pay \in Payments
      /\ r.sheet = NoSheet /\ r.drop = {} /\ \A v \in Invoices : ~Wrote(r, v)
      /\ r.op = "updatePayment" => r.give.state = "live"
      /\ payment[r.pay].state # "none"
    <2>1. r.op \in {"updatePayment", "deletePayment"}
        BY <1>2, <1>3 DEF Shape, Request, Ops, UpdatesInvoice, DeletesInvoice, CreatesPayment,
                          Changing, Settling
    <2>2. WritesPayment(r)
        BY <1>3, <2>1 DEF Shape
    <2>3. r.drop = {} /\ \A v \in Invoices : ~Wrote(r, v)
        BY <1>2, <1>3, <2>1 DEF Shape, Settling
    <2> QED BY <1>2, <2>1, <2>2, <2>3 DEF WritesPayment
<1>5. PICK row : row = payment[r.pay]
    OBVIOUS
<1>6. row \in PaymentRow /\ r.give \in PaymentRow
    BY <1>3, <1>4, <1>5 DEF IInv, TypeOK, Request
<1>7. PICK now : now = IF r.op = "deletePayment" THEN [row EXCEPT !.state = "deleted"]
                       ELSE [row EXCEPT !.invoice = IF r.move THEN r.give.invoice ELSE @,
                                        !.amount = r.give.amount]
    OBVIOUS
<1>8. now = PaymentRowOf(p)
    BY <1>1, <1>5, <1>7 DEF PaymentRowOf
<1>9. /\ now \in PaymentRow
      /\ r.op = "deletePayment" => now.state = "deleted" /\ now.invoice = row.invoice
      /\ r.op = "updatePayment" =>
            /\ now.state = row.state
            /\ now.invoice = (IF r.move THEN r.give.invoice ELSE row.invoice)
    <2>1. CASE r.op = "deletePayment"
        BY <1>6, <1>7, <2>1 DEF PaymentRow
    <2>2. CASE r.op = "updatePayment"
        BY <1>6, <1>7, <2>2 DEF PaymentRow
    <2> QED BY <1>4, <2>1, <2>2
<1>21. PICK pays : pays = IF r.op = "deletePayment" THEN r.inv ELSE now.invoice
    OBVIOUS
<1>10. PICK left : left = Affected(r.inv, pays)
    OBVIOUS
<1> DEFINE N == {r.inv, now.invoice} \cap Invoices
<1> DEFINE L == {r.inv, pays} \cap Invoices
<1>22. r.inv \in Invoices \cup {NoInvoice} /\ now.invoice \in Invoices \cup {NoInvoice}
    BY <1>3, <1>9 DEF Request, PaymentRow
<1>11. /\ left \in Lists(L) /\ Range(left) = L /\ left \in Lists(N) /\ L \subseteq N
    <2>1. pays \in Invoices \cup {NoInvoice}
        BY <1>21, <1>22
    <2>2. left \in Lists(L) /\ Range(left) = L
        BY <1>10, <1>22, <2>1, AffectedIsBoth
    <2>3. L \subseteq N
        BY <1>21
    <2> HIDE DEF L, N
    <2>4. left \in Lists(N)
        BY <2>2, <2>3 DEF Lists
    <2> QED BY <2>2, <2>3, <2>4
<1>12. PICK z : z = [r EXCEPT !.give = now, !.move = FALSE, !.left = left,
                              !.pc = IF left = <<>> THEN "commit" ELSE "recalc"]
    OBVIOUS
<1>13. req' = [req EXCEPT ![p] = z]
    <2>1. z = Recalculating([r EXCEPT !.give = now, !.move = FALSE], left)
        BY <1>3, <1>12 DEF Recalculating, Request
    <2> QED BY <1>1, <1>3, <1>8, <1>10, <1>21, <2>1 DEF WritePayment
<1>14. /\ z.op = r.op /\ z.inv = r.inv /\ z.pay = r.pay /\ z.sheet = r.sheet /\ z.give = now
       /\ z.stale = r.stale /\ z.wrote = r.wrote /\ z.left = left /\ z.drop = r.drop
       /\ z.pc = IF left = <<>> THEN "commit" ELSE "recalc"
    BY <1>3, <1>12 DEF Request
<1>15. z \in Request
    <2>1. left \in Seq(Invoices)
        <3>1. N \subseteq Invoices
            OBVIOUS
        <3> HIDE DEF N
        <3> QED BY <1>11, <3>1, ListTypes
    <2>2. PICK y : y = [r EXCEPT !.give = now, !.move = FALSE]
        OBVIOUS
    <2>3. y \in Request
        BY <1>3, <1>9, <2>2 DEF Request
    <2>4. z = [y EXCEPT !.left = left, !.pc = IF left = <<>> THEN "commit" ELSE "recalc"]
        BY <1>12, <2>2
    <2>5. "commit" \in PCs /\ "recalc" \in PCs
        BY DEF PCs
    <2> QED BY <2>1, <2>3, <2>4, <2>5 DEF Request
<1>16. Named(z) = N /\ Todo(z) = L /\ \A v \in Invoices : ~Wrote(z, v)
    BY <1>4, <1>11, <1>14 DEF Named, Todo, Wrote
<1>17. \A v \in N : invoice[v].state # "none"
    <2>1. row.invoice # NoInvoice => invoice[row.invoice].state # "none"
        BY <1>4, <1>5 DEF IInv, DataInv
    <2>2. \A v \in Named(r) : invoice[v].state # "none"
        BY <1>3 DEF Shape
    <2>3. now.invoice \in {row.invoice, r.give.invoice}
        BY <1>4, <1>9
    <2> QED BY <2>1, <2>2, <2>3, InvoiceAssumption DEF Named
<1>23. pays = now.invoice => L = N
    OBVIOUS
<1> HIDE DEF N, L
<1>18. Shape(z)
    <2>1. WritesPayment(z)
        BY <1>4, <1>5, <1>9, <1>14 DEF WritesPayment, Settling
    <2>2. z.pc \in {"recalc", "sum", "status"} <=> z.left # <<>>
        BY <1>14
    <2> QED BY <1>4, <1>11, <1>14, <1>16, <1>17, <2>1, <2>2 DEF Shape
<1>19. ASSUME ~z.stale PROVE Fresh(z)
    <2>1. Fresh(r)
        BY <1>3, <1>14, <1>19
    <2>2. FreshPayment(r)
        BY <1>4, <2>1 DEF Fresh
    <2>3. row.invoice = r.inv /\ row.state = "live"
        BY <1>4, <1>5, <2>2 DEF FreshPayment
    <2>4. ASSUME NEW v \in Invoices \ raced, v = now.invoice, now.state = "live" PROVE Live(v)
        <3>1. r.op = "updatePayment"
            BY <1>4, <1>9, <2>4
        <3>2. CASE r.move
            BY <1>4, <1>9, <2>2, <2>4, <3>1, <3>2 DEF FreshPayment
        <3>3. CASE ~r.move
            <4>1. v = row.invoice /\ r.pay \in PaidOn(v)
                BY <1>4, <1>5, <1>9, <2>3, <2>4, <3>1, <3>3 DEF PaidOn, LivePay
            <4>2. invoice[v].state # "deleted"
                BY <4>1 DEF IInv, DeletedHasNoPaymentsUnlessRaced
            <4>3. invoice[v].state # "none"
                BY <1>17, <2>4 DEF N
            <4>4. invoice[v].state \in {"none", "live", "deleted"}
                BY DEF IInv, TypeOK, InvoiceRow
            <4> QED BY <4>2, <4>3, <4>4 DEF Live
        <3> QED BY <3>2, <3>3
    <2>5. FreshPayment(z)
        BY <1>4, <1>5, <1>9, <1>14, <1>16, <2>3, <2>4 DEF FreshPayment
    <2>6. FreshStatus(z)
        <3>1. pays = now.invoice
            BY <1>4, <1>9, <1>21, <2>3
        <3> QED BY <1>14, <1>16, <1>23, <3>1 DEF FreshStatus
    <2> QED BY <1>4, <1>14, <1>16, <2>5, <2>6 DEF Fresh
<1>20. \A q \in Requests \ {p} : Apart(z, req[q]) /\ Apart(req[q], z)
    BY <1>1, <1>14, StaysApart
<1> QED BY <1>2, <1>13, <1>15, <1>18, <1>19, <1>20, LocalStep

-----------------------------------------------------------------------------
(* The steps that change rows.                                             *)

\* For whom no row that matters has changed, everything is as it was: the invoices that
\* a request names, their lines and their payments, and its own payment.
LEMMA FreshStays ==
    ASSUME NEW r \in Request, Shape(r), Fresh(r), r.pc # "idle", raced \subseteq raced',
           \A v \in Named(r) : /\ invoice'[v] = invoice[v]
                               /\ LinesOf(v)' = LinesOf(v) /\ PaidOn(v)' = PaidOn(v),
           r.pay \in Payments => payment'[r.pay] = payment[r.pay],
           \A k \in Payments :
              payment'[k] # payment[k] =>
                 payment[k].invoice \notin Named(r) /\ payment'[k].invoice \notin Named(r)
    PROVE  Fresh(r)'
<1>1. \A v \in Invoices : Wrote(r, v) => v \in Named(r)
    BY DEF Shape
<1>2. \A v \in Named(r) : RowBy(r, v)' = RowBy(r, v)
    BY DEF RowBy, Wrote
<1>3. ASSUME NEW v \in Named(r) PROVE PaidBy(r, v)' = PaidBy(r, v)
    <2>1. ASSUME NEW k \in Payments
          PROVE  (IF PayBy(r, k)'.state = "live" /\ PayBy(r, k)'.invoice = v
                  THEN PayBy(r, k)'.amount ELSE 0)
                 = (IF PayBy(r, k).state = "live" /\ PayBy(r, k).invoice = v
                    THEN PayBy(r, k).amount ELSE 0)
        <3>1. CASE r.pay = k /\ HasWrittenPayment(r)
            BY <3>1 DEF PayBy, HasWrittenPayment
        <3>2. CASE ~(r.pay = k /\ HasWrittenPayment(r))
            <4>1. PayBy(r, k) = payment[k] /\ PayBy(r, k)' = payment'[k]
                BY <3>2 DEF PayBy, HasWrittenPayment
            <4> QED BY <4>1
        <3> QED BY <3>1, <3>2
    <2> QED BY <2>1 DEF PaidBy
<1>4. \A v \in Named(r) : SettledBy(r, v)' <=> SettledBy(r, v)
    BY <1>2, <1>3 DEF SettledBy
<1>5. FreshStatus(r)'
    <2>1. r.pc \in {"sum", "status"} => Head(r.left) \in Named(r)
        <3>1. r.left \in Lists(Named(r)) /\ (r.pc \in {"sum", "status"} => r.left # <<>>)
            BY DEF Shape
        <3> QED BY <3>1, ListStep
    <2>2. FreshStatus(r)
        BY DEF Fresh
    <2>3. r.pc \in Settling => \A v \in Named(r) \ Todo(r) : SettledBy(r, v)'
        BY <1>4, <2>2 DEF FreshStatus
    <2>4. r.pc = "sum" => r.seen = RowBy(r, Head(r.left))' /\ r.seen.status \notin Preserved
        BY <1>2, <2>1, <2>2 DEF FreshStatus
    <2>5. r.pc = "status" =>
              /\ RowBy(r, Head(r.left))'.status \notin Preserved
              /\ r.status = Derived(PaidBy(r, Head(r.left))', RowBy(r, Head(r.left))'.total)
        BY <1>2, <1>3, <2>1, <2>2 DEF FreshStatus
    <2> QED BY <2>3, <2>4, <2>5 DEF FreshStatus, Derived
<1>6. ASSUME r.op = "updateInvoice" PROVE FreshEdit(r)'
    <2>1. r.inv \in Named(r)
        BY <1>6 DEF Shape, UpdatesInvoice, Named
    <2>2. FreshEdit(r)
        BY <1>6 DEF Fresh
    <2>3. invoice'[r.inv] = invoice[r.inv] /\ LinesOf(r.inv)' = LinesOf(r.inv)
        BY <2>1
    <2> QED BY <2>2, <2>3 DEF FreshEdit, Figures
<1>7. ASSUME r.op = "deleteInvoice" PROVE FreshDelete(r)'
    <2>1. r.inv \in Named(r)
        BY <1>7 DEF Shape, DeletesInvoice, Named
    <2> QED BY <1>7, <2>1 DEF Fresh, FreshDelete
<1>8. ASSUME r.op \in {"createPayment", "updatePayment", "deletePayment"} PROVE FreshPayment(r)'
    <2>1. r.pay \in Payments
        BY <1>8 DEF Shape, CreatesPayment, WritesPayment
    <2>2. FreshPayment(r)
        BY <1>8 DEF Fresh
    <2>3. r.give.state = "live" => \A v \in Invoices \ raced' : v = r.give.invoice => Live(v)'
        BY <2>2 DEF FreshPayment, Live, Named
    <2>4. payment'[r.pay] = payment[r.pay]
        BY <2>1
    <2>5. \A v \in Invoices : Wrote(r, v) => invoice'[v] = invoice[v]
        BY <1>1
    <2> QED BY <2>2, <2>3, <2>4, <2>5 DEF FreshPayment, Wrote
<1>9. r.op # "deleteInvoice" =>
          \A v \in Invoices : Wrote(r, v) => r.wrote[v].state = invoice'[v].state
    BY <1>1 DEF Fresh
<1> QED BY <1>5, <1>6, <1>7, <1>8, <1>9 DEF Fresh, Wrote

\* A new invoice has the lines that came with it, and nobody else has to do with it.
LEMMA CreateInvoiceKeeps ==
    ASSUME IInv, NEW v \in Invoices, CreateInvoice(v)
    PROVE  IInv'
<1>1. PICK s \in Sheets, adjust \in Adjustments, status \in CreatedAs :
          /\ UnusedSheet(s)
          /\ SheetSum[s] + adjust >= 0
          /\ invoice' = [invoice EXCEPT ![v] = Priced(s, adjust, status)]
          /\ sheet' = [sheet EXCEPT ![s] = [state |-> "there", invoice |-> v]]
    BY DEF CreateInvoice
<1>2. invoice[v].state = "none" /\ payment' = payment /\ req' = req /\ raced' = raced
    BY DEF CreateInvoice
<1>3. PICK row : row = Priced(s, adjust, status)
    OBVIOUS
<1>4. /\ row \in InvoiceRow /\ row.state = "live"
      /\ row.subtotal = SheetSum[s] /\ row.total = row.subtotal + row.adjust
    <2>1. SheetSum[s] \in Nat /\ adjust \in Int /\ status \in Statuses
        BY InvoiceAssumption
    <2>2. SheetSum[s] + adjust \in Nat
        BY <1>1, <2>1
    <2> QED BY <1>3, <2>1, <2>2 DEF Priced, InvoiceRow
<1>5. /\ invoice'[v] = row /\ \A w \in Invoices \ {v} : invoice'[w] = invoice[w]
      /\ sheet'[s] = [state |-> "there", invoice |-> v]
      /\ \A t \in Sheets \ {s} : sheet'[t] = sheet[t]
    BY <1>1, <1>3 DEF IInv, TypeOK
<1>6. sheet[s] = NoLines /\ \A q \in Requests : req[q].sheet # s /\ s \notin req[q].drop
    BY <1>1 DEF UnusedSheet
<1>7. \A w \in Invoices : invoice[w].state # "none" => w # v /\ invoice'[w] = invoice[w]
    BY <1>2, <1>5
<1>8. TypeOK'
    <2>1. invoice' \in [Invoices -> InvoiceRow]
        BY <1>1, <1>3, <1>4 DEF IInv, TypeOK
    <2>2. [state |-> "there", invoice |-> v] \in SheetRow
        BY DEF SheetRow
    <2>3. sheet' \in [Sheets -> SheetRow]
        BY <1>1, <2>2 DEF IInv, TypeOK
    <2> QED BY <1>2, <2>1, <2>3 DEF IInv, TypeOK
<1>9. DataInv'
    <2>1. \A w \in Invoices : invoice[w].state # "none" => invoice'[w].state # "none"
        BY <1>7
    <2>2. ASSUME NEW k \in Payments
          PROVE  /\ payment'[k].state = "none" => payment'[k] = Unpaid
                 /\ payment'[k].invoice # NoInvoice => invoice'[payment'[k].invoice].state # "none"
        <3>1. payment[k].invoice \in Invoices \cup {NoInvoice}
            BY DEF IInv, TypeOK, PaymentRow
        <3> QED BY <1>2, <2>1, <3>1 DEF IInv, DataInv
    <2>3. ASSUME NEW t \in Sheets
          PROVE  IF sheet'[t].state = "none" THEN sheet'[t] = NoLines
                 ELSE /\ sheet'[t].invoice # NoInvoice
                      /\ invoice'[sheet'[t].invoice].state # "none"
        <3>1. CASE t = s
            <4>1. sheet'[t].state = "there" /\ sheet'[t].invoice = v
                BY <1>5, <3>1
            <4>2. invoice'[v].state # "none" /\ v # NoInvoice
                BY <1>4, <1>5, InvoiceAssumption
            <4> QED BY <4>1, <4>2
        <3>2. CASE t # s
            <4>1. sheet[t].invoice \in Invoices \cup {NoInvoice} /\ sheet'[t] = sheet[t]
                BY <1>5, <3>2 DEF IInv, TypeOK, SheetRow
            <4> QED BY <2>1, <4>1 DEF IInv, DataInv
        <3> QED BY <3>1, <3>2
    <2> QED BY <2>2, <2>3 DEF DataInv
<1>10. \A w \in Invoices \ {v} : LinesOf(w)' = LinesOf(w)
    <2>1. ASSUME NEW w \in Invoices \ {v}, NEW t \in Sheets
          PROVE  (sheet'[t] = [state |-> "there", invoice |-> w])
                    <=> (sheet[t] = [state |-> "there", invoice |-> w])
        <3>1. CASE t = s
            <4>1. sheet'[t].invoice # w /\ sheet[t].state = "none"
                BY <1>5, <1>6, <2>1, <3>1 DEF NoLines
            <4> QED BY <4>1
        <3>2. CASE t # s
            BY <1>5, <3>2
        <3> QED BY <3>1, <3>2
    <2> QED BY <2>1 DEF LinesOf
<1>11. LinesOf(v)' = {s}
    <2>1. ASSUME NEW t \in Sheets, t # s PROVE sheet'[t] # [state |-> "there", invoice |-> v]
        <3>1. SUFFICES ASSUME sheet[t] = [state |-> "there", invoice |-> v] PROVE FALSE
            BY <1>5, <2>1
        <3>2. sheet[t].state = "there" /\ sheet[t].invoice = v
            BY <3>1
        <3>3. invoice[v].state # "none"
            BY <3>2 DEF IInv, DataInv
        <3> QED BY <1>2, <3>3
    <2> QED BY <1>5, <2>1 DEF LinesOf
<1>12. LinesInv'
    <2>1. ASSUME NEW w \in Invoices \ raced, Live(w)'
          PROVE  /\ \E t \in Sheets : LinesOf(w)' = {t} /\ invoice'[w].subtotal = SheetSum[t]
                 /\ invoice'[w].total = invoice'[w].subtotal + invoice'[w].adjust
        <3>1. CASE w = v
            BY <1>4, <1>5, <1>11, <3>1
        <3>2. CASE w # v
            <4>1. Live(w) /\ invoice'[w] = invoice[w] /\ LinesOf(w)' = LinesOf(w)
                BY <1>5, <1>10, <2>1, <3>2 DEF Live
            <4> QED BY <4>1 DEF IInv, LinesInv
        <3> QED BY <3>1, <3>2
    <2> QED BY <1>2, <2>1 DEF LinesInv
<1>13. \A w \in Invoices : PaidOn(w)' = PaidOn(w)
    BY <1>2 DEF PaidOn, LivePay
<1>14. DeletedHasNoPaymentsUnlessRaced'
    BY <1>2, <1>4, <1>5, <1>13 DEF IInv, DeletedHasNoPaymentsUnlessRaced
<1>15. ASSUME NEW q \in Requests PROVE Shape(req[q])' /\ (~req'[q].stale => Fresh(req[q])')
    <2>1. PICK r : r = req[q]
        OBVIOUS
    <2>2. /\ r \in Request /\ Shape(r) /\ (~r.stale => Fresh(r)) /\ Named(r) \subseteq Invoices
        BY <2>1, Known
    <2>3. r.sheet # s /\ s \notin r.drop
        BY <1>6, <2>1
    <2>4. \A w \in Named(r) : w # v /\ invoice'[w] = invoice[w] /\ invoice[w].state # "none"
        BY <1>7, <2>2 DEF Shape
    <2>5. r.drop \subseteq Sheets /\ r.sheet \in Sheets \cup {NoSheet}
        BY <2>2 DEF Request
    <2>6. Shape(r)'
        <3>1. \A t \in r.drop : sheet'[t] = sheet[t]
            BY <1>5, <2>3, <2>5
        <3>2. r.sheet # NoSheet => sheet'[r.sheet] = sheet[r.sheet]
            BY <1>5, <2>3, <2>5
        <3>3. /\ r.op = "updateInvoice" => UpdatesInvoice(r)'
              /\ r.op = "deleteInvoice" => DeletesInvoice(r)'
              /\ r.op = "createPayment" => CreatesPayment(r)'
              /\ r.op \in {"updatePayment", "deletePayment"} => WritesPayment(r)'
            BY <1>2, <2>2 DEF Shape, UpdatesInvoice, DeletesInvoice, CreatesPayment, WritesPayment,
                              Wrote
        <3> QED BY <2>2, <2>4, <3>1, <3>2, <3>3 DEF Shape, Wrote
    <2>7. ASSUME ~r.stale PROVE Fresh(r)'
        <3>1. CASE r.pc = "idle"
            BY <2>2, <3>1, IdleFits DEF Shape, Fresh, Idle, Wrote, NoRow, FreshStatus, Settling
        <3>2. CASE r.pc # "idle"
            <4>1. Fresh(r)
                BY <2>2, <2>7
            <4>2. \A w \in Named(r) : /\ invoice'[w] = invoice[w]
                                      /\ LinesOf(w)' = LinesOf(w) /\ PaidOn(w)' = PaidOn(w)
                BY <1>10, <1>13, <2>2, <2>4
            <4>3. raced \subseteq raced' /\ (r.pay \in Payments => payment'[r.pay] = payment[r.pay])
                BY <1>2
            <4>4. \A k \in Payments :
                     payment'[k] # payment[k] =>
                        payment[k].invoice \notin Named(r) /\ payment'[k].invoice \notin Named(r)
                BY <1>2
            <4> QED BY <2>2, <3>2, <4>1, <4>2, <4>3, <4>4, FreshStays
        <3> QED BY <3>1, <3>2
    <2> QED BY <1>2, <2>1, <2>6, <2>7
<1>16. \A p, q \in Requests : p # q => Apart(req[p], req[q])'
    BY <1>2 DEF IInv, Apart
<1> QED BY <1>8, <1>9, <1>12, <1>14, <1>15, <1>16 DEF IInv

\* What a commit makes of the rows.
LEMMA CommitRows ==
    ASSUME IInv, NEW p \in Requests, Commit(p), NEW r, r = req[p]
    PROVE  /\ r.pc = "commit" /\ r.op # "none" /\ r.left = <<>>
           /\ \A v \in Invoices : invoice'[v] = RowBy(r, v)
           /\ \A k \in Payments : payment'[k] = IF k = r.pay THEN r.give ELSE payment[k]
           /\ sheet' = [s \in Sheets |->
                           IF s \in r.drop THEN NoLines
                           ELSE IF s = r.sheet THEN [state |-> "there", invoice |-> r.inv]
                           ELSE sheet[s]]
           /\ raced \subseteq raced' /\ (r.stale => Touches(p) \subseteq raced')
<1>1. r \in Request /\ Shape(r)
    BY Known
<1>2. r.pc = "commit"
    BY DEF Commit
<1>3. r.op # "none" /\ r.left = <<>>
    BY <1>1, <1>2 DEF Shape
<1>4. \A v \in Invoices : invoice'[v] = RowBy(r, v)
    <2>1. invoice' = [v \in Invoices |-> InvoiceSeen(p, v)]
        BY DEF Commit
    <2>2. \A v : InvoiceSeen(p, v) = RowBy(r, v)
        BY ByRecord
    <2> QED BY <2>1, <2>2
<1>5. \A k \in Payments : payment'[k] = IF k = r.pay THEN r.give ELSE payment[k]
    <2>1. payment' = [k \in Payments |-> PaymentSeen(p, k)]
        BY DEF Commit
    <2>2. \A k : PaymentSeen(p, k) = PayBy(r, k)
        BY ByRecord
    <2>3. \A k \in Payments : PayBy(r, k) = IF k = r.pay THEN r.give ELSE payment[k]
        BY <1>2, InvoiceAssumption DEF PayBy, HasWrittenPayment
    <2> QED BY <2>1, <2>2, <2>3
<1>6. sheet' = [s \in Sheets |->
                   IF s \in r.drop THEN NoLines
                   ELSE IF s = r.sheet THEN [state |-> "there", invoice |-> r.inv]
                   ELSE sheet[s]]
    BY DEF Commit
<1>7. raced \subseteq raced' /\ (r.stale => Touches(p) \subseteq raced')
    BY DEF Commit
<1> QED BY <1>2, <1>3, <1>4, <1>5, <1>6, <1>7

\* The invoices that a request touches, and those that its commit leaves as they were.
LEMMA TouchedOnly ==
    ASSUME IInv, NEW p \in Requests, Commit(p), NEW r, r = req[p]
    PROVE  /\ Named(r) \subseteq Touches(p)
           /\ \A v \in Invoices \ Touches(p) :
                 /\ ~Wrote(r, v) /\ invoice'[v] = invoice[v]
                 /\ LinesOf(v)' = LinesOf(v) /\ PaidOn(v)' = PaidOn(v)
           /\ \A k \in Payments : payment'[k] # payment[k] =>
                 /\ k = r.pay
                 /\ payment[k].invoice \in Touches(p) \cup {NoInvoice}
                 /\ payment'[k].invoice \in Touches(p) \cup {NoInvoice}
<1>1. r \in Request /\ Shape(r)
    BY Known
<1>2. /\ \A v \in Invoices : invoice'[v] = RowBy(r, v)
      /\ \A k \in Payments : payment'[k] = IF k = r.pay THEN r.give ELSE payment[k]
      /\ sheet' = [s \in Sheets |->
                      IF s \in r.drop THEN NoLines
                      ELSE IF s = r.sheet THEN [state |-> "there", invoice |-> r.inv]
                      ELSE sheet[s]]
    BY CommitRows
<1>3. \A v \in Invoices : v \in Touches(p) <=>
         \/ v \in {r.inv, r.give.invoice} \/ Wrote(r, v)
         \/ r.pay # NoPayment /\ payment[r.pay].invoice = v
    BY ByRecord DEF Touches
<1>4. Named(r) \subseteq Touches(p)
    BY <1>3 DEF Named
<1>5. ASSUME NEW v \in Invoices \ Touches(p)
      PROVE  /\ ~Wrote(r, v) /\ invoice'[v] = invoice[v]
             /\ LinesOf(v)' = LinesOf(v) /\ PaidOn(v)' = PaidOn(v)
    <2>1. ~Wrote(r, v) /\ v # r.inv /\ v # r.give.invoice
        BY <1>3
    <2>2. invoice'[v] = invoice[v]
        BY <1>2, <2>1 DEF RowBy
    <2>3. ASSUME NEW s \in Sheets
          PROVE  (sheet'[s] = [state |-> "there", invoice |-> v])
                    <=> (sheet[s] = [state |-> "there", invoice |-> v])
        <3>1. CASE s \in r.drop
            <4>1. sheet'[s].state = "none"
                BY <1>2, <3>1 DEF NoLines
            <4>2. sheet[s].invoice # v
                BY <1>1, <2>1, <3>1, InvoiceAssumption DEF Shape
            <4> QED BY <4>1, <4>2
        <3>2. CASE s \notin r.drop /\ s = r.sheet
            <4>1. sheet'[s].invoice = r.inv
                BY <1>2, <3>2
            <4>2. sheet[s].state = "none"
                BY <1>1, <3>2, InvoiceAssumption DEF Shape, NoLines
            <4> QED BY <2>1, <4>1, <4>2
        <3>3. CASE s \notin r.drop /\ s # r.sheet
            BY <1>2, <3>3
        <3> QED BY <3>1, <3>2, <3>3
    <2>4. LinesOf(v)' = LinesOf(v)
        BY <2>3 DEF LinesOf
    <2>5. ASSUME NEW k \in Payments
          PROVE  (payment'[k].state = "live" /\ payment'[k].invoice = v)
                    <=> (payment[k].state = "live" /\ payment[k].invoice = v)
        <3>1. CASE k = r.pay
            BY <1>2, <1>3, <2>1, <3>1, InvoiceAssumption
        <3>2. CASE k # r.pay
            BY <1>2, <3>2
        <3> QED BY <3>1, <3>2
    <2>6. PaidOn(v)' = PaidOn(v)
        BY <2>5 DEF PaidOn, LivePay
    <2> QED BY <2>1, <2>2, <2>4, <2>6
<1>6. ASSUME NEW k \in Payments, payment'[k] # payment[k]
      PROVE  /\ k = r.pay
             /\ payment[k].invoice \in Touches(p) \cup {NoInvoice}
             /\ payment'[k].invoice \in Touches(p) \cup {NoInvoice}
    <2>1. k = r.pay /\ k # NoPayment /\ payment'[k] = r.give
        BY <1>2, <1>6, InvoiceAssumption
    <2>2. /\ payment[k].invoice \in Invoices \cup {NoInvoice}
          /\ r.give.invoice \in Invoices \cup {NoInvoice}
        BY <1>1 DEF IInv, TypeOK, PaymentRow, Request
    <2> QED BY <1>3, <2>1, <2>2
<1> QED BY <1>4, <1>5, <1>6

\* A commit leaves the data whole: what there was stays, and what it writes is whole.
LEMMA CommitData ==
    ASSUME IInv, NEW p \in Requests, Commit(p), NEW r, r = req[p]
    PROVE  /\ \A v \in Invoices : invoice[v].state # "none" => invoice'[v].state # "none"
           /\ r.pay \in Payments => r.give.state # "none"
           /\ r.sheet # NoSheet => r.op = "updateInvoice" /\ r.inv \in Named(r)
           /\ DataInv'
<1>1. r \in Request /\ Shape(r) /\ Named(r) \subseteq Invoices
    BY Known
<1>2. /\ r.pc = "commit" /\ r.op # "none"
      /\ \A v \in Invoices : invoice'[v] = RowBy(r, v)
      /\ \A k \in Payments : payment'[k] = IF k = r.pay THEN r.give ELSE payment[k]
      /\ sheet' = [s \in Sheets |->
                      IF s \in r.drop THEN NoLines
                      ELSE IF s = r.sheet THEN [state |-> "there", invoice |-> r.inv]
                      ELSE sheet[s]]
    BY CommitRows
<1>3. \A v \in Invoices : invoice[v].state # "none" => invoice'[v].state # "none"
    BY <1>2 DEF RowBy, Wrote
<1>4. r.op \in {"updateInvoice", "deleteInvoice", "createPayment", "updatePayment", "deletePayment"}
    BY <1>1, <1>2 DEF Request, Ops
<1>5. r.pay \in Payments => r.give.state # "none"
    <2>1. r.op \in {"updateInvoice", "deleteInvoice"} => r.pay = NoPayment
        BY <1>1 DEF Shape, UpdatesInvoice, DeletesInvoice
    <2>2. r.op = "createPayment" => r.give.state = "live"
        BY <1>1 DEF Shape, CreatesPayment
    <2>3. r.op \in {"updatePayment", "deletePayment"} => r.give.state # "none"
        BY <1>1, <1>2 DEF Shape, WritesPayment
    <2> QED BY <1>4, <2>1, <2>2, <2>3, InvoiceAssumption
<1>6. r.sheet # NoSheet => r.op = "updateInvoice" /\ r.inv \in Named(r)
    <2>1. r.op # "updateInvoice" => r.sheet = NoSheet
        BY <1>1, <1>4 DEF Shape, DeletesInvoice, CreatesPayment, WritesPayment
    <2>2. r.op = "updateInvoice" => r.inv \in Named(r)
        BY <1>1 DEF Shape, UpdatesInvoice, Named
    <2> QED BY <2>1, <2>2
<1>7. \A v \in Named(r) : invoice'[v].state # "none"
    BY <1>1, <1>3 DEF Shape
<1>8. ASSUME NEW k \in Payments
      PROVE  /\ payment'[k].state = "none" => payment'[k] = Unpaid
             /\ payment'[k].invoice # NoInvoice => invoice'[payment'[k].invoice].state # "none"
    <2>1. CASE k = r.pay
        <3>1. payment'[k] = r.give /\ r.give.state # "none"
            BY <1>2, <1>5, <2>1
        <3>2. r.give.invoice \in Invoices \cup {NoInvoice}
            BY <1>1 DEF Request, PaymentRow
        <3>3. r.give.invoice # NoInvoice => r.give.invoice \in Named(r)
            BY <3>2 DEF Named
        <3> QED BY <1>7, <3>1, <3>3
    <2>2. CASE k # r.pay
        <3>1. payment'[k] = payment[k] /\ payment[k].invoice \in Invoices \cup {NoInvoice}
            BY <1>2, <2>2 DEF IInv, TypeOK, PaymentRow
        <3> QED BY <1>3, <3>1 DEF IInv, DataInv
    <2> QED BY <2>1, <2>2
<1>9. ASSUME NEW s \in Sheets
      PROVE  IF sheet'[s].state = "none" THEN sheet'[s] = NoLines
             ELSE /\ sheet'[s].invoice # NoInvoice
                  /\ invoice'[sheet'[s].invoice].state # "none"
    <2>1. CASE s \in r.drop
        BY <1>2, <2>1 DEF NoLines
    <2>2. CASE s \notin r.drop /\ s = r.sheet
        <3>1. r.inv \in Named(r) /\ r.inv # NoInvoice
            BY <1>1, <1>6, <2>2, InvoiceAssumption
        <3>2. sheet'[s].state = "there" /\ sheet'[s].invoice = r.inv
            BY <1>2, <2>2
        <3> QED BY <1>7, <3>1, <3>2
    <2>3. CASE s \notin r.drop /\ s # r.sheet
        <3>1. sheet'[s] = sheet[s] /\ sheet[s].invoice \in Invoices \cup {NoInvoice}
            BY <1>2, <2>3 DEF IInv, TypeOK, SheetRow
        <3> QED BY <1>3, <3>1 DEF IInv, DataInv
    <2> QED BY <2>1, <2>2, <2>3
<1>10. DataInv'
    BY <1>8, <1>9 DEF DataInv
<1> QED BY <1>3, <1>5, <1>6, <1>10

\* A request that is overtaken stays what it is about, whatever is committed.
LEMMA OthersKeepShape ==
    ASSUME IInv, NEW p \in Requests, Commit(p), NEW q \in Requests \ {p},
           NEW s, s = req[q], s.pc # "idle",
           NEW z, z = s \/ z = [s EXCEPT !.stale = TRUE]
    PROVE  Shape(z)'
<1>1. PICK r : r = req[p]
    OBVIOUS
<1>2. s \in Request /\ Shape(s) /\ r \in Request /\ Named(s) \subseteq Invoices
    BY <1>1, Known
<1>3. /\ \A v \in Invoices : invoice[v].state # "none" => invoice'[v].state # "none"
      /\ r.pay \in Payments => r.give.state # "none"
    BY <1>1, CommitData
<1>4. /\ \A k \in Payments : payment'[k] = IF k = r.pay THEN r.give ELSE payment[k]
      /\ sheet' = [t \in Sheets |->
                      IF t \in r.drop THEN NoLines
                      ELSE IF t = r.sheet THEN [state |-> "there", invoice |-> r.inv]
                      ELSE sheet[t]]
    BY <1>1, CommitRows
<1>5. Apart(r, s) /\ Apart(s, r)
    BY <1>1 DEF IInv
<1>6. /\ z.pc = s.pc /\ z.op = s.op /\ z.inv = s.inv /\ z.pay = s.pay /\ z.sheet = s.sheet
      /\ z.drop = s.drop /\ z.give = s.give /\ z.left = s.left /\ z.wrote = s.wrote
      /\ z.status = s.status
    BY <1>2 DEF Request
<1>7. Named(z) = Named(s) /\ \A v : Wrote(z, v) <=> Wrote(s, v)
    BY <1>6 DEF Named, Wrote
<1>8. s.drop \subseteq Sheets /\ s.sheet \in Sheets \cup {NoSheet}
    BY <1>2 DEF Request
<1>9. \A t \in s.drop : sheet'[t].invoice \in {s.inv, NoInvoice}
    <2>1. ASSUME NEW t \in s.drop PROVE sheet'[t].invoice \in {s.inv, NoInvoice}
        <3>1. t \in Sheets /\ t # NoSheet
            BY <1>8, InvoiceAssumption
        <3>2. t # r.sheet
            BY <1>5, <3>1 DEF Apart
        <3>3. sheet'[t] = IF t \in r.drop THEN NoLines ELSE sheet[t]
            BY <1>4, <3>1, <3>2
        <3>4. sheet[t].invoice \in {s.inv, NoInvoice}
            BY <1>2 DEF Shape
        <3> QED BY <3>3, <3>4 DEF NoLines
    <2> QED BY <2>1
<1>10. s.sheet # NoSheet => sheet'[s.sheet] = NoLines /\ s.sheet \notin s.drop
    <2>1. SUFFICES ASSUME s.sheet # NoSheet PROVE sheet'[s.sheet] = NoLines /\ s.sheet \notin s.drop
        OBVIOUS
    <2>2. sheet[s.sheet] = NoLines /\ s.sheet \notin s.drop
        BY <1>2, <2>1 DEF Shape
    <2>3. s.sheet \in Sheets /\ s.sheet # r.sheet
        BY <1>5, <1>8, <2>1 DEF Apart
    <2> QED BY <1>4, <2>2, <2>3
<1>11. s.op = "updateInvoice" => UpdatesInvoice(z)'
    BY <1>2, <1>6, <1>7 DEF Shape, UpdatesInvoice, Wrote
<1>12. s.op = "deleteInvoice" => DeletesInvoice(z)'
    BY <1>2, <1>6 DEF Shape, DeletesInvoice
<1>13. s.op = "createPayment" => CreatesPayment(z)'
    <2>1. SUFFICES ASSUME s.op = "createPayment" PROVE CreatesPayment(z)'
        OBVIOUS
    <2>2. CreatesPayment(s)
        BY <1>2, <2>1 DEF Shape
    <2>3. payment'[s.pay] = payment[s.pay]
        BY <1>4, <1>5, <2>1, <2>2 DEF Apart, CreatesPayment
    <2> QED BY <1>6, <1>7, <2>2, <2>3 DEF CreatesPayment, Wrote
<1>14. s.op \in {"updatePayment", "deletePayment"} => WritesPayment(z)'
    <2>1. SUFFICES ASSUME s.op \in {"updatePayment", "deletePayment"} PROVE WritesPayment(z)'
        OBVIOUS
    <2>2. WritesPayment(s)
        BY <1>2, <2>1 DEF Shape
    <2>3. payment'[s.pay].state # "none"
        BY <1>3, <1>4, <2>2 DEF WritesPayment
    <2> QED BY <1>6, <2>2, <2>3 DEF WritesPayment
<1>15. \A v \in Named(z) : invoice'[v].state # "none"
    BY <1>2, <1>3, <1>7 DEF Shape
<1>16. /\ z.pc # "idle" /\ z.op # "none" /\ z.left \in Lists(Named(z))
       /\ z.pc \in {"recalc", "sum", "status"} <=> z.left # <<>>
       /\ z.pc = "status" => z.status # "keep"
       /\ \A v \in Invoices : Wrote(z, v) => z.pc \in Settling /\ v \in Named(z)
       /\ z.drop # {} => z.op = "updateInvoice"
    BY <1>2, <1>6, <1>7 DEF Shape
<1>17. /\ \A t \in z.drop : sheet'[t].invoice \in {z.inv, NoInvoice}
       /\ z.sheet # NoSheet => sheet'[z.sheet] = NoLines /\ z.sheet \notin z.drop
    BY <1>6, <1>9, <1>10
<1> QED BY <1>6, <1>11, <1>12, <1>13, <1>14, <1>15, <1>16, <1>17 DEF Shape, Wrote

\* For a request that a commit has not overtaken, what it has read is still so: they had
\* nothing to do with each other, or it has only begun to pay an invoice that stays.
LEMMA OthersStayFresh ==
    ASSUME IInv, NEW p \in Requests, Commit(p), NEW q \in Requests \ {p},
           NEW s, s = req[q], s.pc # "idle", Fresh(s), ~Outdates(p, q)
    PROVE  Fresh(s)'
<1>1. PICK r : r = req[p]
    OBVIOUS
<1>2. PICK T : T = Touches(p)
    OBVIOUS
<1>3. /\ s \in Request /\ Shape(s) /\ Named(s) \subseteq Invoices
      /\ r \in Request /\ Shape(r) /\ (~r.stale => Fresh(r))
    BY <1>1, Known
<1>4. /\ Named(r) \subseteq T
      /\ \A v \in Invoices \ T : /\ ~Wrote(r, v) /\ invoice'[v] = invoice[v]
                                 /\ LinesOf(v)' = LinesOf(v) /\ PaidOn(v)' = PaidOn(v)
      /\ \A k \in Payments : payment'[k] # payment[k] =>
            /\ k = r.pay
            /\ payment[k].invoice \in T \cup {NoInvoice}
            /\ payment'[k].invoice \in T \cup {NoInvoice}
    BY <1>1, <1>2, TouchedOnly
<1>5. /\ \A v \in Invoices : invoice'[v] = RowBy(r, v)
      /\ raced \subseteq raced' /\ (r.stale => T \subseteq raced')
    BY <1>1, <1>2, CommitRows
<1>6. CASE s.op = "createPayment" /\ s.pc = "recalc" /\ r.op # "deleteInvoice"
    <2>1. CreatesPayment(s) /\ FreshPayment(s)
        BY <1>3, <1>6 DEF Shape, Fresh
    <2>2. \A v \in Invoices : ~Wrote(s, v)
        BY <1>6, <2>1 DEF CreatesPayment
    <2>3. Named(s) \subseteq Todo(s)
        <3>1. s.left = <<s.give.invoice>>
            BY <1>3, <1>6, <2>1 DEF Shape, CreatesPayment
        <3>2. Named(s) \subseteq {s.give.invoice}
            BY <2>1, InvoiceAssumption DEF Named, CreatesPayment
        <3> QED BY <3>1, <3>2 DEF Todo, Range
    <2>4. ASSUME NEW v \in Invoices \ raced', v = s.give.invoice, s.give.state = "live"
          PROVE  Live(v)'
        <3>1. Live(v)
            BY <1>5, <2>1, <2>4 DEF FreshPayment
        <3>2. CASE Wrote(r, v)
            <4>1. v \in T
                BY <1>4, <3>2
            <4>2. Fresh(r)
                BY <1>3, <1>5, <2>4, <4>1
            <4>3. r.wrote[v].state = invoice[v].state
                BY <1>6, <3>2, <4>2 DEF Fresh
            <4> QED BY <1>5, <3>1, <3>2, <4>3 DEF Live, RowBy
        <3>3. CASE ~Wrote(r, v)
            BY <1>5, <3>1, <3>3 DEF Live, RowBy
        <3> QED BY <3>2, <3>3
    <2>5. FreshPayment(s)'
        BY <1>6, <2>2, <2>4 DEF FreshPayment, Wrote
    <2>6. FreshStatus(s)'
        BY <1>6, <2>3 DEF FreshStatus, Named, Todo
    <2> QED BY <1>6, <2>2, <2>5, <2>6 DEF Fresh, Wrote
<1>7. CASE Touches(q) \cap T = {} /\ ~(s.pay = r.pay /\ r.pay # NoPayment)
    <2>1. Named(s) \subseteq Touches(q)
        BY DEF Named, Touches
    <2>2. \A v \in Named(s) : /\ invoice'[v] = invoice[v]
                              /\ LinesOf(v)' = LinesOf(v) /\ PaidOn(v)' = PaidOn(v)
        BY <1>3, <1>4, <1>7, <2>1
    <2>3. s.pay \in Payments => payment'[s.pay] = payment[s.pay]
        BY <1>4, <1>7, InvoiceAssumption
    <2>4. \A k \in Payments :
             payment'[k] # payment[k] =>
                payment[k].invoice \notin Named(s) /\ payment'[k].invoice \notin Named(s)
        BY <1>3, <1>4, <1>7, <2>1, InvoiceAssumption
    <2>5. raced \subseteq raced'
        BY <1>5
    <2> QED BY <1>3, <2>2, <2>3, <2>4, <2>5, FreshStays
<1> QED BY <1>1, <1>2, <1>6, <1>7 DEF Outdates

\* Someone who does nothing is never overtaken.
LEMMA IdleIsLeftAlone ==
    ASSUME IInv, NEW p \in Requests, NEW q \in Requests, req[q].pc = "idle"
    PROVE  req[q] = Idle /\ ~Outdates(p, q)
<1>1. req[q] = Idle
    BY DEF IInv, Shape
<1>2. Touches(q) = {}
    BY <1>1, InvoiceAssumption DEF Touches, Idle, Unpaid, Written, NoRow
<1> QED BY <1>1, <1>2 DEF Outdates, Idle

\* Of a request about to commit: the kinds there are.
LEMMA CommittingOps ==
    ASSUME NEW r \in Request, Shape(r), r.pc = "commit"
    PROVE  /\ r.op \in {"updateInvoice", "deleteInvoice", "createPayment", "updatePayment",
                        "deletePayment"}
           /\ r.op = "updateInvoice" => UpdatesInvoice(r) /\ Wrote(r, r.inv)
           /\ r.op = "deleteInvoice" => DeletesInvoice(r) /\ Wrote(r, r.inv)
           /\ r.op \in {"updateInvoice", "deleteInvoice"} =>
                 /\ r.inv \in Invoices /\ r.pay = NoPayment /\ r.give = Unpaid
                 /\ \A v \in Invoices : Wrote(r, v) => v = r.inv
           /\ r.op \in {"createPayment", "updatePayment", "deletePayment"} =>
                 r.pay \in Payments /\ r.sheet = NoSheet /\ r.drop = {}
<1>1. r.op \in {"updateInvoice", "deleteInvoice", "createPayment", "updatePayment", "deletePayment"}
    BY DEF Shape, Request, Ops
<1>2. r.op = "updateInvoice" => UpdatesInvoice(r) /\ Wrote(r, r.inv)
    BY DEF Shape, UpdatesInvoice, Settling
<1>3. r.op = "deleteInvoice" => DeletesInvoice(r) /\ Wrote(r, r.inv)
    BY DEF Shape, DeletesInvoice, Wrote
<1>4. r.op \in {"updateInvoice", "deleteInvoice"} =>
          r.inv \in Invoices /\ r.pay = NoPayment /\ r.give = Unpaid
    BY <1>2, <1>3 DEF UpdatesInvoice, DeletesInvoice
<1>5. r.op \in {"updateInvoice", "deleteInvoice"} => \A v \in Invoices : Wrote(r, v) => v = r.inv
    BY <1>4, InvoiceAssumption DEF Shape, Named, Unpaid
<1>6. r.op \in {"createPayment", "updatePayment", "deletePayment"} =>
          r.pay \in Payments /\ r.sheet = NoSheet /\ r.drop = {}
    BY DEF Shape, CreatesPayment, WritesPayment
<1> QED BY <1>1, <1>2, <1>3, <1>4, <1>5, <1>6

\* An invoice that is touched, and not raced when its request commits, was touched by a
\* request that had not been overtaken.
LEMMA TouchedFresh ==
    ASSUME IInv, NEW p \in Requests, Commit(p), NEW r, r = req[p],
           NEW v \in Invoices \ raced', v \in Touches(p)
    PROVE  /\ Fresh(r) /\ v \notin raced
           /\ r.op \in {"updateInvoice", "deleteInvoice"} => v = r.inv
           /\ r.op # "deleteInvoice" => invoice'[v].state = invoice[v].state
<1>1. /\ r \in Request /\ Shape(r) /\ (~r.stale => Fresh(r))
    BY Known
<1>2. /\ raced \subseteq raced' /\ (r.stale => Touches(p) \subseteq raced') /\ r.pc = "commit"
      /\ \A w \in Invoices : invoice'[w] = RowBy(r, w)
    BY CommitRows
<1>3. Fresh(r) /\ v \notin raced
    BY <1>1, <1>2
<1>4. r.op \in {"updateInvoice", "deleteInvoice"} => v = r.inv
    <2>1. v \in {r.inv, r.give.invoice} \/ Wrote(r, v) \/ r.pay # NoPayment
        BY ByRecord DEF Touches
    <2>2. r.op \in {"updateInvoice", "deleteInvoice"} =>
             /\ r.pay = NoPayment /\ r.give = Unpaid
             /\ \A w \in Invoices : Wrote(r, w) => w = r.inv
        BY <1>1, <1>2, CommittingOps
    <2> QED BY <2>1, <2>2, InvoiceAssumption DEF Unpaid
<1>5. r.op # "deleteInvoice" => invoice'[v].state = invoice[v].state
    BY <1>2, <1>3 DEF Fresh, RowBy
<1> QED BY <1>3, <1>4, <1>5

\* What an edit commits has the lines of its payload, or those there were, and their sum;
\* what is paid leaves lines and figures as they were.
LEMMA CommitLines ==
    ASSUME IInv, NEW p \in Requests, Commit(p)
    PROVE  LinesInv'
<1>1. PICK r : r = req[p]
    OBVIOUS
<1>2. r \in Request /\ Shape(r)
    BY <1>1, Known
<1>3. /\ r.pc = "commit" /\ raced \subseteq raced'
      /\ \A v \in Invoices : invoice'[v] = RowBy(r, v)
      /\ sheet' = [s \in Sheets |->
                      IF s \in r.drop THEN NoLines
                      ELSE IF s = r.sheet THEN [state |-> "there", invoice |-> r.inv]
                      ELSE sheet[s]]
    BY <1>1, CommitRows
<1>4. SUFFICES ASSUME NEW v \in Invoices \ raced', Live(v)'
               PROVE  /\ \E s \in Sheets : LinesOf(v)' = {s} /\ invoice'[v].subtotal = SheetSum[s]
                      /\ invoice'[v].total = invoice'[v].subtotal + invoice'[v].adjust
    BY DEF LinesInv
<1>5. v \in Invoices \ raced
    BY <1>3
<1>6. CASE v \notin Touches(p)
    <2>1. invoice'[v] = invoice[v] /\ LinesOf(v)' = LinesOf(v)
        BY <1>1, <1>6, TouchedOnly
    <2> QED BY <1>4, <1>5, <2>1 DEF IInv, LinesInv, Live
<1>7. CASE v \in Touches(p)
    <2>1. /\ Fresh(r)
          /\ r.op \in {"updateInvoice", "deleteInvoice"} => v = r.inv
          /\ r.op # "deleteInvoice" => invoice'[v].state = invoice[v].state
        BY <1>1, <1>7, TouchedFresh
    <2>2. /\ r.op \in {"updateInvoice", "deleteInvoice", "createPayment", "updatePayment",
                       "deletePayment"}
          /\ r.op = "updateInvoice" => UpdatesInvoice(r) /\ Wrote(r, r.inv)
          /\ r.op = "deleteInvoice" => DeletesInvoice(r) /\ Wrote(r, r.inv)
          /\ r.op \in {"createPayment", "updatePayment", "deletePayment"} =>
                r.sheet = NoSheet /\ r.drop = {} /\ r.pay \in Payments
        BY <1>2, <1>3, CommittingOps
    <2>3. r.op # "deleteInvoice"
        BY <1>3, <1>4, <2>1, <2>2 DEF RowBy, Live, DeletesInvoice
    <2>4. Live(v)
        BY <1>4, <2>1, <2>3 DEF Live
    <2>5. PICK t \in Sheets : LinesOf(v) = {t} /\ invoice[v].subtotal = SheetSum[t]
        BY <1>5, <2>4 DEF IInv, LinesInv
    <2>6. invoice[v].total = invoice[v].subtotal + invoice[v].adjust
        BY <1>5, <2>4 DEF IInv, LinesInv
    <2>7. r.sheet = NoSheet /\ r.drop = {} => LinesOf(v)' = LinesOf(v)
        <3>1. SUFFICES ASSUME r.sheet = NoSheet, r.drop = {} PROVE LinesOf(v)' = LinesOf(v)
            OBVIOUS
        <3>2. \A s \in Sheets : sheet'[s] = sheet[s]
            BY <1>3, <3>1, InvoiceAssumption
        <3> QED BY <3>2 DEF LinesOf
    <2>8. CASE r.op = "updateInvoice"
        <3>1. v = r.inv /\ invoice'[v] = r.wrote[v]
            BY <1>3, <2>1, <2>2, <2>8 DEF RowBy
        <3>2. FreshEdit(r)
            BY <2>1, <2>8 DEF Fresh
        <3>3. Figures(r, invoice'[v])
            BY <1>3, <3>1, <3>2 DEF FreshEdit, Settling
        <3>4. CASE r.sheet = NoSheet
            <4>1. r.drop = {}
                BY <2>2, <2>8, <3>4 DEF UpdatesInvoice
            <4>2. LinesOf(v)' = {t}
                BY <2>5, <2>7, <3>4, <4>1
            <4> QED BY <2>5, <3>1, <3>3, <3>4, <4>2 DEF Figures
        <3>5. CASE r.sheet # NoSheet
            <4>1. r.sheet \in Sheets /\ r.sheet \notin r.drop
                BY <1>2, <3>5 DEF Request, Shape
            <4>2. LinesOf(v) \subseteq r.drop
                BY <1>3, <3>1, <3>2, <3>5 DEF FreshEdit
            <4>3. ASSUME NEW s \in Sheets
                  PROVE  (sheet'[s] = [state |-> "there", invoice |-> v]) <=> s = r.sheet
                <5>1. CASE s \in r.drop
                    <6>1. sheet'[s].state = "none"
                        BY <1>3, <5>1 DEF NoLines
                    <6> QED BY <4>1, <5>1, <6>1
                <5>2. CASE s \notin r.drop /\ s = r.sheet
                    BY <1>3, <3>1, <5>2
                <5>3. CASE s \notin r.drop /\ s # r.sheet
                    <6>1. sheet'[s] = sheet[s] /\ s \notin LinesOf(v)
                        BY <1>3, <4>2, <5>3
                    <6> QED BY <5>3, <6>1 DEF LinesOf
                <5> QED BY <5>1, <5>2, <5>3
            <4>4. LinesOf(v)' = {r.sheet}
                BY <4>1, <4>3 DEF LinesOf
            <4> QED BY <3>3, <3>5, <4>1, <4>4 DEF Figures
        <3> QED BY <3>4, <3>5
    <2>9. CASE r.op \in {"createPayment", "updatePayment", "deletePayment"}
        <3>1. LinesOf(v)' = {t}
            BY <2>2, <2>5, <2>7, <2>9
        <3>2. FreshPayment(r)
            BY <2>1, <2>9 DEF Fresh
        <3>3. /\ invoice'[v].subtotal = invoice[v].subtotal
              /\ invoice'[v].adjust = invoice[v].adjust /\ invoice'[v].total = invoice[v].total
            <4>1. CASE Wrote(r, v)
                BY <1>3, <3>2, <4>1 DEF FreshPayment, RowBy
            <4>2. CASE ~Wrote(r, v)
                BY <1>3, <4>2 DEF RowBy
            <4> QED BY <4>1, <4>2
        <3> QED BY <2>5, <2>6, <3>1, <3>3
    <2> QED BY <2>2, <2>3, <2>8, <2>9
<1> QED BY <1>6, <1>7

\* An invoice that is deleted was counted to have no payments, and a payment that is
\* committed goes to an invoice that is there.
LEMMA CommitDeletes ==
    ASSUME IInv, NEW p \in Requests, Commit(p)
    PROVE  DeletedHasNoPaymentsUnlessRaced'
<1>1. PICK r : r = req[p]
    OBVIOUS
<1>2. r \in Request /\ Shape(r)
    BY <1>1, Known
<1>3. /\ r.pc = "commit" /\ raced \subseteq raced'
      /\ \A k \in Payments : payment'[k] = IF k = r.pay THEN r.give ELSE payment[k]
    BY <1>1, CommitRows
<1>4. SUFFICES ASSUME NEW v \in Invoices \ raced', invoice'[v].state = "deleted"
               PROVE  PaidOn(v)' = {}
    BY DEF DeletedHasNoPaymentsUnlessRaced
<1>5. v \in Invoices \ raced
    BY <1>3
<1>6. CASE v \notin Touches(p)
    <2>1. invoice'[v] = invoice[v] /\ PaidOn(v)' = PaidOn(v)
        BY <1>1, <1>6, TouchedOnly
    <2> QED BY <1>4, <1>5, <2>1 DEF IInv, DeletedHasNoPaymentsUnlessRaced
<1>7. CASE v \in Touches(p)
    <2>1. /\ Fresh(r)
          /\ r.op \in {"updateInvoice", "deleteInvoice"} => v = r.inv
          /\ r.op # "deleteInvoice" => invoice'[v].state = invoice[v].state
        BY <1>1, <1>7, TouchedFresh
    <2>2. /\ r.op \in {"updateInvoice", "deleteInvoice", "createPayment", "updatePayment",
                       "deletePayment"}
          /\ r.op \in {"updateInvoice", "deleteInvoice"} => r.pay = NoPayment
        BY <1>2, <1>3, CommittingOps
    <2>3. PaidOn(v) = {}
        <3>1. CASE r.op = "deleteInvoice"
            <4>1. FreshDelete(r)
                BY <2>1, <3>1 DEF Fresh
            <4> QED BY <1>3, <2>1, <3>1, <4>1 DEF FreshDelete
        <3>2. CASE r.op # "deleteInvoice"
            BY <1>4, <1>5, <2>1, <3>2 DEF IInv, DeletedHasNoPaymentsUnlessRaced
        <3> QED BY <3>1, <3>2
    <2>4. ASSUME NEW k \in Payments, payment'[k].state = "live", payment'[k].invoice = v
          PROVE  FALSE
        <3>1. CASE k # r.pay
            <4>1. k \in PaidOn(v)
                BY <1>3, <2>4, <3>1 DEF PaidOn, LivePay
            <4> QED BY <2>3, <4>1
        <3>2. CASE k = r.pay
            <4>1. r.op \in {"createPayment", "updatePayment", "deletePayment"}
                BY <2>2, <3>2, InvoiceAssumption
            <4>2. FreshPayment(r)
                BY <2>1, <4>1 DEF Fresh
            <4>3. r.give.state = "live" /\ r.give.invoice = v
                BY <1>3, <2>4, <3>2
            <4>4. invoice[v].state = "live"
                BY <1>5, <4>2, <4>3 DEF FreshPayment, Live
            <4> QED BY <1>4, <2>1, <4>1, <4>4
        <3> QED BY <3>1, <3>2
    <2> QED BY <2>4 DEF PaidOn, LivePay
<1> QED BY <1>6, <1>7

\* A commit gives every variable its shape.
LEMMA CommitTypes ==
    ASSUME IInv, NEW p \in Requests, Commit(p)
    PROVE  TypeOK'
<1>1. PICK r : r = req[p]
    OBVIOUS
<1>2. r \in Request /\ req \in [Requests -> Request]
    BY <1>1, Known
<1>3. invoice' \in [Invoices -> InvoiceRow]
    <2>1. invoice' = [v \in Invoices |-> InvoiceSeen(p, v)]
        BY DEF Commit
    <2>2. \A v \in Invoices : InvoiceSeen(p, v) \in InvoiceRow
        BY <1>1, <1>2, ByRecord, ReadTypes DEF IInv
    <2> QED BY <2>1, <2>2
<1>4. payment' \in [Payments -> PaymentRow]
    <2>1. payment' = [k \in Payments |-> PaymentSeen(p, k)]
        BY DEF Commit
    <2>2. \A k \in Payments : PaymentSeen(p, k) \in PaymentRow
        BY <1>1, <1>2, ByRecord, ReadTypes DEF IInv
    <2> QED BY <2>1, <2>2
<1>5. sheet' \in [Sheets -> SheetRow]
    <2>1. NoLines \in SheetRow /\ [state |-> "there", invoice |-> r.inv] \in SheetRow
        BY <1>2 DEF NoLines, SheetRow, Request
    <2>2. sheet \in [Sheets -> SheetRow]
        BY DEF IInv, TypeOK
    <2> QED BY <1>1, <2>1, <2>2, CommitRows
<1>6. req' \in [Requests -> Request]
    <2>1. req' = [q \in Requests |->
                     IF q = p THEN Idle
                     ELSE IF Outdates(p, q) THEN [req[q] EXCEPT !.stale = TRUE]
                     ELSE req[q]]
        BY DEF Commit, EndAndOvertake
    <2>2. Idle \in Request
        BY IdleFits
    <2>3. \A q \in Requests : [req[q] EXCEPT !.stale = TRUE] \in Request
        BY <1>2 DEF Request
    <2> QED BY <1>2, <2>1, <2>2, <2>3
<1>7. raced' \subseteq Invoices
    BY DEF Commit, Touches, IInv, TypeOK
<1> QED BY <1>3, <1>4, <1>5, <1>6, <1>7 DEF TypeOK

\* A commit keeps the invariant: it overtakes whoever has read what it writes.
LEMMA CommitKeeps ==
    ASSUME IInv, NEW p \in Requests, Commit(p)
    PROVE  IInv'
<1>1. req' = [q \in Requests |->
                 IF q = p THEN Idle
                 ELSE IF Outdates(p, q) THEN [req[q] EXCEPT !.stale = TRUE]
                 ELSE req[q]]
    BY DEF Commit, EndAndOvertake
<1>2. ASSUME NEW q \in Requests
      PROVE  /\ req[q] \in Request /\ Shape(req[q]) /\ (~req[q].stale => Fresh(req[q]))
             /\ req[q].pc = "idle" => req'[q] = Idle
             /\ q # p => /\ req'[q] = req[q] \/ req'[q] = [req[q] EXCEPT !.stale = TRUE]
                         /\ Outdates(p, q) => req'[q].stale
                         /\ ~Outdates(p, q) => req'[q] = req[q]
    <2>1. /\ req[q] \in Request /\ Shape(req[q]) /\ (~req[q].stale => Fresh(req[q]))
        BY Known
    <2>2. req[q].pc = "idle" => req'[q] = Idle
        BY <1>1, IdleIsLeftAlone
    <2>3. Outdates(p, q) /\ q # p => req'[q].stale
        BY <1>1, <2>1 DEF Request
    <2> QED BY <1>1, <2>1, <2>2, <2>3
<1>3. ASSUME Shape(Idle), Fresh(Idle) PROVE Shape(Idle)' /\ Fresh(Idle)'
    <2>1. /\ Idle.pc = "idle" /\ Idle.op = "none" /\ Idle.left = <<>> /\ Idle.drop = {}
          /\ Idle.sheet = NoSheet /\ \A v \in Invoices : ~Wrote(Idle, v)
        BY DEF Idle, Wrote, NoRow
    <2>2. Named(Idle) = {}
        BY InvoiceAssumption DEF Idle, Unpaid, Named
    <2>3. Shape(Idle)'
        BY <1>3, <2>1, <2>2 DEF Shape, Named, Wrote, Idle
    <2>4. Fresh(Idle)'
        BY <2>1 DEF Fresh, FreshStatus, Settling, Wrote
    <2> QED BY <2>3, <2>4
<1>4. Shape(Idle)' /\ Fresh(Idle)'
    BY <1>3, IdleFits
<1>5. ASSUME NEW q \in Requests PROVE Shape(req[q])' /\ (~req'[q].stale => Fresh(req[q])')
    <2>1. PICK s, z : s = req[q] /\ z = req'[q]
        OBVIOUS
    <2>2. CASE q = p \/ s.pc = "idle"
        <3>1. z = Idle
            BY <1>1, <1>2, <2>1, <2>2
        <3> QED BY <1>4, <2>1, <3>1 DEF Idle
    <2>3. CASE q # p /\ s.pc # "idle"
        <3>1. z = s \/ z = [s EXCEPT !.stale = TRUE]
            BY <1>2, <2>1, <2>3
        <3>2. Shape(z)'
            BY <2>1, <2>3, <3>1, OthersKeepShape
        <3>3. ASSUME ~z.stale PROVE Fresh(z)'
            <4>1. ~Outdates(p, q) /\ z = s
                BY <1>2, <2>1, <2>3, <3>3
            <4>2. Fresh(s)
                BY <1>2, <2>1, <3>3, <4>1
            <4>3. Fresh(s)'
                BY <2>1, <2>3, <4>1, <4>2, OthersStayFresh
            <4> QED BY <4>1, <4>3
        <3> QED BY <2>1, <3>2, <3>3
    <2> QED BY <2>2, <2>3
<1>6. ASSUME NEW q \in Requests, NEW o \in Requests, q # o PROVE Apart(req[q], req[o])'
    <2>1. \A x \in Requests :
             \/ req'[x] = Idle
             \/ /\ req'[x].sheet = req[x].sheet /\ req'[x].drop = req[x].drop
                /\ req'[x].op = req[x].op /\ req'[x].pay = req[x].pay
        <3>1. SUFFICES ASSUME NEW x \in Requests, req'[x] # Idle
                       PROVE  /\ req'[x].sheet = req[x].sheet /\ req'[x].drop = req[x].drop
                              /\ req'[x].op = req[x].op /\ req'[x].pay = req[x].pay
            OBVIOUS
        <3>2. PICK y, y1 : y = req[x] /\ y1 = req'[x]
            OBVIOUS
        <3>3. y \in Request /\ (y1 = y \/ y1 = [y EXCEPT !.stale = TRUE])
            BY <1>1, <1>2, <3>1, <3>2
        <3>4. /\ y1.sheet = y.sheet /\ y1.drop = y.drop
              /\ y1.op = y.op /\ y1.pay = y.pay
            BY <3>3 DEF Request
        <3> QED BY <3>2, <3>4
    <2>2. Apart(req[q], req[o])
        BY <1>6 DEF IInv
    <2>3. Apart(req[q], Idle)
        <3>1. Shape(req[q])
            BY <1>2
        <3>2. req[q].op = "createPayment" => CreatesPayment(req[q])
            BY <3>1 DEF Shape
        <3>3. CreatesPayment(req[q]) => req[q].pay # NoPayment
            BY InvoiceAssumption DEF CreatesPayment
        <3> QED BY <3>2, <3>3 DEF Apart, Idle
    <2>4. CASE req'[q] = Idle
        BY <2>4 DEF Apart, Idle
    <2>5. CASE req'[q] # Idle /\ req'[o] = Idle
        BY <2>1, <2>3, <2>5 DEF Apart
    <2>6. CASE req'[q] # Idle /\ req'[o] # Idle
        BY <2>1, <2>2, <2>6 DEF Apart
    <2> QED BY <2>4, <2>5, <2>6
<1>7. DataInv'
    BY CommitData
<1> QED BY <1>5, <1>6, <1>7, CommitTypes, CommitLines, CommitDeletes DEF IInv

-----------------------------------------------------------------------------
(* The theorems.                                                           *)

\* At first there is nothing.
LEMMA InitIInv == Init => IInv
<1> SUFFICES ASSUME Init PROVE IInv
    OBVIOUS
<1>1. TypeOK
    <2>1. Idle \in Request
        BY DEF Idle, Request, PCs, Ops, NoRow, InvoiceRow, Statuses, Unpaid, PaymentRow
    <2>2. NoRow \in InvoiceRow /\ NoLines \in SheetRow /\ Unpaid \in PaymentRow
        BY DEF NoRow, InvoiceRow, Statuses, NoLines, SheetRow, Unpaid, PaymentRow
    <2> QED BY <2>1, <2>2 DEF Init, TypeOK
<1>2. DataInv
    BY DEF Init, DataInv, Unpaid, NoLines
<1>3. \A p \in Requests : req[p] = Idle
    BY DEF Init
<1>4. LinesInv /\ DeletedHasNoPaymentsUnlessRaced
    BY DEF Init, LinesInv, DeletedHasNoPaymentsUnlessRaced, Live, NoRow
<1>5. \A p, q \in Requests : Apart(req[p], req[q])
    BY <1>3 DEF Apart, Idle
<1>6. Shape(Idle) /\ Fresh(Idle)
    <2>1. /\ Idle.pc = "idle" /\ Idle.op = "none" /\ Idle.left = <<>> /\ Idle.drop = {}
          /\ Idle.sheet = NoSheet /\ \A v \in Invoices : ~Wrote(Idle, v)
        BY DEF Idle, Wrote, NoRow
    <2>2. Named(Idle) = {} /\ Idle.left \in Lists({})
        BY <2>1, InvoiceAssumption DEF Idle, Unpaid, Named, Lists
    <2>3. Shape(Idle)
        BY <2>1, <2>2 DEF Shape
    <2>4. Fresh(Idle)
        BY <2>1 DEF Fresh, FreshStatus, Settling
    <2> QED BY <2>3, <2>4
<1> QED BY <1>1, <1>2, <1>3, <1>4, <1>5, <1>6 DEF IInv

\* Every step keeps the invariant.
LEMMA NextIInv == IInv /\ [Next]_vars => IInv'
<1> SUFFICES ASSUME IInv, [Next]_vars PROVE IInv'
    OBVIOUS
<1>1. CASE UNCHANGED vars
    <2>1. Unwritten /\ req' = req
        BY <1>1 DEF vars, Unwritten
    <2>2. \A q \in Requests : Shape(req[q])' /\ (~req'[q].stale => Fresh(req[q])')
        <3>1. SUFFICES ASSUME NEW q \in Requests
                       PROVE  Shape(req[q])' /\ (~req'[q].stale => Fresh(req[q])')
            OBVIOUS
        <3>2. PICK s : s = req[q]
            OBVIOUS
        <3>3. Shape(s) /\ (~s.stale => Fresh(s))
            BY <3>2, Known
        <3>4. Shape(s)' /\ (~s.stale => Fresh(s)')
            BY <2>1, <3>3, Quiet
        <3> QED BY <2>1, <3>2, <3>4
    <2> QED BY <1>1, <2>1, <2>2
            DEF vars, IInv, TypeOK, DataInv, Apart, LinesInv, Live, LinesOf,
                DeletedHasNoPaymentsUnlessRaced, PaidOn, LivePay
<1>2. CASE \E v \in Invoices : CreateInvoice(v)
    BY <1>2, CreateInvoiceKeeps
<1>3. ASSUME NEW p \in Requests, UpdateInvoice(p) \/ DeleteInvoice(p) PROVE IInv'
    BY <1>3, UpdateInvoiceKeeps, DeleteInvoiceKeeps
<1>4. ASSUME NEW p \in Requests, CreatePayment(p) \/ UpdatePayment(p) \/ DeletePayment(p)
      PROVE  IInv'
    BY <1>4, CreatePaymentKeeps, UpdatePaymentKeeps, DeletePaymentKeeps
<1>5. ASSUME NEW p \in Requests, FindLines(p) \/ ReplaceLines(p) \/ WriteInvoice(p) PROVE IInv'
    BY <1>5, FindLinesKeeps, ReplaceLinesKeeps, WriteInvoiceKeeps
<1>6. ASSUME NEW p \in Requests, CountPayments(p) \/ MarkDeleted(p) \/ WritePayment(p) PROVE IInv'
    BY <1>6, CountPaymentsKeeps, MarkDeletedKeeps, WritePaymentKeeps
<1>7. ASSUME NEW p \in Requests, ReadInvoice(p) \/ SumPayments(p) \/ WriteStatus(p) PROVE IInv'
    BY <1>7, ReadInvoiceKeeps, SumPaymentsKeeps, WriteStatusKeeps
<1>8. ASSUME NEW p \in Requests, Commit(p) PROVE IInv'
    BY <1>8, CommitKeeps
<1>9. ASSUME NEW p \in Requests, Rollback(p) PROVE IInv'
    BY <1>9, EndKeeps DEF Rollback
<1> QED BY <1>1, <1>2, <1>3, <1>4, <1>5, <1>6, <1>7, <1>8, <1>9 DEF Next

\* What is said of requests, rows and what was overtaken holds at every moment.
THEOREM InvoiceInvariant == Spec => []IInv
<1> QED BY InitIInv, NextIInv, PTL DEF Spec

\* Every variable has its shape at every moment.
THEOREM InvoiceTypes == Spec => []TypeOK
<1>1. IInv => TypeOK
    BY DEF IInv
<1> QED BY <1>1, InvoiceInvariant, PTL

\* An invoice that no request was overtaken on asks for what its lines say, however they
\* are edited at the same time, and leaves no payment behind when it is deleted
\* (updateInvoice, deleteInvoice).
THEOREM InvoiceHolds == Spec => []InvoiceHoldsUnlessRaced
<1>1. IInv => InvoiceHoldsUnlessRaced
    <2> SUFFICES ASSUME IInv PROVE InvoiceHoldsUnlessRaced
        OBVIOUS
    <2>1. ASSUME NEW v \in Invoices \ raced, Live(v)
          PROVE  /\ invoice[v].subtotal = SumFunctionOnSet(SheetSum, LinesOf(v))
                 /\ invoice[v].total = invoice[v].subtotal + invoice[v].adjust
        <3>1. PICK s \in Sheets : LinesOf(v) = {s} /\ invoice[v].subtotal = SheetSum[s]
            BY <2>1 DEF IInv, LinesInv
        <3>2. SheetSum[s] \in Int
            BY InvoiceAssumption
        <3>3. SumFunctionOnSet(SheetSum, {s}) = SheetSum[s]
            BY <3>2, SumOfOne
        <3>4. invoice[v].total = invoice[v].subtotal + invoice[v].adjust
            BY <2>1 DEF IInv, LinesInv
        <3> QED BY <3>1, <3>3, <3>4
    <2>2. SubtotalMatchesLinesUnlessRaced
        BY <2>1 DEF SubtotalMatchesLinesUnlessRaced
    <2> QED BY <2>2 DEF IInv, InvoiceHoldsUnlessRaced
<1> QED BY <1>1, InvoiceInvariant, PTL

\* What has been paid on an invoice is the same as long as its payments are.
LEMMA SamePaid ==
    ASSUME NEW v, PaidOn(v)' = PaidOn(v),
           \A k \in PaidOn(v) : payment'[k] = payment[k]
    PROVE  PaidSoFar(v)' = PaidSoFar(v)
<1>1. \A k \in Payments : (IF k \in PaidOn(v)' THEN payment'[k].amount ELSE 0)
                          = (IF k \in PaidOn(v) THEN payment[k].amount ELSE 0)
    OBVIOUS
<1> QED BY <1>1 DEF PaidSoFar

\* A commit leaves the status of what it touched in agreement with the payments: for
\* every invoice it names, its request has added up what it then commits.
LEMMA CommitSettles ==
    ASSUME IInv, NEW p \in Requests, Commit(p), NEW v \in Invoices \ raced', v \in Touches(p)
    PROVE  StatusFollows(v)'
<1>1. PICK r : r = req[p]
    OBVIOUS
<1>2. r \in Request /\ Shape(r) /\ Fresh(r)
    BY <1>1, Known, TouchedFresh
<1>3. /\ r.pc = "commit" /\ r.left = <<>>
      /\ \A w \in Invoices : invoice'[w] = RowBy(r, w)
      /\ \A k \in Payments : payment'[k] = IF k = r.pay THEN r.give ELSE payment[k]
    BY <1>1, CommitRows
<1>4. v \in Named(r)
    <2>1. \/ v \in {r.inv, r.give.invoice} \/ Wrote(r, v)
          \/ r.pay # NoPayment /\ payment[r.pay].invoice = v
        BY <1>1, ByRecord DEF Touches
    <2>2. v \in {r.inv, r.give.invoice} \/ Wrote(r, v) => v \in Named(r)
        BY <1>2 DEF Named, Shape
    <2>3. CASE r.pay # NoPayment /\ payment[r.pay].invoice = v
        <3>1. r.op \in {"createPayment", "updatePayment", "deletePayment"}
            BY <1>2, <1>3, <2>3, CommittingOps
        <3>2. r.op # "createPayment"
            BY <1>2, <2>3, InvoiceAssumption DEF Shape, CreatesPayment, Unpaid
        <3>3. payment[r.pay].invoice = r.inv
            BY <1>2, <3>1, <3>2 DEF Fresh, FreshPayment
        <3> QED BY <2>3, <3>3 DEF Named
    <2> QED BY <2>1, <2>2, <2>3
<1>5. SettledBy(r, v)
    <2>1. Todo(r) = {}
        BY <1>3 DEF Todo, Range
    <2>2. FreshStatus(r)
        BY <1>2 DEF Fresh
    <2> QED BY <1>3, <1>4, <2>1, <2>2 DEF FreshStatus, Settling
<1>6. PaidSoFar(v)' = PaidBy(r, v)
    <2>1. \A k \in Payments : PayBy(r, k) = payment'[k]
        BY <1>3, InvoiceAssumption DEF PayBy, HasWrittenPayment
    <2>2. \A k \in Payments : (IF k \in PaidOn(v)' THEN payment'[k].amount ELSE 0)
                              = (IF PayBy(r, k).state = "live" /\ PayBy(r, k).invoice = v
                                 THEN PayBy(r, k).amount ELSE 0)
        BY <2>1 DEF PaidOn, LivePay
    <2> QED BY <2>2 DEF PaidSoFar, PaidBy
<1>7. Live(v)' /\ invoice'[v].status \notin Preserved
          => invoice'[v].status = Derived(PaidBy(r, v), invoice'[v].total)
    BY <1>3, <1>5 DEF SettledBy, Live
<1> QED BY <1>6, <1>7 DEF StatusFollows, Derived

\* A new invoice that is sent has no payments yet.
LEMMA CreationSettles ==
    ASSUME IInv, CreatedAs \subseteq Preserved \cup {"sent"},
           NEW v \in Invoices, CreateInvoice(v)
    PROVE  StatusFollows(v)'
<1>1. PICK s \in Sheets, adjust \in Adjustments, status \in CreatedAs :
          /\ SheetSum[s] + adjust >= 0
          /\ invoice' = [invoice EXCEPT ![v] = Priced(s, adjust, status)]
    BY DEF CreateInvoice
<1>2. PICK row : row = invoice'[v]
    OBVIOUS
<1>3. row = Priced(s, adjust, status)
    BY <1>1, <1>2 DEF IInv, TypeOK
<1>4. row.status = status /\ row.total \in Nat
    <2>1. SheetSum[s] \in Nat /\ adjust \in Int
        BY InvoiceAssumption
    <2> QED BY <1>1, <1>3, <2>1 DEF Priced
<1>5. \A k \in Payments : k \notin PaidOn(v)'
    <2>1. ASSUME NEW k \in Payments PROVE payment[k].invoice # v
        <3>1. invoice[v].state = "none"
            BY DEF CreateInvoice
        <3> QED BY <3>1, InvoiceAssumption DEF IInv, DataInv
    <2>2. payment' = payment
        BY DEF CreateInvoice
    <2> QED BY <2>1, <2>2 DEF PaidOn
<1>6. PaidSoFar(v)' = 0
    <2>1. [k \in Payments |-> IF k \in PaidOn(v)' THEN payment'[k].amount ELSE 0]
             = [k \in Payments |-> 0]
        BY <1>5
    <2> QED BY <2>1, SumOfNothing, InvoiceAssumption DEF PaidSoFar
<1>7. Derived(0, row.total) = "sent"
    BY <1>4 DEF Derived
<1>8. row.status \notin Preserved => row.status = Derived(0, row.total)
    BY <1>4, <1>7
<1> QED BY <1>2, <1>6, <1>8 DEF StatusFollows, Derived

\* Until a request is overtaken on it, an invoice that is neither a draft nor cancelled is
\* paid, partially paid or sent according to its payments, whatever is paid, corrected,
\* moved, deleted and edited at the same time (recalcInvoiceStatus).  It has to begin so:
\* createInvoice stores whichever status it is sent and derives none.
THEOREM StatusAlwaysFollows ==
    ASSUME CreatedAs \subseteq Preserved \cup {"sent"}
    PROVE  Spec => []StatusFollowsUnlessRaced
<1>1. Init => StatusFollowsUnlessRaced
    BY DEF Init, StatusFollowsUnlessRaced, StatusFollows, Live, NoRow
<1>2. IInv /\ StatusFollowsUnlessRaced /\ [Next]_vars => StatusFollowsUnlessRaced'
    <2> SUFFICES ASSUME IInv, StatusFollowsUnlessRaced, [Next]_vars
                 PROVE  StatusFollowsUnlessRaced'
        OBVIOUS
    <2>1. ASSUME NEW v \in Invoices, v \notin raced, invoice'[v] = invoice[v],
                 PaidOn(v)' = PaidOn(v), \A k \in PaidOn(v) : payment'[k] = payment[k]
          PROVE  StatusFollows(v)'
        <3>1. PaidSoFar(v)' = PaidSoFar(v)
            BY <2>1, SamePaid
        <3>2. StatusFollows(v)
            BY <2>1 DEF StatusFollowsUnlessRaced
        <3> QED BY <2>1, <3>1, <3>2 DEF StatusFollows, Live, Derived
    <2>2. CASE Unwritten \/ UNCHANGED vars
        <3>1. invoice' = invoice /\ payment' = payment /\ raced' = raced
            BY <2>2 DEF Unwritten, vars
        <3>2. \A v \in Invoices : PaidOn(v)' = PaidOn(v)
            BY <3>1 DEF PaidOn, LivePay
        <3> QED BY <2>1, <3>1, <3>2 DEF StatusFollowsUnlessRaced
    <2>3. ASSUME NEW w \in Invoices, CreateInvoice(w) PROVE StatusFollowsUnlessRaced'
        <3>1. /\ payment' = payment /\ raced' = raced
              /\ \A v \in Invoices \ {w} : invoice'[v] = invoice[v]
            BY <2>3 DEF CreateInvoice, IInv, TypeOK
        <3>2. \A v \in Invoices : PaidOn(v)' = PaidOn(v)
            BY <3>1 DEF PaidOn, LivePay
        <3>3. StatusFollows(w)'
            BY <2>3, CreationSettles
        <3>4. \A v \in Invoices \ {w} : v \notin raced => StatusFollows(v)'
            BY <2>1, <3>1, <3>2
        <3> QED BY <3>1, <3>3, <3>4 DEF StatusFollowsUnlessRaced
    <2>4. ASSUME NEW p \in Requests, Commit(p) PROVE StatusFollowsUnlessRaced'
        <3>1. SUFFICES ASSUME NEW v \in Invoices \ raced' PROVE StatusFollows(v)'
            BY DEF StatusFollowsUnlessRaced
        <3>2. CASE v \in Touches(p)
            BY <2>4, <3>2, CommitSettles
        <3>3. CASE v \notin Touches(p)
            <4>1. /\ invoice'[v] = invoice[v] /\ PaidOn(v)' = PaidOn(v)
                  /\ \A k \in Payments : payment'[k] # payment[k] =>
                        payment[k].invoice \in Touches(p) \cup {NoInvoice}
                BY <2>4, <3>3, TouchedOnly
            <4>2. \A k \in PaidOn(v) : payment'[k] = payment[k]
                BY <3>3, <4>1, InvoiceAssumption DEF PaidOn
            <4>3. v \notin raced
                BY <2>4 DEF Commit
            <4> QED BY <2>1, <4>1, <4>2, <4>3
        <3> QED BY <3>2, <3>3
    <2>5. ASSUME NEW p \in Requests,
                 \/ UpdateInvoice(p) \/ DeleteInvoice(p)
                 \/ CreatePayment(p) \/ UpdatePayment(p) \/ DeletePayment(p)
                 \/ FindLines(p) \/ ReplaceLines(p) \/ WriteInvoice(p)
                 \/ CountPayments(p) \/ MarkDeleted(p) \/ WritePayment(p)
                 \/ ReadInvoice(p) \/ SumPayments(p) \/ WriteStatus(p) \/ Rollback(p)
          PROVE  Unwritten
        BY <2>5 DEF UpdateInvoice, DeleteInvoice, CreatePayment, UpdatePayment, DeletePayment,
                    Begin, FindLines, ReplaceLines, WriteInvoice, CountPayments, MarkDeleted,
                    WritePayment, ReadInvoice, SumPayments, WriteStatus, Rollback
    <2> QED BY <2>2, <2>3, <2>4, <2>5 DEF Next
<1> QED BY <1>1, <1>2, InvoiceInvariant, PTL DEF Spec

\* What a payment's request commits, not overtaken, neither sends a draft nor revives what
\* was cancelled (PRESERVED in invoiceStatus.ts).
THEOREM PaymentsLeaveDraftsAlone == Spec => PaymentsNeverSend
<1>1. ASSUME IInv, NEW p \in Requests, NEW v \in Invoices, Commit(p),
             req[p].pay # NoPayment, ~req[p].stale, invoice[v].status \in Preserved
      PROVE  invoice'[v].status = invoice[v].status
    <2>1. PICK r : r = req[p]
        OBVIOUS
    <2>2. r \in Request /\ Shape(r) /\ Fresh(r)
        BY <1>1, <2>1, Known
    <2>3. r.pc = "commit" /\ invoice'[v] = RowBy(r, v)
        BY <1>1, <2>1, CommitRows
    <2>4. r.op \in {"createPayment", "updatePayment", "deletePayment"}
        BY <1>1, <2>1, <2>2, <2>3, CommittingOps
    <2>5. ~Wrote(r, v)
        BY <1>1, <2>2, <2>4 DEF Fresh, FreshPayment
    <2> QED BY <2>3, <2>5 DEF RowBy
<1>2. IInv =>
         [\A p \in Requests, v \in Invoices :
             Commit(p) /\ req[p].pay # NoPayment /\ ~req[p].stale
                 /\ invoice[v].status \in Preserved
                 => invoice'[v].status = invoice[v].status]_vars
    BY <1>1
<1> QED BY <1>2, InvoiceInvariant, PTL DEF PaymentsNeverSend
=============================================================================
