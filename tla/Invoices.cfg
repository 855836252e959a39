CONSTANTS
    p1 = p1  p2 = p2  v1 = v1  v2 = v2  k1 = k1  k2 = k2  s1 = s1  s2 = s2  s3 = s3
    Requests = {p1, p2}
    Invoices = {v1}
    Payments = {k1, k2}
    Sheets = {s1, s2, s3}
    SheetSum <- MCSheetSum
    Amounts = {1}
    Adjustments = {0}
    CreatedAs = {"draft", "sent"}
    SetTo = {"sent", "cancelled"}
    NoInvoice = NoInvoice
    NoPayment = NoPayment
    NoSheet = NoSheet
SYMMETRY Symmetric
SPECIFICATION Spec
INVARIANTS StatusFollowsUnlessRaced InvoiceHoldsUnlessRaced
PROPERTY PaymentsNeverSend
CHECK_DEADLOCK FALSE
