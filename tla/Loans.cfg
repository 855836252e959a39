CONSTANTS
    p1 = p1  p2 = p2   l1 = l1  cash = cash  bank = bank
    a1 = a1  a2 = a2  b1 = b1  b2 = b2  b3 = b3
    Requests = {p1, p2}
    Loans = {l1}
    Instalments = {a1, a2, b1, b2}
    Accounts = {cash, bank}
    Borrowed <- MCBorrowed
    Total <- MCTotal
    SeqOf <- MCSeqOf
    Lengths = {1, 2}
    NoLoan = NoLoan
    NoInstalment = NoInstalment
    NoAccount = NoAccount
SYMMETRY Symmetric
SPECIFICATION Spec
INVARIANTS LedgerMatchesPaid LoanHoldsUnlessRaced
PROPERTIES PaidRowsStay SettlesOnlyWhenRepaid
CHECK_DEADLOCK FALSE
