CONSTANTS
    p1 = p1  p2 = p2  r1 = r1  r2 = r2  usd = usd  bdt = bdt  bank = bank
    Requests = {p1, p2}
    Records = {r1}
    Accounts = {usd, bdt, bank}
    Currency <- MCCurrency
    Opened = {usd, bdt}
    Opening <- EditOpening
    Tables <- EditTables
    Amounts <- EditAmounts
    Fees = {0, 1}
    Rates = {2}
    NoRecord = NoRecord
    NoAccount = NoAccount
SPECIFICATION Spec
INVARIANTS NoDriftUnlessRaced
CHECK_DEADLOCK FALSE
