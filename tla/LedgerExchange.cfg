CONSTANTS
    p1 = p1  p2 = p2  r1 = r1  r2 = r2  usd = usd  bdt = bdt  bank = bank
    Requests = {p1, p2}
    Records = {r1, r2}
    Accounts = {usd, bdt}
    Currency <- ExchangeCurrency
    Opened = {usd, bdt}
    Opening <- ExchangeOpening
    Tables <- ExchangeTables
    Amounts <- ExchangeAmounts
    Fees = {0}
    Rates = {2}
    NoRecord = NoRecord
    NoAccount = NoAccount
SPECIFICATION FairSpec
PROPERTIES ExchangeNeverOverdraws LockedBalanceStable EveryRequestEnds
CHECK_DEADLOCK FALSE
