------------------------------ MODULE MCLedger ------------------------------
(***************************************************************************)
(* Ledger on two small instances.  "Edits": one record of any table, two   *)
(* BDT accounts to move it between, and requests that edit and delete it.  *)
(* "Exchange": two records, each a payment or an exchange, that spend one  *)
(* USD balance.                                                            *)
(***************************************************************************)
EXTENDS Ledger, TLC

CONSTANTS p1, p2, r1, r2, usd, bdt, bank

MCCurrency == usd :> "USD" @@ bdt :> "BDT" @@ bank :> "BDT"
EditOpening == [a \in Accounts |-> 2]
EditAmounts ==
    [k \in Kinds |-> IF k \in {"payment", "expense", "exchange"} THEN {1, 2} ELSE {1}]
EditTables  == [r \in Records |-> Kinds]

ExchangeCurrency == usd :> "USD" @@ bdt :> "BDT"
ExchangeOpening  == usd :> 1 @@ bdt :> 0
ExchangeAmounts  == [k \in Kinds |-> IF k = "exchange" THEN {1, 2} ELSE {1}]
ExchangeTables   == [r \in Records |-> {"payment", "exchange"}]
=============================================================================
