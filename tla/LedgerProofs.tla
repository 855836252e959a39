---------------------------- MODULE LedgerProofs ----------------------------
(***************************************************************************)
(* What holds of the ledger for every set of requests, records, accounts   *)
(* and payloads: the types, the exclusion of the account locks, that a     *)
(* record no edit has overtaken never drifts, and that an exchange does    *)
(* not spend more than there is.                                           *)
(***************************************************************************)
EXTENDS Ledger, SumTheorems, TLAPS

-----------------------------------------------------------------------------
(* The inductive invariant.                                                *)

\* Which operation a request at each point of the code can be running.
PcInv(p) ==
    /\ req[p].pc = "idle" => req[p] = Idle
    /\ req[p].pc \in {"count", "deleteAccount"} => req[p].op = "deleteAccount"
    /\ req[p].pc \in {"lockRow", "balance"} => req[p].op = "create"
    /\ req[p].pc = "assertAccount" => req[p].op = "update"
    /\ req[p].pc \in {"reverse", "updateRow"} => Mutates(p)
    /\ req[p].pc \in {"insert", "commit"} => Writes(p)
    /\ req[p].pc \in {"reverse", "insert"} => req[p].rewrite
    /\ req[p].op = "none" => req[p].pc = "idle"
    /\ req[p].op = "deleteAccount" => req[p].acct \in Accounts

\* What a request is about to write is what its table allows, once
\* assertAccount has passed.
PayloadInv(p) ==
    /\ Writes(p) => req[p].rec \in Records /\ req[p].kind \in Kinds
    /\ req[p].op = "create" => req[p].new \in LegsOf[req[p].kind] /\ req[p].acct \in Accounts
    /\ req[p].op = "update" =>
          /\ req[p].kind # "exchange"
          /\ req[p].acct \in Accounts
          /\ \E n \in Amounts[req[p].kind] : req[p].new = Leg(req[p].kind, req[p].acct, n)
          /\ req[p].pc # "assertAccount" => req[p].new \in LegsOf[req[p].kind]
    /\ req[p].op = "delete" => req[p].new = Zero /\ req[p].rewrite

\* A request that creates a record is the only one that knows its id.
CreateInv(p) ==
    req[p].op = "create" =>
        /\ row[req[p].rec] = NoRow
        /\ held[req[p].rec] = Zero
        /\ req[p].open = Zero
        /\ req[p].rewrite
        /\ \A q \in Requests \ {p} : req[q].rec # req[p].rec

\* A request that edits or deletes a record, unless overtaken, still sees it
\* as it is: the record is live, the positions it read are the ones held, and
\* an edit that writes no ledger rows leaves the figures alone.
MutationInv(p) ==
    Mutates(p) =>
        /\ row[req[p].rec] # NoRow
        /\ row[req[p].rec].kind = req[p].kind
        /\ ~req[p].stale =>
              /\ row[req[p].rec].state = "live"
              /\ req[p].rewrite /\ req[p].pc \in {"insert", "updateRow", "commit"}
                    => req[p].open = held[req[p].rec]
              /\ ~req[p].rewrite => req[p].new = row[req[p].rec].legs

\* No ledger rows before there is a record.
UnusedInv == \A r \in Records : row[r] = NoRow => held[r] = Zero

IInv ==
    /\ TypeOK
    /\ UnusedInv
    /\ NoDriftUnlessRaced
    /\ \A p \in Requests : PcInv(p) /\ PayloadInv(p) /\ CreateInv(p) /\ MutationInv(p)

-----------------------------------------------------------------------------
(* Legs.                                                                   *)

\* The legs of a payload are integers on every account.
LEMMA LegTypes ==
    /\ Zero \in Legs
    /\ \A k \in Kinds, a \in Accounts : \A n \in Amounts[k] : Leg(k, a, n) \in Legs
    /\ \A k \in Kinds : LegsOf[k] \subseteq Legs
<1>1. Zero \in Legs
  BY DEF Zero, Legs
<1>2. ASSUME NEW k \in Kinds, NEW a \in Accounts, NEW n \in Amounts[k]
      PROVE  Leg(k, a, n) \in Legs
  <2>1. n \in Int
    BY LedgerAssumption
  <2>2. QED
    BY <2>1 DEF Leg, Legs
<1>3. ASSUME NEW k \in Kinds PROVE LegsOf[k] \subseteq Legs
  <2>1. CASE k # "exchange"
    <3>1. LegsOf[k] = {Leg(k, x[1], x[2]) :
                 x \in {y \in Accounts \X Amounts[k] : Currency[y[1]] = CurrencyOf(k)}}
      BY <2>1 DEF LegsOf
    <3>2. QED
      BY <1>2, <3>1
  <2>2. CASE k = "exchange"
    <3>1. LegsOf[k] = {ExchangeLegs(x[1], x[2], x[3], x[4], x[5]) : x \in ExchangePayloads}
      BY <2>2 DEF LegsOf
    <3>2. ASSUME NEW x \in ExchangePayloads
          PROVE  ExchangeLegs(x[1], x[2], x[3], x[4], x[5]) \in Legs
      <4>1. x[3] \in Int /\ x[4] \in Int /\ x[5] \in Int
        <5>1. "exchange" \in Kinds
          BY DEF Kinds
        <5>2. x \in Accounts \X Accounts \X Amounts["exchange"] \X Fees \X Rates
          BY DEF ExchangePayloads
        <5>3. x[3] \in Amounts["exchange"] /\ x[4] \in Fees /\ x[5] \in Rates
          BY <5>2
        <5>4. Amounts["exchange"] \subseteq Nat
          BY <5>1, LedgerAssumption
        <5>5. x[3] \in Nat
          BY <5>3, <5>4
        <5>6. x[4] \in Nat
          BY <5>3, LedgerAssumption
        <5>7. x[5] \in Nat
          BY <5>3, LedgerAssumption
        <5>8. QED
          BY <5>5, <5>6, <5>7
      <4>2. -x[3] \in Int /\ (x[3] - x[4]) * x[5] \in Int
        BY <4>1
      <4>3. QED
        BY <4>2 DEF ExchangeLegs, Legs
    <3>3. QED
      BY <3>1, <3>2
  <2>3. QED
    BY <2>1, <2>2
<1>4. QED
  BY <1>1, <1>2, <1>3

\* Taking out what is held and putting in new legs leaves exactly the new legs.
LEMMA RewriteExact ==
    ASSUME NEW h \in Legs, NEW n \in Legs
    PROVE  [a \in Accounts |-> h[a] - h[a] + n[a]] = n
BY DEF Legs

\* An account and an amount in the table's currency make legal legs.
LEMMA LegLegal ==
    ASSUME NEW k \in Kinds \ {"exchange"}, NEW a \in Accounts, NEW n \in Amounts[k],
           Currency[a] = CurrencyOf(k)
    PROVE  Leg(k, a, n) \in LegsOf[k]
<1>1. LegsOf[k] = {Leg(k, x[1], x[2]) :
             x \in {y \in Accounts \X Amounts[k] : Currency[y[1]] = CurrencyOf(k)}}
  BY DEF LegsOf
<1>2. <<a, n>> \in {y \in Accounts \X Amounts[k] : Currency[y[1]] = CurrencyOf(k)}
  OBVIOUS
<1>3. QED
  BY <1>1, <1>2

-----------------------------------------------------------------------------
(* The initial states and the steps.                                       *)

\* An idle request has the shape of a request.
LEMMA IdleType == Idle \in Request
BY LegTypes DEF Idle, Request, PCs, Ops

\* Before any request the invariant holds.
LEMMA InitIInv == Init => IInv
<1> SUFFICES ASSUME Init PROVE IInv
  OBVIOUS
<1>1. TypeOK
  BY LegTypes, IdleType DEF Init, TypeOK
<1>2. NoDriftUnlessRaced
  BY DEF Init, NoDriftUnlessRaced, Expected, NoRow
<1>3. UnusedInv
  BY DEF Init, UnusedInv
<1>4. ASSUME NEW p \in Requests
      PROVE  PcInv(p) /\ PayloadInv(p) /\ CreateInv(p) /\ MutationInv(p)
  <2>1. req[p] = Idle
    BY DEF Init
  <2>2. QED
    BY <2>1 DEF PcInv, PayloadInv, CreateInv, MutationInv, Mutates, Writes, Idle
<1>5. QED
  BY <1>1, <1>2, <1>3, <1>4 DEF IInv

\* A step of p that commits nothing keeps the invariant of every other
\* request, as long as p does not take up an id another one is creating.
LEMMA LocalStep ==
    ASSUME IInv, NEW p \in Requests, NEW new \in Request,
           account' \in [Accounts -> {"none", "live", "deleted"}],
           req' = [req EXCEPT ![p] = new],
           UNCHANGED <<row, held, moved, raced>>,
           \A q \in Requests \ {p} : req[q].op = "create" => req[q].rec # new.rec,
           (PcInv(p) /\ PayloadInv(p) /\ CreateInv(p) /\ MutationInv(p))'
    PROVE  IInv'
<1>1. req \in [Requests -> Request] /\ req'[p] = new /\ \A q \in Requests \ {p} : req'[q] = req[q]
  BY DEF IInv, TypeOK
<1>2. TypeOK'
  BY DEF IInv, TypeOK
<1>3. NoDriftUnlessRaced' /\ UnusedInv'
  BY DEF IInv, NoDriftUnlessRaced, Expected, UnusedInv
<1>4. ASSUME NEW q \in Requests, q # p
      PROVE  (PcInv(q) /\ PayloadInv(q) /\ CreateInv(q) /\ MutationInv(q))'
  <2>1. PcInv(q)' /\ PayloadInv(q)' /\ MutationInv(q)'
    BY <1>1, <1>4 DEF IInv, PcInv, PayloadInv, MutationInv, Mutates, Writes
  <2>2. CreateInv(q)'
    BY <1>1, <1>4 DEF IInv, CreateInv
  <2>3. QED
    BY <2>1, <2>2
<1>5. QED
  BY <1>2, <1>3, <1>4 DEF IInv

\* A request starts to record money.
LEMMA BeginCreateIInv ==
    ASSUME IInv, NEW p \in Requests, NEW r \in Records, NEW k \in Kinds, NEW a \in Accounts,
           NEW legs \in LegsOf[k], NEW pc \in {"insert", "lockRow"},
           BeginCreate(p, r, k, a, legs, pc)
    PROVE  IInv'
<1> DEFINE new == [Idle EXCEPT !.pc = pc, !.op = "create", !.rec = r, !.acct = a, !.kind = k,
                               !.new = legs, !.rewrite = TRUE]
<1>1. /\ req' = [req EXCEPT ![p] = new] /\ UNCHANGED <<account, row, held, moved, raced>>
      /\ row[r].state = "none" /\ \A q \in Requests : req[q].rec # r
  BY DEF BeginCreate, Fresh
<1>2. /\ new.pc = pc /\ new.op = "create" /\ new.rec = r /\ new.acct = a /\ new.kind = k
      /\ new.new = legs /\ new.open = Zero /\ new.rewrite = TRUE /\ new.stale = FALSE
  BY DEF Idle
<1>3. new \in Request
  BY <1>2, LegTypes DEF Idle, Request, PCs, Ops
<1> HIDE DEF new
<1>4. req'[p] = new /\ \A q \in Requests \ {p} : req'[q] = req[q]
  BY <1>1 DEF IInv, TypeOK
<1>5. row[r] = NoRow /\ held[r] = Zero
  BY <1>1 DEF IInv, TypeOK, Row, UnusedInv
<1>6. PcInv(p)' /\ PayloadInv(p)' /\ MutationInv(p)'
  BY <1>2, <1>4 DEF PcInv, PayloadInv, MutationInv, Mutates, Writes
<1>7. CreateInv(p)'
  BY <1>1, <1>2, <1>4, <1>5 DEF CreateInv
<1>8. QED
  BY <1>1, <1>2, <1>3, <1>6, <1>7, LocalStep DEF IInv, TypeOK

\* A request reads the record it will edit or delete.
LEMMA BeginMutationIInv ==
    ASSUME IInv, NEW p \in Requests, NEW r \in Records, NEW k \in Kinds,
           NEW a \in Accounts \cup {NoAccount}, NEW legs \in Legs, NEW rewrite \in BOOLEAN,
           NEW op, NEW pc,
           \/ /\ op = "update" /\ pc = "assertAccount" /\ a \in Accounts /\ k # "exchange"
              /\ \E n \in Amounts[k] : legs = Leg(k, a, n)
              /\ ~rewrite => legs = row[r].legs
           \/ op = "delete" /\ pc = "reverse" /\ legs = Zero /\ rewrite,
           BeginMutation(p, r, k, op, a, legs, rewrite, pc)
    PROVE  IInv'
<1> DEFINE new == [Idle EXCEPT !.pc = pc, !.op = op, !.rec = r, !.acct = a, !.kind = k,
                               !.new = legs, !.rewrite = rewrite]
<1>1. /\ req' = [req EXCEPT ![p] = new] /\ UNCHANGED <<account, row, held, moved, raced>>
      /\ row[r].state = "live" /\ row[r].kind = k
  BY DEF BeginMutation
<1>2. /\ new.pc = pc /\ new.op = op /\ new.rec = r /\ new.acct = a /\ new.kind = k
      /\ new.new = legs /\ new.open = Zero /\ new.rewrite = rewrite /\ new.stale = FALSE
  BY DEF Idle
<1>3. new \in Request
  BY <1>2, LegTypes DEF Idle, Request, PCs, Ops
<1> HIDE DEF new
<1>4. req'[p] = new /\ \A q \in Requests \ {p} : req'[q] = req[q]
  BY <1>1 DEF IInv, TypeOK
<1>5. row[r] # NoRow
  BY <1>1 DEF NoRow
<1>6. PcInv(p)' /\ PayloadInv(p)' /\ CreateInv(p)'
  BY <1>2, <1>4 DEF PcInv, PayloadInv, CreateInv, Mutates, Writes
<1>7. MutationInv(p)'
  BY <1>1, <1>2, <1>4, <1>5 DEF MutationInv, Mutates
<1>8. \A q \in Requests \ {p} : req[q].op = "create" => req[q].rec # new.rec
  BY <1>2, <1>5 DEF IInv, CreateInv
<1>9. QED
  BY <1>1, <1>3, <1>6, <1>7, <1>8, LocalStep DEF IInv, TypeOK

\* A request ends without having written anything.
LEMMA EndIInv ==
    ASSUME IInv, NEW p \in Requests, End(p),
           account' \in [Accounts -> {"none", "live", "deleted"}],
           UNCHANGED <<row, held, moved, raced>>
    PROVE  IInv'
<1>1. req' = [req EXCEPT ![p] = Idle] /\ req'[p] = Idle
  BY DEF End, IInv, TypeOK
<1>2. (PcInv(p) /\ PayloadInv(p) /\ CreateInv(p) /\ MutationInv(p))'
  BY <1>1 DEF PcInv, PayloadInv, CreateInv, MutationInv, Mutates, Writes, Idle
<1>3. \A q \in Requests \ {p} : req[q].op = "create" => req[q].rec # Idle.rec
  BY LedgerAssumption DEF Idle, IInv, PayloadInv, Writes
<1>4. QED
  BY <1>1, <1>2, <1>3, IdleType, LocalStep

\* A request moves on to its next statement.
LEMMA GotoIInv ==
    ASSUME IInv, NEW p \in Requests, NEW pc \in PCs, Goto(p, pc),
           UNCHANGED <<account, row, held, moved, raced>>,
           \/ pc = "deleteAccount" /\ req[p].pc = "count"
           \/ pc = "balance" /\ req[p].pc = "lockRow"
           \/ pc = "insert" /\ req[p].pc = "balance"
           \/ /\ pc \in {"reverse", "updateRow"} /\ req[p].pc = "assertAccount"
              /\ AssertAccount(req[p].acct, CurrencyOf(req[p].kind))
              /\ (pc = "reverse") = req[p].rewrite
           \/ /\ pc \in {"updateRow", "commit"} /\ req[p].pc = "insert"
              /\ pc = "updateRow" => Mutates(p)
           \/ pc = "commit" /\ req[p].pc = "updateRow"
    PROVE  IInv'
<1> DEFINE new == [req[p] EXCEPT !.pc = pc]
<1>1. req' = [req EXCEPT ![p] = new] /\ req'[p] = new /\ req[p] \in Request
  BY DEF Goto, IInv, TypeOK
<1>2. /\ new \in Request
      /\ new.pc = pc /\ new.op = req[p].op /\ new.rec = req[p].rec /\ new.acct = req[p].acct
      /\ new.kind = req[p].kind /\ new.new = req[p].new /\ new.open = req[p].open
      /\ new.rewrite = req[p].rewrite /\ new.stale = req[p].stale
  BY <1>1 DEF Request
<1> HIDE DEF new
<1>3. \A q \in Requests \ {p} : req'[q] = req[q]
  BY <1>1 DEF IInv, TypeOK
<1>4. PcInv(p) /\ PayloadInv(p) /\ CreateInv(p) /\ MutationInv(p)
  BY DEF IInv
<1>5. PcInv(p)'
  BY <1>1, <1>2, <1>4 DEF PcInv, CreateInv, Mutates, Writes
<1>6. PayloadInv(p)'
  <2>1. CASE req[p].pc = "assertAccount" /\ AssertAccount(req[p].acct, CurrencyOf(req[p].kind))
    <3>1. req[p].op = "update"
      BY <1>4, <2>1 DEF PcInv
    <3>2. req[p].new \in LegsOf[req[p].kind]
      BY <1>4, <2>1, <3>1, LegLegal DEF PayloadInv, AssertAccount, Writes
    <3>3. QED
      BY <1>1, <1>2, <1>4, <3>1, <3>2 DEF PayloadInv, Writes
  <2>2. CASE req[p].pc # "assertAccount"
    BY <1>1, <1>2, <1>4, <2>2 DEF PayloadInv, Writes
  <2>3. QED
    BY <2>1, <2>2
<1>7. CreateInv(p)'
  BY <1>1, <1>2, <1>3, <1>4 DEF CreateInv
<1>8. MutationInv(p)'
  <2>1. /\ req'[p].pc = pc /\ req'[p].rec = req[p].rec /\ req'[p].kind = req[p].kind
        /\ req'[p].stale = req[p].stale /\ req'[p].rewrite = req[p].rewrite
        /\ req'[p].open = req[p].open /\ req'[p].new = req[p].new
        /\ Mutates(p)' = Mutates(p)
    BY <1>1, <1>2 DEF Mutates
  <2>2. Mutates(p) /\ req[p].rewrite /\ pc \in {"insert", "updateRow", "commit"}
        => req[p].pc \in {"insert", "updateRow", "commit"}
    BY <1>4 DEF PcInv, Mutates
  <2>3. QED
    BY <1>4, <2>1, <2>2 DEF MutationInv
<1>9. \A q \in Requests \ {p} : req[q].op = "create" => req[q].rec # new.rec
  BY <1>2 DEF IInv, CreateInv
<1>10. QED
  BY <1>1, <1>2, <1>5, <1>6, <1>7, <1>8, <1>9, LocalStep DEF IInv, TypeOK

\* A request reads what the record holds.
LEMMA ReverseIInv ==
    ASSUME IInv, NEW p \in Requests, ReverseLedgerEntries(p)
    PROVE  IInv'
<1> DEFINE new == [req[p] EXCEPT !.pc = "insert", !.open = held[req[p].rec]]
<1>1. /\ req' = [req EXCEPT ![p] = new] /\ req'[p] = new /\ req[p] \in Request
      /\ req[p].pc = "reverse" /\ UNCHANGED <<account, row, held, moved, raced>>
  BY DEF ReverseLedgerEntries, OpenPositions, IInv, TypeOK
<1>2. PcInv(p) /\ PayloadInv(p) /\ CreateInv(p) /\ MutationInv(p)
  BY DEF IInv
<1>3. Mutates(p) /\ req[p].rewrite /\ req[p].rec \in Records
  BY <1>1, <1>2 DEF PcInv, PayloadInv, Writes, Mutates
<1>4. held[req[p].rec] \in Legs
  BY <1>3 DEF IInv, TypeOK
<1>5. /\ new \in Request
      /\ new.pc = "insert" /\ new.op = req[p].op /\ new.rec = req[p].rec
      /\ new.acct = req[p].acct /\ new.kind = req[p].kind /\ new.new = req[p].new
      /\ new.open = held[req[p].rec] /\ new.rewrite = req[p].rewrite /\ new.stale = req[p].stale
  BY <1>1, <1>4 DEF Request, PCs
<1> HIDE DEF new
<1>6. PcInv(p)' /\ PayloadInv(p)' /\ CreateInv(p)'
  <2>1. /\ req'[p].pc = "insert" /\ req'[p].op = req[p].op /\ req'[p].rec = req[p].rec
        /\ req'[p].acct = req[p].acct /\ req'[p].kind = req[p].kind
        /\ req'[p].new = req[p].new /\ req'[p].rewrite = req[p].rewrite
    BY <1>1, <1>5
  <2>2. PcInv(p)'
    BY <1>3, <2>1 DEF PcInv, Mutates, Writes
  <2>3. PayloadInv(p)'
    BY <1>1, <1>2, <2>1 DEF PayloadInv, Writes
  <2>4. CreateInv(p)'
    BY <1>3, <2>1 DEF CreateInv, Mutates
  <2>5. QED
    BY <2>2, <2>3, <2>4
<1>7. MutationInv(p)'
  <2>1. /\ req'[p].rec = req[p].rec /\ req'[p].kind = req[p].kind
        /\ req'[p].stale = req[p].stale /\ req'[p].rewrite = req[p].rewrite
        /\ req'[p].open = held[req[p].rec] /\ UNCHANGED <<row, held>>
    BY <1>1, <1>5
  <2>2. QED
    BY <1>2, <1>3, <2>1 DEF MutationInv
<1>8. \A q \in Requests \ {p} : req[q].op = "create" => req[q].rec # new.rec
  BY <1>5 DEF IInv, CreateInv
<1>9. QED
  BY <1>1, <1>5, <1>6, <1>7, <1>8, LocalStep DEF IInv, TypeOK

\* A transaction that writes a record commits: the record gets its new row,
\* its ledger rows appear and every request that had read it is overtaken.
LEMMA CommitIInv ==
    ASSUME IInv, NEW p \in Requests, NEW r \in Records, r = req[p].rec,
           NEW newRow \in Row, Commit(p, newRow),
           newRow.kind = req[p].kind, newRow.legs \in LegsOf[newRow.kind],
           \/ req[p].op = "create" /\ newRow.state = "live" /\ newRow.legs = req[p].new
           \/ /\ req[p].op = "update" /\ newRow.legs = req[p].new
              /\ newRow.state = row[req[p].rec].state
           \/ req[p].op = "delete" /\ newRow.state = "deleted"
    PROVE  IInv'
<1> DEFINE overtaken(q) == [req[q] EXCEPT !.stale = TRUE]
<1>1. /\ PcInv(p) /\ PayloadInv(p) /\ CreateInv(p) /\ MutationInv(p)
      /\ \A q \in Requests : req[q] \in Request
      /\ req[p].pc = "commit" /\ UNCHANGED account
  BY DEF IInv, TypeOK, Commit
<1>2. req[p].kind \in Kinds /\ req[p].new \in Legs /\ req[p].open \in Legs
  BY <1>1 DEF PcInv, PayloadInv, Request
<1>3. /\ row' = [row EXCEPT ![r] = newRow] /\ row'[r] = newRow
      /\ \A x \in Records \ {r} : row'[x] = row[x] /\ held'[x] = held[x]
      /\ held'[r] = IF req[p].rewrite THEN Rewritten(p) ELSE held[r]
      /\ held[r] \in Legs
  BY <1>2 DEF Commit, IInv, TypeOK
<1>4. Rewritten(p) \in Legs
  BY <1>2, <1>3 DEF Rewritten, Legs
<1>5. /\ req' \in [Requests -> Request]
      /\ req'[p] = Idle
      /\ \A q \in Requests \ {p} : req'[q] = req[q] \/ req'[q] = overtaken(q)
      /\ \A q \in Requests \ {p} : Mutates(q) /\ req[q].rec = r => req'[q] = overtaken(q)
  <2>1. req' = [q \in Requests |-> IF q = p THEN Idle
                                   ELSE IF Mutates(q) /\ req[q].rec = r THEN overtaken(q)
                                   ELSE req[q]]
    BY DEF Commit, EndAndOvertake
  <2>2. \A q \in Requests : overtaken(q) \in Request
    <3> SUFFICES ASSUME NEW q \in Requests PROVE overtaken(q) \in Request
      OBVIOUS
    <3>1. req[q] \in Request
      BY <1>1
    <3>2. QED
      BY <3>1 DEF Request
  <2> HIDE DEF overtaken
  <2>3. QED
    BY <1>1, <2>1, <2>2, IdleType
<1>6. newRow # NoRow /\ row' \in [Records -> Row \cup {NoRow}]
  BY <1>2, <1>3 DEF IInv, TypeOK, NoRow, Row
<1>7. TypeOK'
  <2>1. held' \in [Records -> Legs]
    BY <1>2, <1>3, <1>4 DEF Commit, IInv, TypeOK
  <2>2. moved' \subseteq Accounts
    BY DEF Commit, Inserts, Touched, IInv, TypeOK
  <2>3. raced' \subseteq Records
    BY <1>2 DEF Commit, IInv, TypeOK
  <2>4. \A x \in Records : row'[x] # NoRow => row'[x].legs \in LegsOf[row'[x].kind]
    BY <1>3 DEF IInv, TypeOK
  <2>5. QED
    BY <1>1, <1>5, <1>6, <2>1, <2>2, <2>3, <2>4 DEF IInv, TypeOK
<1>8. NoDriftUnlessRaced'
  <2>1. ASSUME NEW x \in Records \ raced', x # r PROVE held'[x] = Expected(x)'
    BY <1>3, <2>1 DEF Commit, IInv, NoDriftUnlessRaced, Expected
  <2>2. ASSUME r \notin raced' PROVE held'[r] = Expected(r)'
    <3>1. ~req[p].stale /\ r \notin raced
      BY <2>2 DEF Commit
    <3>2. CASE req[p].op = "create"
      <4>1. held'[r] = req[p].new
        <5>1. req[p].rewrite /\ req[p].open = held[r]
          BY <1>1, <3>2 DEF CreateInv
        <5>2. QED
          BY <1>2, <1>3, <5>1, RewriteExact DEF Rewritten
      <4>2. QED
        BY <1>3, <3>2, <4>1 DEF Expected
    <3>3. CASE Mutates(p) /\ ~req[p].rewrite
      <4>1. req[p].op = "update"
        BY <1>1, <3>3 DEF PayloadInv, Mutates
      <4>2. held[r] = row[r].legs /\ row[r].state = "live" /\ row[r].legs = req[p].new
        BY <1>1, <1>2, <3>1, <3>3 DEF MutationInv, IInv, NoDriftUnlessRaced, Expected
      <4>3. QED
        BY <1>3, <3>3, <4>1, <4>2 DEF Expected
    <3>4. CASE Mutates(p) /\ req[p].rewrite
      <4>1. req[p].open = held[r] /\ row[r].state = "live"
        BY <1>1, <3>1, <3>4 DEF MutationInv
      <4>2. held'[r] = req[p].new
        BY <1>2, <1>3, <3>4, <4>1, RewriteExact DEF Rewritten
      <4>3. req[p].op = "delete" => req[p].new = Zero
        BY <1>1 DEF PayloadInv
      <4>4. QED
        BY <1>3, <3>4, <4>1, <4>2, <4>3 DEF Expected, Mutates
    <3>5. QED
      BY <3>2, <3>3, <3>4 DEF Mutates
  <2>3. QED
    BY <2>1, <2>2 DEF NoDriftUnlessRaced
<1>9. UnusedInv'
  BY <1>2, <1>3, <1>6 DEF IInv, UnusedInv
<1>10. ASSUME NEW q \in Requests
       PROVE  (PcInv(q) /\ PayloadInv(q) /\ CreateInv(q) /\ MutationInv(q))'
  <2>1. CASE q = p
    BY <1>5, <2>1 DEF PcInv, PayloadInv, CreateInv, MutationInv, Mutates, Writes, Idle
  <2>2. CASE q # p
    <3>1. /\ req'[q].pc = req[q].pc /\ req'[q].op = req[q].op /\ req'[q].rec = req[q].rec
          /\ req'[q].acct = req[q].acct /\ req'[q].kind = req[q].kind
          /\ req'[q].new = req[q].new /\ req'[q].open = req[q].open
          /\ req'[q].rewrite = req[q].rewrite
      BY <1>1, <1>5, <2>2 DEF Request
    <3>2. PcInv(q) /\ PayloadInv(q) /\ CreateInv(q) /\ MutationInv(q)
      BY DEF IInv
    <3>3. PcInv(q)'
      <4>1. CASE req'[q] = req[q]
        BY <3>2, <4>1 DEF PcInv, Mutates, Writes
      <4>2. CASE Mutates(q)
        BY <3>1, <3>2, <4>2 DEF PcInv, Mutates, Writes, Idle
      <4>3. QED
        BY <1>5, <2>2, <4>1, <4>2 DEF Commit, EndAndOvertake
    <3>4. PayloadInv(q)'
      BY <3>1, <3>2 DEF PayloadInv, Writes
    <3>5. CreateInv(q)'
      <4>1. ASSUME req[q].op = "create" PROVE req[q].rec \in Records \ {r}
        BY <2>2, <3>2, <4>1 DEF CreateInv, PayloadInv, Writes
      <4>2. ASSUME req[q].op = "create", NEW x \in Requests \ {q}
            PROVE  req'[x].rec # req'[q].rec
        <5>1. req'[x].rec \in {req[x].rec, NoRecord}
          BY <1>1, <1>5 DEF Request, Idle
        <5>2. QED
          BY <3>1, <3>2, <4>1, <4>2, <5>1, LedgerAssumption DEF CreateInv
      <4>3. QED
        BY <1>3, <3>1, <3>2, <4>1, <4>2 DEF CreateInv
    <3>6. MutationInv(q)'
      <4>1. CASE req[q].rec = r /\ Mutates(q)
        <5>1. req'[q].stale = TRUE
          BY <1>1, <1>5, <2>2, <4>1 DEF Request
        <5>2. req[p].op # "create"
          BY <1>1, <2>2, <4>1 DEF CreateInv
        <5>3. row[r].kind = req[q].kind /\ row[r].kind = req[p].kind
          BY <1>1, <3>2, <4>1, <5>2 DEF MutationInv, Mutates, PcInv, Writes
        <5>4. QED
          BY <1>3, <1>6, <3>1, <4>1, <5>1, <5>3 DEF MutationInv, Mutates
      <4>2. CASE req[q].rec # r /\ Mutates(q)
        <5>1. req[q].rec \in Records \ {r}
          BY <3>2, <4>2 DEF PayloadInv, Mutates, Writes
        <5>2. req'[q].stale = req[q].stale
          BY <2>2, <4>2 DEF Commit, EndAndOvertake
        <5>3. QED
          BY <1>3, <3>1, <3>2, <5>1, <5>2 DEF MutationInv, Mutates
      <4>3. CASE ~Mutates(q)
        BY <3>1, <4>3 DEF MutationInv, Mutates
      <4>4. QED
        BY <4>1, <4>2, <4>3
    <3>7. QED
      BY <3>3, <3>4, <3>5, <3>6
  <2>3. QED
    BY <2>1, <2>2
<1>11. QED
  BY <1>7, <1>8, <1>9, <1>10 DEF IInv

-----------------------------------------------------------------------------
(* Every step.                                                             *)

\* The first statements of a request.
LEMMA StartIInv ==
    ASSUME IInv, NEW p \in Requests, Start(p)
    PROVE  IInv'
<1>1. ASSUME NEW a \in Accounts, DeleteAccount(p, a) PROVE IInv'
  <2> DEFINE new == [Idle EXCEPT !.pc = "count", !.op = "deleteAccount", !.acct = a]
  <2>1. req' = [req EXCEPT ![p] = new] /\ req'[p] = new
        /\ UNCHANGED <<account, row, held, moved, raced>>
    BY <1>1 DEF DeleteAccount, IInv, TypeOK
  <2>2. /\ new \in Request
        /\ new.pc = "count" /\ new.op = "deleteAccount" /\ new.acct = a /\ new.rec = NoRecord
    BY LegTypes DEF Idle, Request, PCs, Ops
  <2> HIDE DEF new
  <2>3. (PcInv(p) /\ PayloadInv(p) /\ CreateInv(p) /\ MutationInv(p))'
    BY <2>1, <2>2 DEF PcInv, PayloadInv, CreateInv, MutationInv, Mutates, Writes
  <2>4. \A q \in Requests \ {p} : req[q].op = "create" => req[q].rec # new.rec
    BY <2>2, LedgerAssumption DEF IInv, PayloadInv, Writes
  <2>5. QED
    BY <2>1, <2>2, <2>3, <2>4, LocalStep DEF IInv, TypeOK
<1>2. ASSUME NEW k \in Kinds \ {"exchange"}, CreateRecord(p, k) PROVE IInv'
  <2>1. PICK r \in Records, a \in Accounts, n \in Amounts[k] :
            AssertAccount(a, CurrencyOf(k)) /\ BeginCreate(p, r, k, a, Leg(k, a, n), "insert")
    BY <1>2 DEF CreateRecord
  <2>2. Leg(k, a, n) \in LegsOf[k]
    BY <2>1, LegLegal DEF AssertAccount
  <2>3. QED
    BY <2>1, <2>2, BeginCreateIInv
<1>3. ASSUME CreateExchange(p) PROVE IInv'
  <2>1. PICK r \in Records, from \in Accounts, to \in Accounts, n \in Amounts["exchange"],
             fee \in Fees, rate \in Rates :
            /\ fee < n /\ AssertAccount(from, "USD") /\ AssertAccount(to, "BDT")
            /\ BeginCreate(p, r, "exchange", from, ExchangeLegs(from, to, n, fee, rate), "lockRow")
    BY <1>3 DEF CreateExchange
  <2>2. <<from, to, n, fee, rate>> \in ExchangePayloads
    BY <2>1 DEF ExchangePayloads, AssertAccount
  <2>3. "exchange" \in Kinds /\ ExchangeLegs(from, to, n, fee, rate) \in LegsOf["exchange"]
    BY <2>2 DEF LegsOf, Kinds
  <2>4. QED
    BY <2>1, <2>3, BeginCreateIInv
<1>4. ASSUME NEW k \in Kinds \ {"exchange"}, UpdateRecord(p, k) PROVE IInv'
  <2>1. PICK r \in Records, a \in Accounts, n \in Amounts[k], dateChanged \in BOOLEAN :
            BeginMutation(p, r, k, "update", a, Leg(k, a, n),
                          dateChanged \/ LedgerChanged(r, Leg(k, a, n)), "assertAccount")
    BY <1>4 DEF UpdateRecord
  <2>2. Leg(k, a, n) \in Legs
    BY LegTypes
  <2>3. QED
    BY <2>1, <2>2, BeginMutationIInv DEF LedgerChanged
<1>5. ASSUME NEW k \in Kinds, DeleteRecord(p, k) PROVE IInv'
  BY <1>5, LegTypes, BeginMutationIInv DEF DeleteRecord
<1>6. QED
  BY <1>1, <1>2, <1>3, <1>4, <1>5
     DEF Start, Kinds, Income, Outgoing, CreatePayment, CreateExpense, CreatePayout,
         CreateWithdrawal, CreateDueTransaction, CreateDistribution, UpdatePayment, UpdateExpense,
         UpdatePayout, UpdateWithdrawal, DeletePayment, DeleteExpense, DeletePayout,
         DeleteWithdrawal, DeleteDueTransaction, DeleteDistribution, DeleteExchange

\* The statements that follow.
LEMMA ContinueIInv ==
    ASSUME IInv, NEW p \in Requests, Continue(p)
    PROVE  IInv'
<1> USE DEF PCs
<1>1. /\ account \in [Accounts -> {"none", "live", "deleted"}]
      /\ PcInv(p) /\ PayloadInv(p) /\ MutationInv(p)
  BY DEF IInv, TypeOK
<1>2. CASE CountMovements(p)
  BY <1>1, <1>2, EndIInv, GotoIInv DEF CountMovements
<1>3. CASE MarkAccountDeleted(p)
  BY <1>1, <1>3, EndIInv DEF MarkAccountDeleted
<1>4. CASE LockRow(p)
  BY <1>1, <1>4, EndIInv, GotoIInv DEF LockRow
<1>5. CASE CheckBalance(p)
  BY <1>1, <1>5, EndIInv, GotoIInv DEF CheckBalance
<1>6. CASE AssertTargetAccount(p)
  BY <1>1, <1>6, EndIInv, GotoIInv DEF AssertTargetAccount, IInv, TypeOK, Request
<1>7. CASE ReverseLedgerEntries(p)
  BY <1>7, ReverseIInv
<1>8. CASE WriteLedgerEntries(p)
  BY <1>8, GotoIInv DEF WriteLedgerEntries
<1>9. CASE UpdateRow(p)
  BY <1>9, GotoIInv DEF UpdateRow
<1>10. ASSUME req[p].pc = "commit"
       PROVE  req[p].rec \in Records /\ req[p].kind \in Kinds
  BY <1>1, <1>10 DEF PcInv, PayloadInv
<1>11. CASE CommitCreate(p)
  <2> DEFINE newRow == [state |-> "live", kind |-> req[p].kind, legs |-> req[p].new]
  <2>1. Commit(p, newRow) /\ req[p].op = "create" /\ req[p].rec \in Records
        /\ req[p].kind \in Kinds
    BY <1>10, <1>11 DEF CommitCreate, Commit
  <2>2. newRow \in Row /\ newRow.legs \in LegsOf[newRow.kind]
    BY <1>1, <2>1, LegTypes DEF PayloadInv, Row
  <2>3. QED
    BY <2>1, <2>2, CommitIInv
<1>12. CASE CommitUpdate(p)
  <2> DEFINE newRow == [row[req[p].rec] EXCEPT !.legs = req[p].new]
  <2>1. Commit(p, newRow) /\ req[p].op = "update" /\ req[p].rec \in Records
        /\ req[p].kind \in Kinds /\ req[p].pc = "commit"
    BY <1>10, <1>12 DEF CommitUpdate, Commit
  <2>2. row[req[p].rec] \in Row /\ row[req[p].rec].kind = req[p].kind
    BY <1>1, <2>1 DEF MutationInv, Mutates, IInv, TypeOK
  <2>3. /\ newRow \in Row /\ newRow.kind = req[p].kind /\ newRow.legs = req[p].new
        /\ newRow.state = row[req[p].rec].state /\ req[p].new \in LegsOf[req[p].kind]
    BY <1>1, <2>1, <2>2, LegTypes DEF PayloadInv, Row
  <2> HIDE DEF newRow
  <2>4. QED
    BY <2>1, <2>3, CommitIInv
<1>13. CASE CommitDelete(p)
  <2> DEFINE newRow == [row[req[p].rec] EXCEPT !.state = "deleted"]
  <2>1. Commit(p, newRow) /\ req[p].op = "delete" /\ req[p].rec \in Records
        /\ req[p].kind \in Kinds
    BY <1>10, <1>13 DEF CommitDelete, Commit
  <2>2. /\ row[req[p].rec] \in Row /\ row[req[p].rec].kind = req[p].kind
        /\ row[req[p].rec].legs \in LegsOf[req[p].kind]
    BY <1>1, <2>1 DEF MutationInv, Mutates, IInv, TypeOK
  <2>3. /\ newRow \in Row /\ newRow.kind = req[p].kind /\ newRow.state = "deleted"
        /\ newRow.legs \in LegsOf[req[p].kind]
    BY <2>2 DEF Row
  <2> HIDE DEF newRow
  <2>4. QED
    BY <2>1, <2>3, CommitIInv
<1>14. QED
  BY <1>2, <1>3, <1>4, <1>5, <1>6, <1>7, <1>8, <1>9, <1>11, <1>12, <1>13 DEF Continue

\* Every step of the system keeps the invariant, and so does a stutter.
LEMMA NextIInv == IInv /\ [Next]_vars => IInv'
<1> SUFFICES ASSUME IInv, [Next]_vars PROVE IInv'
  OBVIOUS
<1>1. ASSUME NEW a \in Accounts, CreateAccount(a) PROVE IInv'
  <2>1. TypeOK'
    BY <1>1 DEF CreateAccount, IInv, TypeOK
  <2>2. QED
    BY <1>1, <2>1 DEF CreateAccount, IInv, NoDriftUnlessRaced, Expected, UnusedInv, PcInv,
                      PayloadInv, CreateInv, MutationInv, Mutates, Writes
<1>2. ASSUME NEW p \in Requests, Start(p) PROVE IInv'
  BY <1>2, StartIInv
<1>3. ASSUME NEW p \in Requests, Continue(p) PROVE IInv'
  BY <1>3, ContinueIInv
<1>4. ASSUME NEW p \in Requests, Rollback(p) PROVE IInv'
  BY <1>4, EndIInv DEF Rollback, IInv, TypeOK
<1>5. CASE UNCHANGED vars
  BY <1>5 DEF vars, IInv, TypeOK, NoDriftUnlessRaced, Expected, UnusedInv, PcInv,
              PayloadInv, CreateInv, MutationInv, Mutates, Writes
<1>6. QED
  BY <1>1, <1>2, <1>3, <1>4, <1>5 DEF Next

-----------------------------------------------------------------------------
(* What follows for every behaviour.                                       *)

\* The inductive invariant holds in every behaviour of the ledger.
THEOREM LedgerInvariant == Spec => []IInv
BY InitIInv, NextIInv, PTL DEF Spec

\* Every variable keeps its type, and no record ever sits on an account of
\* the wrong currency or with the wrong sign.
THEOREM TypesHold == Spec => []TypeOK
<1>1. IInv => TypeOK
  BY DEF IInv
<1>2. QED
  BY <1>1, LedgerInvariant, PTL

\* A record never drifts from its ledger rows unless an edit or a delete of
\* it was overtaken by another one.
THEOREM NeverDriftsUnlessRaced == Spec => []NoDriftUnlessRaced
<1>1. IInv => NoDriftUnlessRaced
  BY DEF IInv
<1>2. QED
  BY <1>1, LedgerInvariant, PTL

-----------------------------------------------------------------------------
(* The account locks.                                                      *)

\* An account held FOR UPDATE is neither held nor shared by anyone else.
LocksExclude ==
    \A p, q \in Requests, a \in Accounts :
        p # q /\ HoldsForUpdate(p, a) => ~HoldsForUpdate(q, a) /\ ~HoldsKeyShare(q, a)

\* A step of p takes a lock only for p, and only when what the lock excludes
\* is free.
TakenFree(p, a) ==
    /\ HoldsForUpdate(p, a)' => HoldsForUpdate(p, a) \/ AccountUnlocked(p, a)
    /\ HoldsKeyShare(p, a)' =>
          HoldsKeyShare(p, a) \/ \A q \in Requests \ {p} : ~HoldsForUpdate(q, a)
    /\ \A q \in Requests \ {p} : /\ HoldsForUpdate(q, a)' = HoldsForUpdate(q, a)
                                 /\ HoldsKeyShare(q, a)' = HoldsKeyShare(q, a)

\* Where a request that has just begun stands: it holds nothing.
JustBegun(p) ==
    /\ \A q \in Requests \ {p} : req'[q] = req[q]
    /\ \/ req'[p].pc \in {"count", "lockRow", "assertAccount", "reverse"}
       \/ req'[p].pc = "insert" /\ req'[p].kind # "exchange"

\* A request that has just begun holds no lock.
LEMMA StartShape ==
    ASSUME IInv, NEW p \in Requests, Start(p)
    PROVE  JustBegun(p)
<1>1. req \in [Requests -> Request]
  BY DEF IInv, TypeOK
<1>2. ASSUME NEW r, NEW k, NEW x, NEW legs, NEW pc, BeginCreate(p, r, k, x, legs, pc),
             pc = "lockRow" \/ (pc = "insert" /\ k # "exchange")
      PROVE  JustBegun(p)
  BY <1>1, <1>2 DEF BeginCreate, Idle, JustBegun
<1>3. ASSUME NEW r, NEW k, NEW op, NEW x, NEW legs, NEW rewrite, NEW pc,
             BeginMutation(p, r, k, op, x, legs, rewrite, pc),
             pc = "assertAccount" \/ pc = "reverse"
      PROVE  JustBegun(p)
  BY <1>1, <1>3 DEF BeginMutation, Idle, JustBegun
<1>4. ASSUME NEW x \in Accounts, DeleteAccount(p, x) PROVE JustBegun(p)
  BY <1>1, <1>4 DEF DeleteAccount, Idle, JustBegun
<1>5. ASSUME NEW k, k # "exchange", CreateRecord(p, k) PROVE JustBegun(p)
  BY <1>2, <1>5 DEF CreateRecord
<1>6. ASSUME CreateExchange(p) PROVE JustBegun(p)
  BY <1>2, <1>6 DEF CreateExchange
<1>7. ASSUME NEW k, UpdateRecord(p, k) PROVE JustBegun(p)
  BY <1>3, <1>7 DEF UpdateRecord
<1>8. ASSUME NEW k, DeleteRecord(p, k) PROVE JustBegun(p)
  BY <1>3, <1>8 DEF DeleteRecord
<1>9. QED
  BY <1>4, <1>5, <1>6, <1>7, <1>8
     DEF Start, CreatePayment, CreateExpense, CreatePayout, CreateWithdrawal,
         CreateDueTransaction, CreateDistribution, UpdatePayment, UpdateExpense, UpdatePayout,
         UpdateWithdrawal, DeletePayment, DeleteExpense, DeletePayout, DeleteWithdrawal,
         DeleteDueTransaction, DeleteDistribution, DeleteExchange

\* The step that takes an account lock is lockRow, which waits for every other
\* holder, or an insert, which waits for every FOR UPDATE holder.
LEMMA LocksTaken ==
    ASSUME IInv, NEW p \in Requests, Start(p) \/ Continue(p) \/ Rollback(p), NEW a \in Accounts
    PROVE  TakenFree(p, a)
<1> USE DEF HoldsForUpdate, HoldsKeyShare, Inserts, Writes, TakenFree
<1>1. req \in [Requests -> Request] /\ req[p] \in Request /\ PcInv(p)
  BY DEF IInv, TypeOK
<1>2. CASE Start(p)
  BY <1>1, <1>2, StartShape DEF JustBegun
<1>3. ASSUME End(p) PROVE TakenFree(p, a)
  BY <1>1, <1>3 DEF End, Idle
<1>4. CASE CountMovements(p) \/ MarkAccountDeleted(p) \/ Rollback(p)
  BY <1>1, <1>3, <1>4 DEF CountMovements, MarkAccountDeleted, Rollback, Goto, Request
<1>5. CASE LockRow(p) \/ CheckBalance(p)
  BY <1>1, <1>3, <1>5 DEF LockRow, CheckBalance, Goto, Request
<1>6. CASE AssertTargetAccount(p)
  BY <1>1, <1>3, <1>6 DEF AssertTargetAccount, Goto, Request
<1>7. CASE ReverseLedgerEntries(p)
  BY <1>1, <1>7 DEF ReverseLedgerEntries, Request, PcInv, Mutates
<1>8. CASE WriteLedgerEntries(p)
  BY <1>1, <1>8 DEF WriteLedgerEntries, Goto, Request
<1>9. CASE UpdateRow(p)
  BY <1>1, <1>9 DEF UpdateRow, Goto, Request, PcInv, Mutates
<1>10. CASE CommitCreate(p) \/ CommitUpdate(p) \/ CommitDelete(p)
  <2>1. \A q \in Requests \ {p} : req'[q] = req[q] \/ req'[q] = [req[q] EXCEPT !.stale = TRUE]
    BY <1>10 DEF CommitCreate, CommitUpdate, CommitDelete, Commit, EndAndOvertake
  <2>2. req'[p] = Idle
    BY <1>10 DEF CommitCreate, CommitUpdate, CommitDelete, Commit, EndAndOvertake
  <2>3. ~HoldsForUpdate(p, a)' /\ ~HoldsKeyShare(p, a)'
    BY <2>2 DEF Idle
  <2>4. ASSUME NEW q \in Requests \ {p}
        PROVE  /\ HoldsForUpdate(q, a)' = HoldsForUpdate(q, a)
               /\ HoldsKeyShare(q, a)' = HoldsKeyShare(q, a)
    <3>1. /\ req'[q].pc = req[q].pc /\ req'[q].op = req[q].op /\ req'[q].kind = req[q].kind
          /\ req'[q].acct = req[q].acct /\ req'[q].new = req[q].new
          /\ req'[q].open = req[q].open /\ req'[q].rewrite = req[q].rewrite
      <4>1. req[q] \in Request
        BY <1>1
      <4>2. CASE req'[q] = req[q]
        BY <4>2
      <4>3. CASE req'[q] = [req[q] EXCEPT !.stale = TRUE]
        BY <4>1, <4>3 DEF Request
      <4>4. QED
        BY <2>1, <4>2, <4>3
    <3>2. QED
      BY <3>1 DEF Touched
  <2>5. QED
    BY <2>3, <2>4
<1>11. QED
  BY <1>2, <1>4, <1>5, <1>6, <1>7, <1>8, <1>9, <1>10 DEF Continue

\* No step brings two requests to hold one account, one of them FOR UPDATE.
LEMMA LocksPreserved == IInv /\ LocksExclude /\ [Next]_vars => LocksExclude'
<1> SUFFICES ASSUME IInv, LocksExclude, [Next]_vars PROVE LocksExclude'
  OBVIOUS
<1>1. CASE UNCHANGED req
  BY <1>1 DEF LocksExclude, HoldsForUpdate, HoldsKeyShare, Inserts, Writes
<1>2. ASSUME NEW p \in Requests, Start(p) \/ Continue(p) \/ Rollback(p) PROVE LocksExclude'
  <2>1. \A a \in Accounts : TakenFree(p, a)
    BY <1>2, LocksTaken
  <2>2. QED
    BY <2>1 DEF LocksExclude, TakenFree, AccountUnlocked
<1>3. QED
  BY <1>1, <1>2 DEF Next, vars, CreateAccount

\* An account an exchange has locked FOR UPDATE is locked by nobody else, not
\* even FOR KEY SHARE (lockRow, the foreign key of account_transactions).
THEOREM AccountLocksExclude == Spec => []LocksExclude
<1>1. Init => LocksExclude
  BY DEF Init, LocksExclude, HoldsForUpdate, Idle
<1>2. QED
  BY <1>1, LocksPreserved, LedgerInvariant, PTL DEF Spec

\* A request that moves the balance of an account shares it, so none does while p holds it.
LEMMA LockedStays ==
    ASSUME IInv, LocksExclude, [Next]_vars
    PROVE  \A p \in Requests, a \in Accounts :
              HoldsForUpdate(p, a) /\ HoldsForUpdate(p, a)'
                 => /\ GetAccountBalance(a)' = GetAccountBalance(a)
                    /\ \A r \in Records : held'[r][a] = held[r][a]
<1>1. SUFFICES ASSUME NEW p \in Requests, NEW a \in Accounts,
                      HoldsForUpdate(p, a), HoldsForUpdate(p, a)'
               PROVE  \A r \in Records : held'[r][a] = held[r][a]
  BY DEF GetAccountBalance
<1>2. CASE UNCHANGED held
  BY <1>2
<1>3. ASSUME NEW q \in Requests, CommitCreate(q) \/ CommitUpdate(q) \/ CommitDelete(q)
      PROVE  \A r \in Records : held'[r][a] = held[r][a]
  <2>1. /\ req[q].pc = "commit"
        /\ held' = IF req[q].rewrite THEN [held EXCEPT ![req[q].rec] = Rewritten(q)] ELSE held
        /\ req'[q] = Idle
    BY <1>3 DEF CommitCreate, CommitUpdate, CommitDelete, Commit, EndAndOvertake
  <2>2. q # p
    BY <1>1, <2>1 DEF HoldsForUpdate, Idle
  <2>3. CASE req[q].rewrite
    <3>1. ~HoldsKeyShare(q, a)
      BY <1>1, <2>2 DEF LocksExclude
    <3>2. req[q].new[a] = 0 /\ req[q].open[a] = 0
      BY <2>1, <2>3, <3>1 DEF HoldsKeyShare, Inserts, Touched, IInv, PcInv
    <3>3. \A r \in Records : held[r][a] \in Int
      BY DEF IInv, TypeOK, Legs
    <3>4. req[q].rec \in Records
      BY <2>1 DEF IInv, PcInv, PayloadInv
    <3>5. Rewritten(q)[a] = held[req[q].rec][a]
      BY <3>2, <3>3, <3>4 DEF Rewritten
    <3>6. QED
      BY <2>1, <2>3, <3>4, <3>5 DEF IInv, TypeOK
  <2>4. QED
    BY <2>1, <2>3
<1>4. ASSUME NEW q \in Requests, Start(q) PROVE UNCHANGED held
  <2>1. ASSUME NEW k, CreateRecord(q, k) \/ UpdateRecord(q, k) \/ DeleteRecord(q, k)
        PROVE  UNCHANGED held
    BY <2>1 DEF CreateRecord, UpdateRecord, DeleteRecord, BeginCreate, BeginMutation
  <2>2. ASSUME CreateExchange(q) \/ \E x \in Accounts : DeleteAccount(q, x)
        PROVE  UNCHANGED held
    BY <2>2 DEF CreateExchange, BeginCreate, DeleteAccount
  <2>3. QED
    BY <1>4, <2>1, <2>2
       DEF Start, CreatePayment, CreateExpense, CreatePayout, CreateWithdrawal,
           CreateDueTransaction, CreateDistribution, UpdatePayment, UpdateExpense,
           UpdatePayout, UpdateWithdrawal, DeletePayment, DeleteExpense, DeletePayout,
           DeleteWithdrawal, DeleteDueTransaction, DeleteDistribution, DeleteExchange
<1>5. ASSUME NEW q \in Requests, Continue(q) \/ Rollback(q)
      PROVE  UNCHANGED held \/ CommitCreate(q) \/ CommitUpdate(q) \/ CommitDelete(q)
  BY <1>5 DEF Continue, Rollback, CountMovements, MarkAccountDeleted, LockRow, CheckBalance,
              AssertTargetAccount, ReverseLedgerEntries, WriteLedgerEntries, UpdateRow
<1>6. CASE Next
  BY <1>2, <1>3, <1>4, <1>5, <1>6 DEF Next, CreateAccount
<1>7. QED
  BY <1>2, <1>6 DEF vars

\* While an exchange holds its account nobody moves its balance, so what
\* CheckBalance compared is what the exchange spends.
THEOREM BalanceStableUnderLock == Spec => LockedBalanceStable
<1> DEFINE Stable == \A p \in Requests, a \in Accounts :
                        HoldsForUpdate(p, a) /\ HoldsForUpdate(p, a)'
                           => GetAccountBalance(a)' = GetAccountBalance(a)
<1>1. ASSUME IInv, LocksExclude, [Next]_vars PROVE Stable
  BY <1>1, LockedStays
<1>2. QED
  BY <1>1, LedgerInvariant, AccountLocksExclude, PTL DEF Spec, LockedBalanceStable

-----------------------------------------------------------------------------
(* What an exchange spends.                                                *)

\* An exchange that has passed CheckBalance finds what it is about to spend.
Covered ==
    \A p \in Requests :
        req[p].op = "create" /\ req[p].kind = "exchange" /\ req[p].pc \in {"insert", "commit"}
           => -req[p].new[req[p].acct] <= GetAccountBalance(req[p].acct)

\* What a step of p does to the other requests: those it overtakes are told so.
LEMMA OthersStay ==
    ASSUME IInv, NEW p \in Requests, Start(p) \/ Continue(p) \/ Rollback(p),
           NEW q \in Requests \ {p}
    PROVE  /\ req'[q].pc = req[q].pc /\ req'[q].op = req[q].op /\ req'[q].kind = req[q].kind
           /\ req'[q].acct = req[q].acct /\ req'[q].new = req[q].new
<1>1. req \in [Requests -> Request] /\ req[q] \in Request
  BY DEF IInv, TypeOK
<1>2. req'[q] = req[q] \/ req'[q] = [req[q] EXCEPT !.stale = TRUE]
  <2>1. CASE Start(p)
    BY <2>1, StartShape DEF JustBegun
  <2>2. ASSUME End(p) \/ \E pc : Goto(p, pc) PROVE req'[q] = req[q]
    BY <1>1, <2>2 DEF End, Goto
  <2>3. CASE CountMovements(p) \/ MarkAccountDeleted(p) \/ Rollback(p)
    BY <2>2, <2>3 DEF CountMovements, MarkAccountDeleted, Rollback
  <2>4. CASE LockRow(p) \/ CheckBalance(p) \/ AssertTargetAccount(p)
    BY <2>2, <2>4 DEF LockRow, CheckBalance, AssertTargetAccount
  <2>5. CASE ReverseLedgerEntries(p)
    BY <1>1, <2>5 DEF ReverseLedgerEntries
  <2>6. CASE WriteLedgerEntries(p) \/ UpdateRow(p)
    BY <2>2, <2>6 DEF WriteLedgerEntries, UpdateRow
  <2>7. CASE CommitCreate(p) \/ CommitUpdate(p) \/ CommitDelete(p)
    BY <2>7 DEF CommitCreate, CommitUpdate, CommitDelete, Commit, EndAndOvertake
  <2>8. QED
    BY <2>1, <2>3, <2>4, <2>5, <2>6, <2>7 DEF Continue
<1>3. CASE req'[q] = req[q]
  BY <1>3
<1>4. CASE req'[q] = [req[q] EXCEPT !.stale = TRUE]
  BY <1>1, <1>4 DEF Request
<1>5. QED
  BY <1>2, <1>3, <1>4

\* A balance is a number.
LEMMA BalanceIsNumber ==
    ASSUME IInv, NEW a \in Accounts
    PROVE  GetAccountBalance(a) \in Int
<1> DEFINE f == [r \in Records |-> held[r][a]]
<1>1. f \in [Records -> Int]
  BY DEF IInv, TypeOK, Legs
<1>2. GetAccountBalance(a) = Opening[a] + SumFunction(f)
  BY DEF GetAccountBalance
<1> HIDE DEF f
<1>3. SumFunction(f) \in Int
  BY <1>1, SumIsNumber, LedgerAssumption
<1>4. QED
  BY <1>2, <1>3, LedgerAssumption

\* CheckBalance compares, and the lock keeps what it compared.
LEMMA CoveredStays == IInv /\ LocksExclude /\ Covered /\ [Next]_vars => Covered'
<1> SUFFICES ASSUME IInv, LocksExclude, Covered, [Next]_vars,
                    NEW p \in Requests,
                    req'[p].op = "create" /\ req'[p].kind = "exchange",
                    req'[p].pc \in {"insert", "commit"}
             PROVE  -req'[p].new[req'[p].acct] <= GetAccountBalance(req[p].acct)'
                       /\ req'[p].acct = req[p].acct
  BY DEF Covered, GetAccountBalance
<1>1. req \in [Requests -> Request] /\ req[p] \in Request /\ PcInv(p) /\ PayloadInv(p)
  BY DEF IInv, TypeOK
<1>2. ASSUME req'[p] = req[p], UNCHANGED held
      PROVE  -req'[p].new[req'[p].acct] <= GetAccountBalance(req[p].acct)'
                /\ req'[p].acct = req[p].acct
  BY <1>2 DEF Covered, GetAccountBalance
<1>3. ASSUME NEW q \in Requests \ {p}, Start(q) \/ Continue(q) \/ Rollback(q)
      PROVE  -req'[p].new[req'[p].acct] <= GetAccountBalance(req[p].acct)'
                /\ req'[p].acct = req[p].acct
  <2>1. /\ req'[p].pc = req[p].pc /\ req'[p].op = req[p].op /\ req'[p].kind = req[p].kind
        /\ req'[p].acct = req[p].acct /\ req'[p].new = req[p].new
    BY <1>3, OthersStay
  <2>2. req[p].acct \in Accounts
    BY <1>1, <2>1 DEF PayloadInv
  <2>3. PICK a \in Accounts : a = req[p].acct
    BY <2>2
  <2>4. HoldsForUpdate(p, a) /\ HoldsForUpdate(p, a)'
    BY <2>1, <2>3 DEF HoldsForUpdate
  <2>5. GetAccountBalance(a)' = GetAccountBalance(a)
    BY <2>4, LockedStays
  <2>6. -req[p].new[a] <= GetAccountBalance(a)
    BY <2>1, <2>3 DEF Covered
  <2>7. GetAccountBalance(req[p].acct)' = GetAccountBalance(a)'
    BY <2>1, <2>3 DEF GetAccountBalance
  <2>8. QED
    BY <2>1, <2>3, <2>5, <2>6, <2>7
<1>4. ASSUME Start(p) \/ Continue(p) \/ Rollback(p)
      PROVE  -req'[p].new[req'[p].acct] <= GetAccountBalance(req[p].acct)'
                /\ req'[p].acct = req[p].acct
  <2>1. ~Start(p)
    BY StartShape DEF JustBegun
  <2>2. ~End(p)
    BY <1>1 DEF End, Idle
  <2>3. CASE CheckBalance(p)
    <3>1. /\ UNCHANGED held /\ Goto(p, "insert")
          /\ ~(-req[p].new[req[p].acct] > GetAccountBalance(req[p].acct))
      BY <2>2, <2>3 DEF CheckBalance
    <3>2. req'[p].acct = req[p].acct /\ req'[p].new = req[p].new
      BY <1>1, <3>1 DEF Goto, Request
    <3>3. req[p].acct \in Accounts /\ req[p].new \in Legs
      BY <1>1, <2>3, <3>2 DEF CheckBalance, PcInv, PayloadInv, Request
    <3>4. GetAccountBalance(req[p].acct) \in Int
      BY <1>1, <3>3, BalanceIsNumber
    <3>5. req[p].new[req[p].acct] \in Int
      BY <3>3 DEF Legs
    <3>6. GetAccountBalance(req[p].acct)' = GetAccountBalance(req[p].acct)
      BY <3>1, <3>2 DEF GetAccountBalance
    <3>7. QED
      BY <3>1, <3>2, <3>4, <3>5, <3>6
  <2>4. CASE WriteLedgerEntries(p)
    <3>1. /\ UNCHANGED held /\ req[p].pc = "insert"
          /\ Goto(p, IF Mutates(p) THEN "updateRow" ELSE "commit")
      BY <2>4 DEF WriteLedgerEntries
    <3>2. /\ req'[p].acct = req[p].acct /\ req'[p].new = req[p].new
          /\ req'[p].op = req[p].op /\ req'[p].kind = req[p].kind
      BY <1>1, <3>1 DEF Goto, Request
    <3>3. GetAccountBalance(req[p].acct)' = GetAccountBalance(req[p].acct)
      BY <3>1, <3>2 DEF GetAccountBalance
    <3>4. QED
      BY <3>1, <3>2, <3>3 DEF Covered
  <2>5. CASE CountMovements(p) \/ MarkAccountDeleted(p) \/ LockRow(p) \/ AssertTargetAccount(p)
    BY <1>1, <2>2, <2>5 DEF CountMovements, MarkAccountDeleted, LockRow, AssertTargetAccount, Goto,
                            Request, PcInv
  <2>6. CASE ReverseLedgerEntries(p) \/ UpdateRow(p)
    BY <1>1, <2>6 DEF ReverseLedgerEntries, UpdateRow, Goto, Request, PcInv, Mutates
  <2>7. CASE CommitCreate(p) \/ CommitUpdate(p) \/ CommitDelete(p)
    BY <1>1, <2>7 DEF CommitCreate, CommitUpdate, CommitDelete, Commit, EndAndOvertake, Idle
  <2>8. CASE Rollback(p)
    BY <2>2, <2>8 DEF Rollback
  <2>9. QED
    BY <1>4, <2>1, <2>3, <2>4, <2>5, <2>6, <2>7, <2>8 DEF Continue
<1>5. CASE Next
  <2>1. CASE \E a \in Accounts : CreateAccount(a)
    BY <2>1, <1>2 DEF CreateAccount
  <2>2. QED
    BY <1>3, <1>4, <1>5, <2>1 DEF Next
<1>6. QED
  BY <1>2, <1>5 DEF vars

\* An exchange that commits takes out of its account no more than the balance that is then
\* there, whatever other requests record, edit and delete (createExchange).
THEOREM ExchangesAreCovered == Spec => ExchangeNeverOverdraws
<1> DEFINE Kept == \A p \in Requests, a \in Accounts :
                      (req[p].kind = "exchange" /\ req[p].acct = a /\ CommitCreate(p))
                         => GetAccountBalance(a)' >= 0
<1>1. Init => Covered
  BY DEF Init, Covered, Idle
<1>2. ASSUME IInv, Covered PROVE Kept
  <2> SUFFICES ASSUME NEW p \in Requests, NEW a \in Accounts,
                      req[p].kind = "exchange", req[p].acct = a, CommitCreate(p)
               PROVE  GetAccountBalance(a)' >= 0
    OBVIOUS
  <2>1. /\ req[p].op = "create" /\ req[p].pc = "commit"
        /\ held' = IF req[p].rewrite THEN [held EXCEPT ![req[p].rec] = Rewritten(p)] ELSE held
    BY DEF CommitCreate, Commit
  <2>2. /\ held \in [Records -> Legs] /\ req[p] \in Request
        /\ PayloadInv(p) /\ CreateInv(p)
    BY <1>2 DEF IInv, TypeOK
  <2>3. /\ req[p].rewrite /\ req[p].open = Zero
        /\ req[p].rec \in Records /\ req[p].new \in Legs
    BY <2>1, <2>2 DEF CreateInv, PayloadInv, Writes, Request
  <2>4. PICK x \in Records : x = req[p].rec
    BY <2>3
  <2> DEFINE f == [r \in Records |-> held[r][a]]
             e == [r \in Records |-> held'[r][a]]
  <2>5. PICK n \in Int : n = req[p].new[a]
    BY <2>3 DEF Legs
  <2>6. held'[x][a] = held[x][a] + n
    <3>1. held'[x] = Rewritten(p)
      BY <2>1, <2>2, <2>3, <2>4
    <3>2. Rewritten(p)[a] = held[x][a] - 0 + n
      BY <2>3, <2>4, <2>5 DEF Rewritten, Zero
    <3>3. held[x][a] \in Int
      BY <2>2 DEF Legs
    <3>4. QED
      BY <3>1, <3>2, <3>3
  <2>7. \A r \in Records \ {x} : held'[r][a] = held[r][a]
    BY <2>1, <2>2, <2>3, <2>4
  <2>8. \A r \in Records : held[r][a] \in Int
    BY <2>2 DEF Legs
  <2>9. /\ f \in [Records -> Int] /\ e \in [Records -> Int]
        /\ f[x] = held[x][a] /\ e[x] = held[x][a] + n
        /\ \A r \in Records \ {x} : e[r] = f[r]
    BY <2>6, <2>7, <2>8
  <2>10. /\ GetAccountBalance(a) = Opening[a] + SumFunction(f)
         /\ GetAccountBalance(a)' = Opening[a] + SumFunction(e)
    BY DEF GetAccountBalance
  <2>11. PICK m \in Int : m = held[x][a]
    BY <2>8
  <2> HIDE DEF f, e
  <2>12. /\ SumFunction(f) \in Int /\ SumFunction(e) \in Int
         /\ SumFunction(e) = SumFunction(f) + e[x] - f[x]
    BY <2>9, SumOfChange, LedgerAssumption
  <2>13. -n <= GetAccountBalance(a)
    BY <1>2, <2>1, <2>5 DEF Covered
  <2>14. Opening[a] \in Int
    BY LedgerAssumption
  <2>15. QED
    BY <2>9, <2>10, <2>11, <2>12, <2>13, <2>14
<1>3. QED
  BY <1>1, <1>2, CoveredStays, LedgerInvariant, AccountLocksExclude, PTL
     DEF Spec, ExchangeNeverOverdraws

=============================================================================
