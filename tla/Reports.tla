------------------------------ MODULE Reports ------------------------------
(***************************************************************************)
(* The figures an agency reads: profit and loss, the monthly chart, income *)
(* by client, profit by project, a project's own finances, the dashboard,  *)
(* cash flow, spending by category, and hours and pay by department.  Each *)
(* is a query of its own over the same rows, written in a service of its   *)
(* own, so that nothing but care keeps two screens telling one story.  And *)
(* a screen is several queries, outside any transaction: rows may change   *)
(* between two of them.  The delivery screen, which sets them side by      *)
(* side, is read query by query here.                                      *)
(*                                                                         *)
(* What is recorded is a set of entries.  A day's entry is dated by it; an *)
(* instalment's interest by the day it was paid.                           *)
(*                                                                         *)
(* The platform's own books, of what its companies pay and it spends, come *)
(* after the company's.                                                    *)
(***************************************************************************)
EXTENDS Integers, FiniteSets, Functions

CONSTANTS Entries,        \* what may be recorded
          Jobs,           \* projects
          NoJob,
          Departments,
          NoDepartment,
          Employees,
          DaysInMonth,
          FinalDay        \* bound: the last day there is

Headings == {"payment", "expense", "salary", "payout", "interest", "hours"}
Payers == {"c1", "c2"}
EntryRow == [kind : Headings, day : 0 .. FinalDay, amount : Nat, job : Jobs \cup {NoJob},
             payer : Payers \cup {"none"}, employee : Employees \cup {"none"}]

\* A payment has a client: payments.client_id is not null.
ASSUME EntriesAssumption ==
    /\ Entries \subseteq EntryRow /\ DaysInMonth \in Nat \ {0} /\ FinalDay \in Nat
    /\ \A e \in Entries : e.kind = "payment" => e.payer \in Payers
    /\ IsFiniteSet(Entries)
    /\ IsFiniteSet(Jobs) /\ IsFiniteSet(Departments) /\ IsFiniteSet(Employees)
    /\ NoJob \notin Jobs /\ NoDepartment \notin Departments

VARIABLES books,        \* the entries on file: recorded and not deleted
          asked,        \* the entries whose requests have found their project
          ledger,       \* ledger[row]: what a row of the accounts comes to
          counted,      \* counted[j]: what who deletes project j has counted, and found none of
          gone,         \* projects that were deleted
          slipped,      \* ghost: entries recorded after their like was counted
          departmentOf, \* where each person sits
          today,
          answers,      \* the queries of the delivery screen that have answered
          disturbed     \* something changed between two of them

bookVars   == <<books, asked, ledger, counted, gone, slipped>>
reportVars == <<bookVars, departmentOf, today, answers, disturbed>>

AllDays == [from |-> 0, to |-> FinalDay]

Within(d, w) == w.from <= d /\ d <= w.to
SumEntries(E) == SumFunction([e \in E |-> e.amount])
OnFile(kinds, w) == {e \in books : e.kind \in kinds /\ Within(e.day, w)}
Of(kind, w) == SumEntries(OnFile({kind}, w))

----------------------------------------------------------------------------
MonthOf(d) == d \div DaysInMonth
MonthDays(m) == [from |-> m * DaysInMonth, to |-> (m + 1) * DaysInMonth - 1]

\* Withdrawals are no cost, nor is principal repaid: neither is an entry here.
ProfitAndLoss(w) ==
    LET cost == Of("expense", w) + Of("salary", w) + Of("payout", w) + Of("interest", w)
    IN  [revenue |-> Of("payment", w), operating |-> Of("expense", w), employee |-> Of("salary", w),
         payout |-> Of("payout", w), interest |-> Of("interest", w),
         cost |-> cost, net |-> Of("payment", w) - cost]

\* The months up to this one, empty ones included; the chart leaves interest out.
MonthlySeries(months) ==
    [m \in (MonthOf(today) - months + 1) .. MonthOf(today) |->
        LET w == MonthDays(m)
        IN  [revenue |-> Of("payment", w),
             cost    |-> Of("expense", w) + Of("salary", w) + Of("payout", w)]]

ClientRevenue(w) == [c \in Payers |-> SumEntries({e \in OnFile({"payment"}, w) : e.payer = c})]

OnJob(j, kinds, w) == SumEntries({e \in OnFile(kinds, w) : e.job = j})
ProjectProfitability(w) ==
    [j \in Jobs \ gone |-> OnJob(j, {"payment"}, w) - OnJob(j, {"expense", "salary", "payout"}, w)]
ProjectFinancials(j) ==
    OnJob(j, {"payment"}, AllDays) - OnJob(j, {"payout"}, AllDays) - OnJob(j, {"expense", "salary"}, AllDays)

\* The month that is running, up to but without the first day of the next.
Dashboard ==
    LET month == {e \in books : /\ e.day >= MonthOf(today) * DaysInMonth
                                /\ e.day < (MonthOf(today) + 1) * DaysInMonth}
    IN  [revenue |-> SumEntries({e \in month : e.kind = "payment"}),
         expense |-> SumEntries({e \in month : e.kind \in {"expense", "salary"}})]

CategoryBreakdown(w) == [k \in {"expense", "salary"} |-> Of(k, w)]

(***************************************************************************)
(* Cash flow is read off the rows of the accounts: one of its own when an  *)
(* entry is recorded, and an adjustment when it is deleted.  They are      *)
(* grouped by source and currency, payments in USD and all else in taka.   *)
(***************************************************************************)
LedgerRows == Entries \X {"own", "adjustment"}
LedgerSources == {"payment", "expense", "team_payout", "loan_repayment", "adjustment"}
Currencies == {"USD", "BDT"}

SourceOf(row) ==
    CASE row[2] = "adjustment"                 -> "adjustment"
      [] row[1].kind = "payment"               -> "payment"
      [] row[1].kind = "payout"                -> "team_payout"
      [] row[1].kind = "interest"              -> "loan_repayment"
      [] OTHER                                 -> "expense"
CurrencyOf(row) == IF row[1].kind = "payment" THEN "USD" ELSE "BDT"

\* Signed: positive is money in.  Hours move none.
Signed(e) ==
    CASE e.kind = "payment" -> e.amount
      [] e.kind = "hours"   -> 0
      [] OTHER              -> -e.amount

\* What an entry still holds: its row and its adjustments, netted.  A reversal takes it back.
OpenPosition(e) == ledger[<<e, "own">>] + ledger[<<e, "adjustment">>]

CashFlow ==
    [c \in Currencies |->
        [s \in LedgerSources |->
            SumFunction([row \in {x \in LedgerRows : CurrencyOf(x) = c /\ SourceOf(x) = s} |-> ledger[row]])]]

\* The KPI's own reading of the money: costs without interest.
LoadMoney(w) ==
    [revenue |-> Of("payment", w), cost |-> Of("expense", w) + Of("salary", w) + Of("payout", w)]

----------------------------------------------------------------------------
(***************************************************************************)
(* The delivery screen, query by query: the hours of everybody first, then *)
(* who sits where, and the hours and the pay of each person.               *)
(***************************************************************************)
Queries == {"total", "members", "hoursOf", "paidOf"}

ByEmployee(kind, w) ==
    [u \in {e.employee : e \in OnFile({kind}, w)} |->
        SumEntries({e \in OnFile({kind}, w) : e.employee = u})]

Answer(q, w) ==
    CASE q = "total"   -> Of("hours", w)
      [] q = "members" -> departmentOf
      [] q = "hoursOf" -> ByEmployee("hours", w)
      [] q = "paidOf"  -> ByEmployee("payout", w)

Ask ==
    /\ \E q \in Queries \ DOMAIN answers :
          /\ q # "total" => "total" \in DOMAIN answers
          /\ answers' = [x \in DOMAIN answers \cup {q} |-> IF x = q THEN Answer(q, AllDays) ELSE answers[x]]
    /\ UNCHANGED <<bookVars, departmentOf, today, disturbed>>

Shown == DOMAIN answers = Queries
CloseScreen ==
    /\ Shown
    /\ answers' = << >> /\ disturbed' = FALSE
    /\ UNCHANGED <<bookVars, departmentOf, today>>

\* The rows of the departments: everybody on file sits in one or in none.
Seats == answers["members"]
Known(figure, u) == IF u \in DOMAIN answers[figure] THEN answers[figure][u] ELSE 0
RowOf(figure, d) ==
    SumFunction([u \in {x \in Employees : Seats[x] = d} |-> Known(figure, u)])
Placed == {u \in Employees : Seats[u] # NoDepartment}
Loose == (DOMAIN answers["hoursOf"] \cup DOMAIN answers["paidOf"]) \ Placed
LooseRow(figure) == SumFunction([u \in Loose |-> Known(figure, u)])

----------------------------------------------------------------------------
(***************************************************************************)
(* What changes meanwhile.  One change at most falls into one reading.     *)
(***************************************************************************)
Change ==
    /\ ~disturbed
    /\ disturbed' = (answers # << >>)
    /\ UNCHANGED answers

\* An entry finds its project before it is written, and is written once.
FindProject ==
    /\ \E e \in Entries \ (books \cup asked) :
          /\ e.job \notin gone /\ ledger[<<e, "own">>] = 0
          /\ asked' = asked \cup {e}
    /\ UNCHANGED <<books, ledger, counted, gone, slipped, departmentOf, today, answers, disturbed>>

\* What keeps a project, counted in two queries: payouts are not asked for.
JobKeepers == {{"payment"}, {"expense", "salary"}}
WasCounted(e) == e.job \in gone \/ (e.job \in Jobs /\ \E of \in counted[e.job] : e.kind \in of)

Record ==
    /\ \E e \in asked :
          /\ asked' = asked \ {e} /\ books' = books \cup {e}
          /\ ledger' = [ledger EXCEPT ![<<e, "own">>] = @ + Signed(e)]
          /\ slipped' = IF WasCounted(e) THEN slipped \cup {e} ELSE slipped
    /\ Change /\ UNCHANGED <<counted, gone, departmentOf, today>>

Unrecord ==
    /\ \E e \in books :
          /\ books' = books \ {e} /\ slipped' = slipped \ {e}
          /\ ledger' = [ledger EXCEPT ![<<e, "adjustment">>] = @ - OpenPosition(e)]
    /\ Change /\ UNCHANGED <<asked, counted, gone, departmentOf, today>>

(***************************************************************************)
(* A project is looked up, its payments and its expenses are counted, in   *)
(* two queries outside any transaction, and it is deleted by its id.       *)
(***************************************************************************)
CountOnJob(z) ==
    /\ z \notin gone
    /\ \E of \in JobKeepers \ counted[z] :
           counted' = [counted EXCEPT ![z] =
                          IF \E e \in books : e.job = z /\ e.kind \in of THEN {} ELSE @ \cup {of}]
    /\ UNCHANGED <<books, asked, ledger, gone, slipped, departmentOf, today, answers, disturbed>>

DeleteJob(z) ==
    /\ counted[z] = JobKeepers
    /\ gone' = gone \cup {z} /\ counted' = [counted EXCEPT ![z] = {}]
    /\ Change /\ UNCHANGED <<books, asked, ledger, slipped, departmentOf, today>>

Move ==
    /\ \E u \in Employees, d \in Departments \cup {NoDepartment} :
           departmentOf[u] # d /\ departmentOf' = [departmentOf EXCEPT ![u] = d]
    /\ Change /\ UNCHANGED <<bookVars, today>>

NextMonth ==
    /\ today + DaysInMonth <= FinalDay
    /\ today' = today + DaysInMonth
    /\ UNCHANGED <<bookVars, departmentOf, answers, disturbed>>

ReportsInit ==
    /\ books = {} /\ asked = {} /\ gone = {} /\ slipped = {} /\ today = 0
    /\ ledger = [row \in LedgerRows |-> 0]
    /\ counted = [z \in Jobs |-> {}]
    /\ departmentOf = [u \in Employees |-> NoDepartment]
    /\ answers = << >> /\ disturbed = FALSE

ReportsNext ==
    \/ Ask \/ CloseScreen \/ FindProject \/ Record \/ Unrecord \/ Move \/ NextMonth
    \/ \E z \in Jobs : CountOnJob(z) \/ DeleteJob(z)

ReportsSpec == ReportsInit /\ [][ReportsNext]_reportVars

----------------------------------------------------------------------------
ReportsTypeOK ==
    /\ books \subseteq Entries /\ asked \subseteq Entries /\ slipped \subseteq books
    /\ ledger \in [LedgerRows -> Int] /\ counted \in [Jobs -> SUBSET JobKeepers]
    /\ gone \subseteq Jobs /\ today \in 0 .. FinalDay
    /\ departmentOf \in [Employees -> Departments \cup {NoDepartment}]
    /\ DOMAIN answers \subseteq Queries /\ disturbed \in BOOLEAN

(***************************************************************************)
(* Whatever is on file, every screen cuts the same total.  The months of   *)
(* the chart, the clients and the categories leave nothing out and count   *)
(* nothing twice; the dashboard is the month's profit and loss; the KPI    *)
(* and the chart differ from it by the interest alone.                     *)
(***************************************************************************)
SeriesAgrees ==
    LET back   == MonthOf(today) + 1
        series == MonthlySeries(back)
        w      == [from |-> 0, to |-> MonthDays(MonthOf(today)).to]
        pl     == ProfitAndLoss(w)
    IN  SumFunction([m \in DOMAIN series |-> series[m].revenue - series[m].cost]) = pl.net + pl.interest

ScreensAgree ==
    \A from, to \in 0 .. FinalDay :
        LET w  == [from |-> from, to |-> to]
            pl == ProfitAndLoss(w)
        IN  /\ SumFunction(ClientRevenue(w)) = pl.revenue
            /\ SumFunction(CategoryBreakdown(w)) = pl.operating + pl.employee
            /\ LoadMoney(w).revenue - LoadMoney(w).cost = pl.net + pl.interest

DashboardAgrees ==
    LET pl == ProfitAndLoss(MonthDays(MonthOf(today)))
    IN  Dashboard = [revenue |-> pl.revenue, expense |-> pl.operating + pl.employee]

(***************************************************************************)
(* Cash flow "cannot fall out of step with the modules"                    *)
(* (report.service.ts:98-101): whatever was recorded and deleted, and      *)
(* under whichever source the reversals are, what the accounts moved is    *)
(* the profit and loss of what is on file.                                 *)
(***************************************************************************)
NetFlow(c) == SumFunction(CashFlow[c])
CashAgrees ==
    LET pl == ProfitAndLoss(AllDays) IN NetFlow("USD") = pl.revenue /\ NetFlow("BDT") = -pl.cost

(***************************************************************************)
(* What the projects' profit leaves out of the company's is what lies on   *)
(* deleted projects: payouts, which deleteProject does not ask about, and  *)
(* what was recorded after it had counted.  That makes it "quietly change  *)
(* every profitability figure" (project.service.ts:270-272), which it      *)
(* counts to avoid.  Nothing else is left out, and the list and a          *)
(* project's own page agree.                                               *)
(***************************************************************************)
ProjectsAgree ==
    LET list  == ProjectProfitability(AllDays)
        apart == OnJob(NoJob, {"payment"}, AllDays) - OnJob(NoJob, {"expense", "salary", "payout"}, AllDays)
        left(kinds) == SumEntries({e \in OnFile(kinds, AllDays) :
                                      e.job \in gone /\ (e.kind = "payout" \/ e \in slipped)})
        pl    == ProfitAndLoss(AllDays)
    IN  /\ SumFunction(list) + apart + left({"payment"}) - left({"expense", "salary", "payout"})
              = pl.net + pl.interest
        /\ \A z \in Jobs \ gone : ProjectFinancials(z) = list[z]

(***************************************************************************)
(* "The departments still add up to the agency" (deliveryScope): whoever   *)
(* moves between two of its queries is counted once, in one department or  *)
(* in none, and the rows are the total shown above them unless something   *)
(* changed meanwhile.                                                      *)
(***************************************************************************)
DepartmentsAddUp ==
    Shown =>
        \A figure \in {"hoursOf", "paidOf"} :
            LET rows == SumFunction([d \in Departments |-> RowOf(figure, d)]) + LooseRow(figure)
            IN  /\ rows = SumFunction(answers[figure])
                /\ figure = "hoursOf" /\ ~disturbed => rows = answers["total"]

\* The figures of one agency tell one story, on whichever screen.
BooksAgree ==
    /\ DepartmentsAddUp
    /\ answers = << >> =>
           SeriesAgrees /\ ScreensAgree /\ DashboardAgrees /\ CashAgrees /\ ProjectsAgree

-----------------------------------------------------------------------------
(***************************************************************************)
(* The platform's own books: what the subscriptions bring in a month, what *)
(* the platform spends, and the daily snapshot that is the only history of *)
(* either.  The snapshot is taken by a nightly job in every server, in     *)
(* three queries outside a transaction and an upsert on the date; the      *)
(* operators' edits of an expense look it up first and write it by id.     *)
(***************************************************************************)

CONSTANTS Agencies,    \* customers
          PlansSold,
          PriceOf,     \* what a plan costs a month
          Jobs24,      \* nightly jobs under way, one a server
          Costs,       \* expenses
          Sums,        \* what an expense may be
          LastNight,   \* bound: the last day there is
          MaxShifts,   \* bound: how often a subscription changes
          NoSnapshot

ASSUME TakingsAssumption ==
    /\ PriceOf \in [PlansSold -> Nat] /\ Sums \subseteq Nat
    /\ LastNight \in Nat /\ MaxShifts \in Nat /\ IsFiniteSet(Agencies)

VARIABLES paying,      \* paying[a]: the subscription of an agency: its status and plan
          shifts,      \* how often one has changed
          cost,        \* cost[x]: an expense: whether it is on file, its day and its sum
          night,       \* today
          snapshot,    \* snapshot[d]: the row of a day
          job          \* job[j]: what a nightly job has read

takingsVars == <<paying, shifts, cost, night, snapshot, job>>

Counted == {"trialing", "active", "past_due", "suspended"}
Statuses == Counted \cup {"cancelled"}
CostRow == [at : {"none", "live", "deleted"}, day : 0 .. LastNight, sum : Sums \cup {0}]
Snapshots == [mrr : Nat, total : Nat, of : [Counted -> Nat]]
Readings == {"paying", "status"}
Waiting == [pc |-> "idle", day |-> 0, read |-> {}, mrr |-> 0, of |-> [s \in Counted |-> 0],
            shifted |-> FALSE]

----------------------------------------------------------------------------
\* past_due counts: it is owed.  trialing does not.
OwedBy == {a \in Agencies : paying[a].status \in {"active", "past_due"}}
Recurring == SumFunction([a \in OwedBy |-> PriceOf[paying[a].plan]])
ByStatus == [s \in Counted |-> Cardinality({a \in Agencies : paying[a].status = s})]

Spent(from, to) ==
    LET live == {x \in Costs : cost[x].at = "live" /\ from <= cost[x].day /\ cost[x].day <= to}
    IN  SumFunction([x \in live |-> cost[x].sum])

\* Counted plan by plan over the subscriptions read, whichever screen asks.
ByPlan ==
    [k \in {paying[a].plan : a \in OwedBy} |->
        LET of == {a \in OwedBy : paying[a].plan = k}
        IN  [companies |-> Cardinality(of), mrr |-> Cardinality(of) * PriceOf[k]]]

Report(from, to) ==
    [mrr |-> Recurring, expenses |-> Spent(from, to), net |-> Recurring - Spent(from, to),
     paying |-> Cardinality(OwedBy), total |-> Cardinality(Agencies), plans |-> ByPlan]

Trend(days) == [d \in {x \in DOMAIN snapshot : snapshot[x] # NoSnapshot /\ x >= night - days} |->
                    snapshot[d].mrr]

----------------------------------------------------------------------------
(***************************************************************************)
(* The nightly job: the date first, then what is owed and how many there   *)
(* are of each status, in whichever order, then the row of that date.      *)
(***************************************************************************)
StartSnapshot(j) ==
    /\ job[j].pc = "idle"
    /\ job' = [job EXCEPT ![j] = [Waiting EXCEPT !.pc = "reading", !.day = night]]
    /\ UNCHANGED <<paying, shifts, cost, night, snapshot>>

ReadPaying(j) ==
    /\ job[j].pc = "reading" /\ "paying" \notin job[j].read
    /\ job' = [job EXCEPT ![j] = [job[j] EXCEPT !.read = @ \cup {"paying"}, !.mrr = Recurring]]
    /\ UNCHANGED <<paying, shifts, cost, night, snapshot>>

ReadStatuses(j) ==
    /\ job[j].pc = "reading" /\ "status" \notin job[j].read
    /\ job' = [job EXCEPT ![j] = [job[j] EXCEPT !.read = @ \cup {"status"}, !.of = ByStatus]]
    /\ UNCHANGED <<paying, shifts, cost, night, snapshot>>

UpsertSnapshot(j) ==
    /\ job[j].read = Readings
    /\ snapshot' = [snapshot EXCEPT ![job[j].day] =
                       [mrr |-> job[j].mrr, total |-> Cardinality(Agencies), of |-> job[j].of]]
    /\ job' = [job EXCEPT ![j] = Waiting]
    /\ UNCHANGED <<paying, shifts, cost, night>>

\* The process stops, or the database does not answer: nothing is written.
FailSnapshot(j) ==
    /\ job[j].pc # "idle"
    /\ job' = [job EXCEPT ![j] = Waiting]
    /\ UNCHANGED <<paying, shifts, cost, night, snapshot>>

----------------------------------------------------------------------------
\* A subscription changes hands or status between two queries of a job.
Subscribe ==
    /\ shifts < MaxShifts /\ shifts' = shifts + 1
    /\ \E a \in Agencies, s \in Statuses, k \in PlansSold :
          /\ paying[a] # [status |-> s, plan |-> k]
          /\ paying' = [paying EXCEPT ![a] = [status |-> s, plan |-> k]]
    /\ job' = [j \in Jobs24 |-> [job[j] EXCEPT !.shifted = @ \/ Cardinality(job[j].read) = 1]]
    /\ UNCHANGED <<cost, night, snapshot>>

CreateExpense(x) ==
    /\ cost[x].at = "none"
    /\ \E n \in Sums : cost' = [cost EXCEPT ![x] = [at |-> "live", day |-> night, sum |-> n]]
    /\ UNCHANGED <<paying, shifts, night, snapshot, job>>

\* Of a lookup and a write by id the write is what counts: once deleted an expense stays
\* deleted, and in no figure, whatever else is written to its row.
UpdateExpense(x) ==
    /\ cost[x].at = "live"
    /\ \E n \in Sums, d \in {0, night} : cost' = [cost EXCEPT ![x] = [@ EXCEPT !.day = d, !.sum = n]]
    /\ UNCHANGED <<paying, shifts, night, snapshot, job>>

DeleteExpense(x) ==
    /\ cost[x].at = "live"
    /\ cost' = [cost EXCEPT ![x].at = "deleted"]
    /\ UNCHANGED <<paying, shifts, night, snapshot, job>>

NextNight ==
    /\ night < LastNight
    /\ night' = night + 1
    /\ UNCHANGED <<paying, shifts, cost, snapshot, job>>

TakingsInit ==
    /\ paying \in [Agencies -> [status : Statuses, plan : PlansSold]] /\ shifts = 0
    /\ cost = [x \in Costs |-> [at |-> "none", day |-> 0, sum |-> 0]]
    /\ night = 0
    /\ snapshot = [d \in 0 .. LastNight |-> NoSnapshot]
    /\ job = [j \in Jobs24 |-> Waiting]

TakingsNext ==
    \/ \E j \in Jobs24 : StartSnapshot(j) \/ ReadPaying(j) \/ ReadStatuses(j) \/ UpsertSnapshot(j)
                         \/ FailSnapshot(j)
    \/ \E x \in Costs : CreateExpense(x) \/ UpdateExpense(x) \/ DeleteExpense(x)
    \/ Subscribe \/ NextNight

TakingsSpec == TakingsInit /\ [][TakingsNext]_takingsVars

----------------------------------------------------------------------------
TakingsTypeOK ==
    /\ paying \in [Agencies -> [status : Statuses, plan : PlansSold]]
    /\ cost \in [Costs -> CostRow]
    /\ night \in 0 .. LastNight /\ shifts \in 0 .. MaxShifts
    /\ snapshot \in [0 .. LastNight -> Snapshots \cup {NoSnapshot}]
    /\ job \in [Jobs24 -> [pc : {"idle", "reading"}, day : 0 .. LastNight,
                           read : SUBSET Readings, mrr : Nat, of : [Counted -> Nat], shifted : BOOLEAN]]

(***************************************************************************)
(* The plans of the report sum to its MRR and to its number of payers, and *)
(* those who pay are the active and the past due of the counts by status.  *)
(***************************************************************************)
PlansAddUp ==
    LET r == Report(0, LastNight)
    IN  /\ SumFunction([k \in DOMAIN r.plans |-> r.plans[k].mrr]) = r.mrr
        /\ SumFunction([k \in DOMAIN r.plans |-> r.plans[k].companies]) = r.paying
        /\ r.paying = ByStatus["active"] + ByStatus["past_due"]
        /\ r.net = r.mrr - Spent(0, LastNight)

(***************************************************************************)
(* What a job is about to record is of one moment: the recurring revenue   *)
(* is what that many paying companies can bring, at the lowest price each  *)
(* and at the highest, unless a subscription changed between its two reads.*)
(***************************************************************************)
MomentUnlessShifted ==
    \A j \in Jobs24 :
        job[j].read = Readings /\ ~job[j].shifted =>
            LET n == job[j].of["active"] + job[j].of["past_due"]
            IN  \A low, high \in PlansSold :
                    (\A k \in PlansSold : PriceOf[low] <= PriceOf[k] /\ PriceOf[k] <= PriceOf[high])
                        => n * PriceOf[low] <= job[j].mrr /\ job[j].mrr <= n * PriceOf[high]

(***************************************************************************)
(* "One row per day" (platform.prisma): a job that outlasts midnight still *)
(* writes the day it began on, so that no row is ahead of its day and no   *)
(* day's row is of a later one.                                            *)
(***************************************************************************)
NoDayAhead ==
    /\ \A d \in night + 1 .. LastNight : snapshot[d] = NoSnapshot
    /\ \A j \in Jobs24 : job[j].day <= night

\* The platform's books say the same on the report, the trend and the snapshot.
TakingsHold == PlansAddUp /\ MomentUnlessShifted /\ NoDayAhead
=============================================================================
