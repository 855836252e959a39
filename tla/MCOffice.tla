------------------------------ MODULE MCOffice ------------------------------
(***************************************************************************)
(* Instances of Chat, Leave and Shares, and of the figures (Reports,       *)
(* Measures, Schedule, Listing) for TLC.  The halves of Leave, Reports and *)
(* Measures and the other modules share no variable: a behaviour explores  *)
(* one of them, its part, while the others stay as they began.  The first  *)
(* half of Reports is explored twice: as the accounts, with the deletion   *)
(* of a project step by step, and as the delivery screen, query by query.  *)
(***************************************************************************)
EXTENDS Chat, Leave, Shares, Reports, Measures, Schedule, Listing, TLC

CONSTANTS j, k1, k2

VARIABLE part

daysVars    == <<leaveVars, attendanceVars>>
peopleVars  == <<chatVars, daysVars, sharesVars>>
moneyVars   == <<reportVars, takingsVars, scheduleVars>>
kpiVars     == <<sellingVars, measureVars, listVars>>
officeVars  == <<part, peopleVars, moneyVars, kpiVars>>

OfficeInit ==
    /\ part \in {"chat", "leave", "attendance", "shares",
                 "reports", "screen", "takings", "schedule", "selling", "measures", "listing"}
    /\ ChatInit /\ LeaveInit /\ AttendanceInit /\ SharesInit
    /\ ReportsInit /\ ScheduleInit /\ SellingInit /\ MeasuresInit
    /\ TakingsInit
    /\ \A a \in Agencies :
          IF part = "takings" THEN paying[a].status \in {"trialing", "active", "cancelled"}
          ELSE paying[a] = [status |-> "active", plan |-> k1]
    /\ ListingInit /\ (part # "listing" => onList = {})

PeopleNext ==
    \/ part = "chat" /\ ChatNext /\ UNCHANGED <<daysVars, sharesVars>>
    \/ part = "leave" /\ LeaveNext /\ UNCHANGED <<chatVars, attendanceVars, sharesVars>>
    \/ part = "attendance" /\ AttendanceNext /\ UNCHANGED <<chatVars, leaveVars, sharesVars>>
    \/ part = "shares" /\ SharesNext /\ UNCHANGED <<chatVars, daysVars>>

\* Bounds.  The accounts: one request under way, hours aside, and nobody asks for the
\* screen.  The screen: what people logged and were paid, and no project deleted.
OnAccounts ==
    /\ ReportsNext /\ answers' = answers /\ departmentOf' = departmentOf
    /\ Cardinality(asked') <= 1 /\ \A e \in asked' : e.kind # "hours"
OnScreen ==
    /\ ReportsNext /\ counted' = counted
    /\ \A e \in asked' : e.employee # "none"

MoneyNext ==
    \/ part = "reports" /\ OnAccounts /\ UNCHANGED <<takingsVars, scheduleVars>>
    \/ part = "screen" /\ OnScreen /\ UNCHANGED <<takingsVars, scheduleVars>>
    \/ part = "takings" /\ TakingsNext /\ UNCHANGED <<reportVars, scheduleVars>>
    \/ part = "schedule" /\ ScheduleNext /\ UNCHANGED <<reportVars, takingsVars>>

KpiNext ==
    \/ part = "selling" /\ SellingNext /\ UNCHANGED <<measureVars, listVars>>
    \/ part = "measures" /\ MeasuresNext /\ UNCHANGED <<sellingVars, listVars>>
    \/ part = "listing" /\ ListingNext /\ UNCHANGED <<sellingVars, measureVars>>

OfficeNext ==
    /\ UNCHANGED part
    /\ \/ PeopleNext /\ UNCHANGED <<moneyVars, kpiVars>>
       \/ MoneyNext /\ UNCHANGED <<peopleVars, kpiVars>>
       \/ KpiNext /\ UNCHANGED <<peopleVars, moneyVars>>

OfficeSpec == OfficeInit /\ [][OfficeNext]_officeVars

Symmetry == Permutations(Requesters) \cup Permutations(People)

\* What is recorded of one agency, by heading, day, amount, project, client and
\* person: a payment and work of a project, and some of none.
Entry(heading, d, n, p, c, u) ==
    [kind |-> heading, day |-> d, amount |-> n, job |-> p, payer |-> c, employee |-> u]
EntriesHere ==
    {Entry("payment", 1, 4, j, "c1", "none"), Entry("payment", 2, 3, NoJob, "c2", "none"),
     Entry("expense", 3, 1, j, "none", "none"), Entry("salary", 0, 1, NoJob, "none", "none"),
     Entry("payout", 2, 2, j, "none", "ann"), Entry("interest", 1, 1, NoJob, "none", "none"),
     Entry("hours", 0, 5, j, "none", "ann"), Entry("hours", 3, 1, NoJob, "none", "bob")}
PricesHere == [k \in PlansSold |-> IF k = k1 THEN 2 ELSE 3]
WorthHere == [l \in Deals |-> 2]
\* The 31st of January before a common February, the 30th before a leap one.
StartsHere == {[month |-> 12 * 2027, day |-> 31], [month |-> 12 * 2028, day |-> 30],
               [month |-> 12 * 2027 + 7, day |-> 31], [month |-> 12 * 2027 + 11, day |-> 15]}
\* Two of the rows share a day.
DaysHere == [x \in Items |-> IF x = "x4" THEN 3 ELSE IF x = "x1" THEN 1 ELSE IF x = "x2" THEN 2 ELSE 3]

\* Every variable of the parts keeps its type.
OfficeTypeOK ==
    /\ ChatTypeOK /\ LeaveTypeOK /\ AttendanceTypeOK /\ SharesTypeOK
    /\ ReportsTypeOK /\ TakingsTypeOK /\ ScheduleTypeOK
    /\ SellingTypeOK /\ MeasuresTypeOK /\ ListingTypeOK

(***************************************************************************)
(* The record of who was away and who was here can be relied on: no day    *)
(* counts twice, what was decided stands, and nobody left before they      *)
(* came.                                                                   *)
(***************************************************************************)
DaysHoldUnlessRaced ==
    DaysCountOnceUnlessRaced /\ DecisionStandsUnlessRaced /\ OutFollowsInUnlessForeseen

\* A thread is of those who are in it, and nothing in it passes for read.
ThreadsHoldUnlessLate == UnreadUntilReadUnlessLate /\ DirectIsTheirs

(***************************************************************************)
(* The figures agree, each part's with the rows they come of and with one  *)
(* another: the company's books, the platform's, a loan's schedule, sales, *)
(* what people are measured by, and a list read page by page.              *)
(***************************************************************************)
FiguresAgree ==
    /\ part \in {"reports", "screen"} => BooksAgree
    /\ part = "takings" => TakingsHold
    /\ part = "schedule" => ScheduleHolds
    /\ part = "selling" => SalesHold
    /\ part = "measures" => MeasuresHold
    /\ part = "listing" => PagesMissNothingUnlessShaken
=============================================================================
