------------------------------ MODULE Schedule ------------------------------
(***************************************************************************)
(* The schedule that a loan starts with, and what a loan is said to stand  *)
(* at.  Money is in paisa; a date is a month, counted from year 0, and a   *)
(* day of it.                                                              *)
(***************************************************************************)
EXTENDS Integers, Sequences, FiniteSets, Functions

CONSTANTS Principals, StartDates, Terms

ASSUME ScheduleAssumption ==
    /\ Principals \subseteq Nat \ {0} /\ Terms \subseteq Nat \ {0}
    /\ StartDates \subseteq [month : Nat, day : 1 .. 31]

VARIABLES loanOf,   \* what was borrowed, when, over how many months
          rows,     \* the instalments, in the order of their seq
          paid      \* which of them are paid

scheduleVars == <<loanOf, rows, paid>>

NoLoanYet == [principal |-> 0, start |-> [month |-> 0, day |-> 1], term |-> 0]

LeapYear(y) == y % 4 = 0 /\ (y % 100 # 0 \/ y % 400 = 0)
LastDayOf(month) ==
    CASE month % 12 = 1 -> IF LeapYear(month \div 12) THEN 29 ELSE 28
      [] month % 12 \in {3, 5, 8, 10} -> 30
      [] OTHER -> 31

\* Mutant of AddMonthsClamped, setUTCMonth alone: what is too much runs into the next month.
AddMonthsRolled(date, months) ==
    LET last == LastDayOf(date.month + months)
    IN  IF date.day > last THEN [month |-> date.month + months + 1, day |-> date.day - last]
        ELSE [month |-> date.month + months, day |-> date.day]

\* The same day so many months later, or the last there is.
AddMonthsClamped(date, months) ==
    LET last == LastDayOf(date.month + months)
    IN  [month |-> date.month + months, day |-> IF date.day > last THEN last ELSE date.day]

\* Equal parts in whole paisa, the rest of it on the last.
GenerateSchedule(principal, start, term) ==
    LET per == principal \div term
    IN  [i \in 1 .. term |->
            [due |-> AddMonthsClamped(start, i),
             principal |-> IF i = term THEN principal - per * (term - 1) ELSE per]]

SumOf(which) == SumFunction([i \in which |-> rows[i].principal])
Unpaid == (DOMAIN rows) \ paid
NextDue == {i \in Unpaid : \A k \in Unpaid : i <= k}

Summarise ==
    [outstanding |-> loanOf.principal - SumOf(paid), principalPaid |-> SumOf(paid),
     scheduled |-> SumOf(DOMAIN rows), paidCount |-> Cardinality(paid),
     count |-> Len(rows), nextDue |-> NextDue]

----------------------------------------------------------------------------
ScheduleInit == loanOf = NoLoanYet /\ rows = << >> /\ paid = {}

CreateLoan ==
    /\ loanOf = NoLoanYet
    /\ \E p \in Principals, s \in StartDates, t \in Terms :
          /\ loanOf' = [principal |-> p, start |-> s, term |-> t]
          /\ rows' = GenerateSchedule(p, s, t)
    /\ UNCHANGED paid

PayRow == \E i \in Unpaid : paid' = paid \cup {i} /\ UNCHANGED <<loanOf, rows>>
ReverseRow == \E i \in paid : paid' = paid \ {i} /\ UNCHANGED <<loanOf, rows>>

ScheduleNext == CreateLoan \/ PayRow \/ ReverseRow
ScheduleSpec == ScheduleInit /\ [][ScheduleNext]_scheduleVars

ScheduleTypeOK ==
    /\ \A i \in DOMAIN rows : rows[i].due.day \in 1 .. 31 /\ rows[i].principal \in Nat
    /\ paid \subseteq DOMAIN rows

(***************************************************************************)
(* "The rows sum to exactly the principal rather than to a rounding error" *)
(* (generateSchedule), no row takes back, and none but the last differs.   *)
(***************************************************************************)
RowsAreTheLoan ==
    /\ SumOf(DOMAIN rows) = loanOf.principal
    /\ \A i, k \in DOMAIN rows : /\ rows[i].principal >= 0
                                 /\ i < k /\ k < Len(rows) => rows[i].principal = rows[k].principal
                                 /\ rows[i].principal <= rows[Len(rows)].principal

(***************************************************************************)
(* One instalment a month, none skipped and none doubled, on the day the   *)
(* loan began or on the month's last: setUTCMonth alone "skips February's  *)
(* instalment and puts two in March".                                      *)
(***************************************************************************)
OneAMonth ==
    \A i \in DOMAIN rows :
        LET due == rows[i].due
        IN  /\ due.month = loanOf.start.month + i
            /\ \/ due.day = loanOf.start.day
               \/ due.day = LastDayOf(due.month) /\ due.day < loanOf.start.day

\* What is outstanding is what the unpaid rows say, and the first of them is due
\* next, in whatever order the others were paid.
StandsAtItsRows ==
    LET s == Summarise
    IN  /\ s.outstanding = SumOf(Unpaid) /\ s.outstanding >= 0
        /\ s.nextDue = {} <=> s.paidCount = s.count
        /\ \A i \in s.nextDue, k \in Unpaid : rows[i].due.month <= rows[k].due.month

ScheduleHolds == RowsAreTheLoan /\ OneAMonth /\ StandsAtItsRows
=============================================================================
