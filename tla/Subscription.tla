---------------------------- MODULE Subscription ----------------------------
(***************************************************************************)
(* A company's standing on the platform: its one subscription, moved by    *)
(* operators (platformSubscription.service.ts) and by the nightly sweep,   *)
(* which is two UPDATEs that read the same dates.  The sweep runs on every *)
(* instance of the server, misses nights while none is up, and may stop    *)
(* between its two statements.                                             *)
(***************************************************************************)
EXTENDS Integers

CONSTANTS Companies,
          Sweepers,   \* instances of the server
          Trials,     \* the lengths a trial can have; 0 is none
          GraceDays,  \* GRACE_DAYS
          MaxDay,     \* a bound on time
          NoDate

ASSUME SubscriptionAssumption ==
    /\ GraceDays \in Nat /\ MaxDay \in Nat
    /\ Trials \subseteq Nat /\ NoDate \notin Int

VARIABLES today,      \* of the nights; a sweep's "now"
          sub,        \* sub[c]: the row of c, or NoRow
          sweep,      \* sweep[s]: whether s is between its two statements, and its "now"
          warned,     \* ghost: companies found past due before the night that is being swept
          late        \* ghost: companies whose grace was over before any sweep had seen them lapse

subscriptionVars == <<today, sub, sweep, warned, late>>

-----------------------------------------------------------------------------
Days     == 0 .. MaxDay
Dates    == Days \cup {NoDate}
Standing == {"trialing", "active", "past_due", "suspended", "cancelled"}
SubRows  == [status : Standing \cup {"none"}, trialEnds : Dates, periodEnd : Dates]
Unprovisioned == [status |-> "none", trialEnds |-> NoDate, periodEnd |-> NoDate]

SubscriptionInit ==
    /\ today = 0
    /\ sub = [c \in Companies |-> Unprovisioned]
    /\ sweep = [s \in Sweepers |-> NoDate]
    /\ warned = {} /\ late = {}

Before(date, day) == date # NoDate /\ date < day

-----------------------------------------------------------------------------
(* How a company comes to have a subscription.                             *)

\* Mutant of Started: the trial is counted in the wrong unit.
InHours(trialDays) ==
    [status |-> "trialing", trialEnds |-> today + 24 * trialDays, periodEnd |-> NoDate]

Started(trialDays) ==
    IF trialDays > 0
    THEN [status |-> "trialing", trialEnds |-> today + trialDays, periodEnd |-> NoDate]
    ELSE [status |-> "active", trialEnds |-> NoDate, periodEnd |-> NoDate]

\* register with a default plan in the settings, and createCompany.
Provide(c) ==
    /\ sub[c] = Unprovisioned
    /\ \E trialDays \in Trials :
          today + trialDays \in Days /\ sub' = [sub EXCEPT ![c] = Started(trialDays)]
    /\ UNCHANGED <<today, sweep, warned, late>>

\* Each date is any day, the past ones included, is cleared, or is left as it was.
SetSubscription(c) ==
    \E status \in Standing, trial \in Dates, period \in Dates :
        /\ sub' = [sub EXCEPT ![c] = [status |-> status, trialEnds |-> trial, periodEnd |-> period]]
        /\ warned' = IF status = "past_due" THEN warned \cup {c} ELSE warned \ {c}
        /\ late' = late \ {c}
        /\ UNCHANGED <<today, sweep>>

-----------------------------------------------------------------------------
(* The sweep.                                                              *)

Lapsed(c, now) ==
    \/ sub[c].status = "trialing" /\ Before(sub[c].trialEnds, now)
    \/ sub[c].status = "active" /\ Before(sub[c].periodEnd, now)

\* Mutant of BeyondGrace: the window counts from the other side of today.
NoGrace(c, now) ==
    /\ sub[c].status = "past_due"
    /\ \/ Before(sub[c].periodEnd, now + GraceDays)
       \/ sub[c].periodEnd = NoDate /\ Before(sub[c].trialEnds, now + GraceDays)

BeyondGrace(c, now) ==
    /\ sub[c].status = "past_due"
    /\ \/ Before(sub[c].periodEnd, now - GraceDays)
       \/ sub[c].periodEnd = NoDate /\ Before(sub[c].trialEnds, now - GraceDays)

\* Whether the dates of c are past grace, whatever its status is by now.
Overdue(c, now) ==
    IF sub[c].periodEnd # NoDate THEN sub[c].periodEnd < now - GraceDays
    ELSE Before(sub[c].trialEnds, now - GraceDays)

MarkPastDue(s) ==
    LET found == {c \in Companies : Lapsed(c, today)} IN
    /\ sweep[s] = NoDate
    /\ sub' = [c \in Companies |-> IF c \in found THEN [sub[c] EXCEPT !.status = "past_due"]
                                   ELSE sub[c]]
    /\ late' = late \cup {c \in found : Overdue(c, today)}
    /\ sweep' = [sweep EXCEPT ![s] = today]
    /\ UNCHANGED <<today, warned>>

SuspendOverdue(s) ==
    LET found == {c \in Companies : BeyondGrace(c, sweep[s])} IN
    /\ sweep[s] # NoDate
    /\ sub' = [c \in Companies |-> IF c \in found THEN [sub[c] EXCEPT !.status = "suspended"]
                                   ELSE sub[c]]
    /\ sweep' = [sweep EXCEPT ![s] = NoDate]
    /\ UNCHANGED <<today, warned, late>>

\* The process stops between the two, or the first of them fails.
SweepDies(s) ==
    /\ sweep[s] # NoDate
    /\ sweep' = [sweep EXCEPT ![s] = NoDate]
    /\ UNCHANGED <<today, sub, warned, late>>

\* Midnight; no sweep takes until the next one.
NextDay ==
    /\ today < MaxDay /\ \A s \in Sweepers : sweep[s] = NoDate
    /\ today' = today + 1
    /\ warned' = {c \in Companies : sub[c].status = "past_due"}
    /\ UNCHANGED <<sub, sweep, late>>

SubscriptionNext ==
    \/ \E c \in Companies : Provide(c) \/ SetSubscription(c)
    \/ NextDay
    \/ \E s \in Sweepers : MarkPastDue(s) \/ SuspendOverdue(s) \/ SweepDies(s)

SubscriptionSpec == SubscriptionInit /\ [][SubscriptionNext]_subscriptionVars

\* What enforceSubscription lets a member of c do besides reading.
MayWrite(c) == sub[c].status \in {"none", "trialing", "active", "past_due"}

-----------------------------------------------------------------------------
SubscriptionTypeOK ==
    /\ today \in Days
    /\ sub \in [Companies -> SubRows]
    /\ sweep \in [Sweepers -> Dates]
    /\ warned \subseteq Companies /\ late \subseteq Companies

(***************************************************************************)
(* The sweep cuts off nobody's writes without warning: whom it suspends    *)
(* was past due on an earlier night, or had been set past due by an        *)
(* operator, or its grace was over before any sweep saw it (nights were    *)
(* missed, or an older date counts although a newer one lapsed).           *)
(***************************************************************************)
WarnedUnlessLate ==
    [][\A s \in Sweepers : SuspendOverdue(s) =>
          \A c \in Companies : MayWrite(c) /\ ~MayWrite(c)' => c \in warned \cup late]_subscriptionVars

(***************************************************************************)
(* "A missed night is caught by the next one" (scheduler.ts): what has     *)
(* lapsed does not stay as it was for ever, nor past due when its grace is *)
(* over, whichever nights are missed or cut short.                         *)
(***************************************************************************)
OwesTooLong(c) == sub[c].status = "past_due" /\ Overdue(c, today)

MissedNightsAreCaught ==
    \A c \in Companies : /\ Lapsed(c, today) ~> ~Lapsed(c, today)
                         /\ OwesTooLong(c) ~> ~OwesTooLong(c)
=============================================================================
