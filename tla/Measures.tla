------------------------------ MODULE Measures ------------------------------
(***************************************************************************)
(* What an agency and a person are measured by: hours available, billed    *)
(* and collected, against a target.  Every figure comes of one file of     *)
(* formulas, over rows that change as people come, leave, log their time   *)
(* and have it approved.  A figure that cannot be computed is no figure:   *)
(* a metric is a set that holds its value, in hundredths, or nothing.      *)
(* What the sales of an agency come to is the second half.                 *)
(***************************************************************************)
EXTENDS Integers, Sequences, FiniteSets, FiniteSetsExt, Functions

CONSTANTS Crew,         \* people
          WeeklyHours,  \* what a week of theirs may be set to
          BillRates,    \* what an hour of theirs may be set to; 0 is unset
          HourSteps,    \* what is logged at once
          Collected,    \* revenue in USD
          GoalValues,   \* targets, in hundredths
          MaxHours      \* bound: what one person logs in all

ASSUME MeasuresAssumption ==
    /\ WeeklyHours \subseteq Nat /\ BillRates \subseteq Nat /\ HourSteps \subseteq Nat
    /\ Collected \subseteq Nat /\ GoalValues \subseteq Int /\ MaxHours \in Nat
    /\ IsFiniteSet(Crew)

VARIABLES working,      \* who is active and not deleted
          capacity,     \* the rows of capacities, of those who have one
          logged,       \* hours on file of each person
          collected     \* what came in

measureVars == <<working, capacity, logged, collected>>

DefaultWeekly == 40
CapacityRow == [weekly : WeeklyHours \cup {DefaultWeekly}, rate : BillRates \cup {0}]
Hours == [total : Nat, billable : Nat, approved : Nat]

----------------------------------------------------------------------------
\* Math.round of n / d, which takes a half up.
Rounded(n, d) == (2 * n + d) \div (2 * d)
Metric(n, d) == IF d > 0 THEN {Rounded(n, d)} ELSE {}
Percent(n, d) == Metric(10000 * n, d)

AvailableHours(weekly, days) == Rounded(100 * weekly * days, 7)
Utilization(billable, available) == Metric(1000000 * billable, available)
Realization(revenue, billable, rate) ==
    IF rate <= 0 \/ billable <= 0 THEN {} ELSE Percent(revenue, billable * rate)
EffectiveRate(revenue, billable) == Metric(100 * revenue, billable)
GrossMargin(revenue, cost) == Percent(revenue - cost, revenue)
PerHead(revenue, heads) == Metric(100 * revenue, heads)
Annualise(value, days) == Metric(value * 365, days)
PlanVsActual(hours, baseline) == Percent(hours, baseline)
ScopeChange(value, baseline) == Percent(value - baseline, baseline)

\* A metric beside its target, if one was set.
Attainment(metric, target, lowerIsBetter) ==
    LET compared == {v \in metric : target # {}}
        t == CHOOSE x \in target : TRUE
    IN  [onTrack |-> {IF lowerIsBetter THEN v <= t ELSE v >= t : v \in compared},
         pct     |-> {Rounded(10000 * v, t) : v \in {x \in compared : t # 0}}]

----------------------------------------------------------------------------
(***************************************************************************)
(* Windows.  Two instants to a day: its first and its last.  A bound that  *)
(* is not given is {}.                                                     *)
(***************************************************************************)
ToDateOnly(d) == 2 * d
EndOfDay(d) == 2 * d + 1
Bound(given, instant(_), otherwise) == IF given = {} THEN otherwise ELSE instant(CHOOSE d \in given : TRUE)
DaysOf(span) == (span \div 2) + 1
RoundedDaysOf(span) == Rounded(span, 2) + 1

Latest(S) == CHOOSE x \in S : \A y \in S : y <= x
ResolveRange(from, to, now) ==
    LET end   == Bound(to, EndOfDay, now)
        start == Bound(from, ToDateOnly, end - 2 * 29)
    IN  [from |-> start, to |-> end, days |-> Latest({1, DaysOf(end - start)})]

\* The workload screen rounds where the KPI takes the floor.
WorkloadDays(from, to, now) ==
    LET end == Bound(to, EndOfDay, now)
    IN  Latest({1, RoundedDaysOf(end - Bound(from, ToDateOnly, end - 2 * 6))})

----------------------------------------------------------------------------
Row(u) == IF u \in DOMAIN capacity THEN capacity[u] ELSE [weekly |-> DefaultWeekly, rate |-> 0]

Rated(people) == {u \in people : Row(u).rate > 0}
\* Over those who have a rate: how much it comes to, and over how many.
BlendedRate(people) == [sum |-> SumFunction([u \in Rated(people) |-> Row(u).rate]),
                        over |-> Cardinality(Rated(people))]

LoadCapacity(people) ==
    [headcount |-> Cardinality(people), weekly |-> SumFunction([u \in people |-> Row(u).weekly]),
     defaulted |-> Cardinality({u \in people : u \notin DOMAIN capacity}),
     rate |-> BlendedRate(people)]

LoadHours(people) ==
    [total    |-> SumFunction([u \in people |-> logged[u].total]),
     billable |-> SumFunction([u \in people |-> logged[u].billable]),
     approved |-> SumFunction([u \in people |-> logged[u].approved])]

\* The agency: the hours of whoever logged any, over the capacity of whoever works here.
AgencyScope(days) ==
    LET c == LoadCapacity(working)
        h == LoadHours(Crew)
        heads == PerHead(collected, c.headcount)
    IN  [available   |-> AvailableHours(c.weekly, days),
         utilization |-> Utilization(h.billable, AvailableHours(c.weekly, days)),
         realization |-> Realization(collected * c.rate.over, h.approved, c.rate.sum),
         hourly      |-> EffectiveRate(collected, h.billable),
         perHead     |-> heads,
         perYear     |-> UNION {Annualise(v, days) : v \in heads}]

MeScope(u, days) ==
    LET own == {u} \cap working
    IN  [available   |-> AvailableHours(LoadCapacity(own).weekly, days),
         utilization |-> Utilization(logged[u].billable, AvailableHours(LoadCapacity(own).weekly, days))]

----------------------------------------------------------------------------
\* Either field alone; the one left out keeps its value, or gets the default.
SetCapacity(u) ==
    /\ u \in working
    /\ \E weekly \in WeeklyHours \cup {Row(u).weekly}, rate \in BillRates \cup {Row(u).rate} :
          capacity' = [x \in DOMAIN capacity \cup {u} |->
                          IF x = u THEN [weekly |-> weekly, rate |-> rate] ELSE capacity[x]]
    /\ UNCHANGED <<working, logged, collected>>

LogTime(u) ==
    /\ u \in working
    /\ \E n \in HourSteps, billable \in BOOLEAN :
          /\ logged[u].total + n <= MaxHours
          /\ logged' = [logged EXCEPT ![u].total = @ + n,
                                      ![u].billable = IF billable THEN @ + n ELSE @]
    /\ UNCHANGED <<working, capacity, collected>>

ApproveTime(u) ==
    /\ logged[u].approved < logged[u].billable
    /\ logged' = [logged EXCEPT ![u].approved = logged[u].billable]
    /\ UNCHANGED <<working, capacity, collected>>

Depart(u) == u \in working /\ working' = working \ {u} /\ UNCHANGED <<capacity, logged, collected>>

Collect ==
    /\ \E n \in Collected \ {collected} : collected' = n
    /\ UNCHANGED <<working, capacity, logged>>

MeasuresInit ==
    /\ working = Crew /\ capacity = << >> /\ collected = 0
    /\ logged = [u \in Crew |-> [total |-> 0, billable |-> 0, approved |-> 0]]

MeasuresNext ==
    \/ \E u \in Crew : SetCapacity(u) \/ LogTime(u) \/ ApproveTime(u) \/ Depart(u)
    \/ Collect

MeasuresSpec == MeasuresInit /\ [][MeasuresNext]_measureVars

MeasuresTypeOK ==
    /\ working \subseteq Crew /\ collected \in Collected \cup {0}
    /\ DOMAIN capacity \subseteq Crew /\ \A u \in DOMAIN capacity : capacity[u] \in CapacityRow
    /\ logged \in [Crew -> Hours]

----------------------------------------------------------------------------
(***************************************************************************)
(* The people add up to the agency: what is available is theirs, but for   *)
(* the rounding; and over whole weeks the agency is used no less than the  *)
(* least and no more than the most used of them, unless somebody who       *)
(* billed time has left or has no hours: their time counts all the same.   *)
(***************************************************************************)
PeopleMakeTheAgency ==
    /\ \A days \in {1, 7, 30} :
          AgencyScope(days).available - SumFunction([u \in working |-> MeScope(u, days).available])
              \in -Cardinality(Crew) .. Cardinality(Crew)
    /\ LET used(u) == MeScope(u, 7).utilization
       IN  (\A u \in Crew : logged[u].billable > 0 => used(u) # {}) =>
               \A v \in AgencyScope(7).utilization :
                   \E lo, hi \in UNION {used(u) : u \in working} : lo <= v /\ v <= hi

(***************************************************************************)
(* "Averaging in the unrated ones as zero would halve the rate" of         *)
(* everybody: who has no rate changes neither what an hour is billed at    *)
(* nor what was realised, only the heads.  Nobody rated is no realization. *)
(***************************************************************************)
UnratedDoNotDilute ==
    \A u \in working \ Rated(working) :
        /\ BlendedRate(working \ {u}) = BlendedRate(working)
        /\ Rated(working) = {} => AgencyScope(30).realization = {}

\* A target is met in full: basis points.
InFull == 10000

(***************************************************************************)
(* Sense and sums agree: over target is on track and over 100 % but for    *)
(* the rounding of the percentage; work at its baseline is 100 %; a margin *)
(* is negative exactly when more was spent than came in.                   *)
(***************************************************************************)
ScoresMakeSense ==
    \A t \in GoalValues, lower \in BOOLEAN :
        LET a == Attainment(AgencyScope(30).utilization, {t}, lower)
        IN  /\ a.onTrack # {} <=> AgencyScope(30).utilization # {}
            /\ t > 0 => \A p \in a.pct :
                  /\ TRUE \in a.onTrack => IF lower THEN p <= InFull ELSE p >= InFull
                  /\ FALSE \in a.onTrack => IF lower THEN p >= InFull ELSE p <= InFull

FormulasMakeSense ==
    \A n, d \in 0 .. 12 :
        /\ \A v \in PlanVsActual(n, d) : (n = d <=> v = 10000) /\ (n > d <=> v > 10000)
        /\ \A v \in ScopeChange(n, d) : PlanVsActual(n, d) = {v + 10000}
        /\ \A v \in GrossMargin(d, n) : (v < 0 <=> n > d) /\ ScopeChange(n, d) = {-v}
        /\ d = 0 => PlanVsActual(n, d) = {}

(***************************************************************************)
(* A window given by its days is as many days long; the defaults are 30    *)
(* and 7.  The workload of a window given by its last day is of one more.  *)
(***************************************************************************)
WindowsAreTheirDays ==
    \A from, to \in 0 .. 3, now \in 0 .. 7 :
        /\ from <= to => /\ ResolveRange({from}, {to}, now).days = to - from + 1
                         /\ WorkloadDays({from}, {to}, now) = to - from + 2
        /\ ResolveRange({}, {}, now).days = 30 /\ WorkloadDays({}, {}, now) = 7

MeasuresHold ==
    /\ PeopleMakeTheAgency /\ UnratedDoNotDilute /\ ScoresMakeSense
    /\ collected = 0 /\ capacity = << >> => FormulasMakeSense /\ WindowsAreTheirDays

-----------------------------------------------------------------------------
(***************************************************************************)
(* The sales figures.  Won and lost are counted from the stage history,    *)
(* what is open and what a deal is worth from the leads as they stand: two *)
(* tables that a reopened, a twice won or a deleted lead sets apart.       *)
(***************************************************************************)

CONSTANTS Deals,      \* leads
          Brokers,    \* who may own one
          NoBroker,   \* owner_id is null
          Sources, NoSource,
          WorthOf,    \* the estimate of a lead
          LastMove,   \* bound: the last day there is
          MaxSteps    \* bound: how often the stages change

ASSUME SellingAssumption ==
    /\ WorthOf \in [Deals -> Nat] /\ LastMove \in Nat /\ MaxSteps \in Nat
    /\ IsFiniteSet(Deals) /\ IsFiniteSet(Brokers) /\ "all" \notin Brokers \cup {NoBroker}

VARIABLES deal,       \* deal[l]: a row of leads
          steps,      \* the rows of lead_stage_events, in the order they were written
          dayOfSale

sellingVars == <<deal, steps, dayOfSale>>

\* One stage stands for the four open ones, which the sales figures never tell apart.
OpenStages == {"new"}
DealStages == OpenStages \cup {"won", "lost"}
DealRow == [at : {"none", "live", "deleted"}, stage : DealStages, owner : Brokers \cup {NoBroker},
            source : Sources \cup {NoSource}]

Live(l) == deal[l].at = "live"
AllOwners == Brokers \cup {NoBroker}
Whose(mine) == IF mine = "all" THEN AllOwners ELSE {mine}

----------------------------------------------------------------------------
\* A lead's history starts with its first stage, and every move adds to it.
NewDeal(l) ==
    /\ deal[l].at = "none"
    /\ \E o \in Brokers, s \in Sources \cup {NoSource}, stage \in DealStages :
          /\ deal' = [deal EXCEPT ![l] = [at |-> "live", stage |-> stage, owner |-> o, source |-> s]]
          /\ steps' = Append(steps, [lead |-> l, to |-> stage, day |-> dayOfSale])
    /\ UNCHANGED dayOfSale

\* An edit may hand the lead on, or leave it to nobody: its history goes along.
HandOver(l) ==
    /\ Live(l)
    /\ \E o \in AllOwners \ {deal[l].owner} : deal' = [deal EXCEPT ![l].owner = o]
    /\ UNCHANGED <<steps, dayOfSale>>

MoveDeal(l) ==
    /\ Live(l) /\ Len(steps) < MaxSteps
    /\ \E s \in DealStages \ {deal[l].stage} :
          /\ deal' = [deal EXCEPT ![l].stage = s]
          /\ steps' = Append(steps, [lead |-> l, to |-> s, day |-> dayOfSale])
    /\ UNCHANGED dayOfSale

DeleteDeal(l) ==
    /\ Live(l) /\ deal' = [deal EXCEPT ![l].at = "deleted"]
    /\ UNCHANGED <<steps, dayOfSale>>

NextDayOfSale == dayOfSale < LastMove /\ dayOfSale' = dayOfSale + 1 /\ UNCHANGED <<deal, steps>>

----------------------------------------------------------------------------
(***************************************************************************)
(* salesScope, over the days from .. to, of everybody or of one owner.     *)
(***************************************************************************)
StepsTo(stage, from, to, mine) ==
    {i \in DOMAIN steps : /\ steps[i].to = stage /\ from <= steps[i].day /\ steps[i].day <= to
                          /\ deal[steps[i].lead].owner \in Whose(mine)}

Decided(stage, from, to, mine) == Cardinality(StepsTo(stage, from, to, mine))

WonInWindow(l, from, to) ==
    \E i \in DOMAIN steps : /\ steps[i].lead = l /\ steps[i].to = "won"
                            /\ from <= steps[i].day /\ steps[i].day <= to

StillWon(from, to, mine) ==
    {l \in Deals : /\ Live(l) /\ deal[l].stage = "won" /\ deal[l].owner \in Whose(mine)
                   /\ WonInWindow(l, from, to)}

\* From the first of a lead's steps to the first that won it; none within a day.
FirstStep(l, stages) == Min({i \in DOMAIN steps : steps[i].lead = l /\ steps[i].to \in stages})
CycleOf(l) == steps[FirstStep(l, {"won"})].day - steps[FirstStep(l, DealStages)].day
Cycles(from, to, mine) ==
    {l \in Deals : /\ Live(l) /\ deal[l].owner \in Whose(mine) /\ WonInWindow(l, from, to)
                   /\ CycleOf(l) > 0}

Share(n, d) == IF d > 0 THEN {(20000 * n + d) \div (2 * d)} ELSE {}
WinRate(won, lost) == Share(won, won + lost)

\* Where the work came from, over every lead whatever its day.
BySource ==
    [s \in {deal[l].source : l \in {x \in Deals : Live(x)}} |->
        LET of == {l \in Deals : Live(l) /\ deal[l].source = s}
        IN  [won  |-> Cardinality({l \in of : deal[l].stage = "won"}),
             lost |-> Cardinality({l \in of : deal[l].stage = "lost"}),
             open |-> Cardinality({l \in of : deal[l].stage \notin {"won", "lost"}})]]

SalesScope(from, to, mine) ==
    LET won    == Decided("won", from, to, mine)
        worth  == SumFunctionOnSet(WorthOf, StillWon(from, to, mine))
        cycles == Cycles(from, to, mine)
    IN  [won      |-> won,
         lost     |-> Decided("lost", from, to, mine),
         open     |-> Cardinality({l \in Deals : /\ Live(l) /\ deal[l].stage \in OpenStages
                                                 /\ deal[l].owner \in Whose(mine)}),
         winRate  |-> WinRate(won, Decided("lost", from, to, mine)),
         dealSize |-> IF won > 0 THEN {<<worth, won>>} ELSE {},
         cycle    |-> IF cycles # {}
                         THEN {<<SumFunction([l \in cycles |-> CycleOf(l)]), Cardinality(cycles)>>}
                         ELSE {}]

\* How much a day: measured only if all that it is made of is.
Velocity(f) == f.winRate # {} /\ f.dealSize # {} /\ f.cycle # {}

----------------------------------------------------------------------------
SellingInit ==
    /\ deal = [l \in Deals |-> [at |-> "none", stage |-> "new", owner |-> NoBroker,
                                source |-> NoSource]]
    /\ steps = << >> /\ dayOfSale = 0

SellingNext ==
    \/ \E l \in Deals : NewDeal(l) \/ HandOver(l) \/ MoveDeal(l) \/ DeleteDeal(l)
    \/ NextDayOfSale

SellingSpec == SellingInit /\ [][SellingNext]_sellingVars

SellingTypeOK ==
    /\ deal \in [Deals -> DealRow] /\ dayOfSale \in 0 .. LastMove
    /\ \A i \in DOMAIN steps : steps[i] \in [lead : Deals, to : DealStages, day : 0 .. LastMove]

(***************************************************************************)
(* What salespeople are shown of their own is the agency's, cut between    *)
(* them; and the sources, with the one that is not recorded, are all the   *)
(* leads there are (salesScope).                                           *)
(***************************************************************************)
CutsAddUp ==
    \A from, to \in 0 .. LastMove :
        LET all   == SalesScope(from, to, "all")
            of(o) == SalesScope(from, to, o)
        IN  /\ SumFunction([o \in AllOwners |-> of(o).won]) = all.won
            /\ SumFunction([o \in AllOwners |-> of(o).lost]) = all.lost
            /\ SumFunction([o \in AllOwners |-> of(o).open]) = all.open
            /\ SumFunction([s \in DOMAIN BySource |->
                               BySource[s].won + BySource[s].lost + BySource[s].open])
                  = Cardinality({l \in Deals : Live(l)})

(***************************************************************************)
(* The wins counted are those of the deals that are valued, and as many,   *)
(* until a deal is reopened, won again or deleted: then a win is counted   *)
(* whose value is not, or twice.  Never is a value counted without a win;  *)
(* and a velocity is shown only of deals that took some time and were won. *)
(***************************************************************************)
ValuedMeansCounted ==
    \A from, to \in 0 .. LastMove, mine \in AllOwners \cup {"all"} :
        LET f    == SalesScope(from, to, mine)
            wins == StepsTo("won", from, to, mine)
            kept == StillWon(from, to, mine)
        IN  /\ Cardinality(kept) <= f.won
            /\ (\A i, k \in wins : steps[i].lead = steps[k].lead => i = k)
               /\ (\A i \in wins : deal[steps[i].lead].stage = "won" /\ Live(steps[i].lead))
                   => Cardinality(kept) = f.won
            /\ Velocity(f) => f.won > 0 /\ \A c \in f.cycle : c[1] >= c[2]

SalesHold == CutsAddUp /\ ValuedMeansCounted
=============================================================================
