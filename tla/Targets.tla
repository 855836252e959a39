------------------------------ MODULE Targets ------------------------------
(***************************************************************************)
(* The numbers somebody committed to (kpiTarget/kpiTarget.service.ts).  A  *)
(* target is a person's or the whole agency's; the index over its identity *)
(* takes no two nulls for the same, so it does not hold for an agency, and *)
(* it counts deleted rows too.  Months are counted from January.           *)
(***************************************************************************)
EXTENDS Naturals, FiniteSets

CONSTANTS Planners,               \* requests under way
          Goals, NoGoal,          \* rows of kpi_targets
          Owners, Agency,         \* whose a target is
          Months                  \* the months a period may start in

ASSUME TargetsAssumption ==
    Agency \in Owners /\ NoGoal \notin Goals /\ Months # {} /\ Months \subseteq 0 .. 11

VARIABLES goal,        \* goal[g]: a row
          planner,     \* planner[p]: what request p has checked and is about to write
          clashed,     \* ghost: rows created by a request that had checked before another's
          turnedAway   \* ghost: one found free was refused, and none had been deleted

targetsVars == <<goal, planner, clashed, turnedAway>>

-----------------------------------------------------------------------------
Spans == {"month", "quarter", "year"}
GoalIds == [whose : Owners, metric : {"percentage", "amount"}, span : Spans, from : Months]
GoalRows == [is : {"new", "set", "deleted"}, id : GoalIds, over : BOOLEAN]
NewGoal == [is |-> "new", over |-> FALSE,
            id |-> [whose |-> Agency, metric |-> "amount", span |-> "month",
                    from |-> CHOOSE m \in Months : TRUE]]
Resting == [op |-> "none", on |-> NoGoal, row |-> NewGoal, stale |-> FALSE]

TargetsInit ==
    /\ goal = [g \in Goals |-> NewGoal]
    /\ planner = [p \in Planners |-> Resting]
    /\ clashed = {} /\ turnedAway = FALSE

SetGoals == {g \in Goals : goal[g].is = "set"}

\* assertPeriodStart
StartsRight(span, from, day) ==
    /\ day = 1
    /\ span = "quarter" => from % 3 = 0
    /\ span = "year" => from = 0

\* assertValue: a percentage over a hundred is a typo.
Sane(metric, over) == metric = "percentage" => ~over

Plan(p, r) ==
    /\ planner[p] = Resting /\ planner' = [planner EXCEPT ![p] = r]
    /\ UNCHANGED <<goal, clashed, turnedAway>>

CreateTarget(p, g) ==
    /\ goal[g].is = "new"
    /\ \E id \in GoalIds, over \in BOOLEAN, day \in {1, 15} :
          /\ StartsRight(id.span, id.from, day) /\ Sane(id.metric, over)
          /\ \A o \in SetGoals : goal[o].id # id
          /\ Plan(p, [Resting EXCEPT !.op = "create", !.on = g,
                        !.row = [is |-> "set", id |-> id, over |-> over]])

UpdateTarget(p, g) ==
    /\ g \in SetGoals
    /\ \E over \in BOOLEAN :
          /\ Sane(goal[g].id.metric, over)
          /\ Plan(p, [Resting EXCEPT !.op = "update", !.on = g, !.row.over = over])

DeleteTarget(p, g) == g \in SetGoals /\ Plan(p, [Resting EXCEPT !.op = "delete", !.on = g])

\* @@unique([organization_id, user_id, metric, period, period_start])
IndexTakes(id) == id.whose = Agency \/ \A g \in Goals : goal[g].is # "new" => goal[g].id # id

WasDeleted(id) == \E g \in Goals : goal[g].is = "deleted" /\ goal[g].id = id

NewGoalRow(r) ==
    CASE r.op = "create" -> r.row
      [] r.op = "update" -> [goal[r.on] EXCEPT !.over = r.row.over]
      [] OTHER -> [goal[r.on] EXCEPT !.is = "deleted"]

WriteTarget(p) ==
    LET r == planner[p] IN
    /\ r.op # "none" /\ (r.op = "create" => goal[r.on].is = "new" /\ IndexTakes(r.row.id))
    /\ goal' = [goal EXCEPT ![r.on] = NewGoalRow(r)]
    /\ clashed' = IF r.stale THEN clashed \cup {r.on} ELSE clashed
    /\ planner' = [q \in Planners |->
                      IF q = p THEN Resting
                      ELSE [planner[q] EXCEPT !.stale =
                               @ \/ (r.op = "create" /\ planner[q].op = "create")]]
    /\ UNCHANGED turnedAway

TargetRefused(p) ==
    LET r == planner[p] IN
    /\ r.op = "create" /\ ~(goal[r.on].is = "new" /\ IndexTakes(r.row.id))
    /\ planner' = [planner EXCEPT ![p] = Resting]
    /\ turnedAway' = (turnedAway \/ (~r.stale /\ ~WasDeleted(r.row.id)))
    /\ UNCHANGED <<goal, clashed>>

TargetsNext ==
    \/ \E p \in Planners, g \in Goals : CreateTarget(p, g) \/ UpdateTarget(p, g) \/ DeleteTarget(p, g)
    \/ \E p \in Planners : WriteTarget(p) \/ TargetRefused(p)

TargetsSpec == TargetsInit /\ [][TargetsNext]_targetsVars

-----------------------------------------------------------------------------
TargetsTypeOK ==
    /\ goal \in [Goals -> GoalRows]
    /\ planner \in [Planners -> [op : {"none", "create", "update", "delete"},
                                 on : Goals \cup {NoGoal}, row : GoalRows, stale : BOOLEAN]]
    /\ clashed \subseteq Goals /\ turnedAway \in BOOLEAN

Length(span) == CASE span = "month" -> 1 [] span = "quarter" -> 3 [] OTHER -> 12
MonthsOf(id) == id.from .. id.from + Length(id.span) - 1

\* One verdict per number: a person's even when two requests race.
OneVerdict ==
    \A g, h \in SetGoals :
       g # h /\ goal[g].id = goal[h].id =>
          goal[g].id.whose = Agency /\ {g, h} \cap clashed # {}

\* Of two periods, one is in the other or they have no month in common.
PeriodsNest ==
    \A g, h \in SetGoals :
       LET a == MonthsOf(goal[g].id) b == MonthsOf(goal[h].id) IN
       a \subseteq b \/ b \subseteq a \/ a \cap b = {}

\* A target of a hundred and fifty percent makes every attainment meaningless.
NoTypo == \A g \in SetGoals : Sane(goal[g].id.metric, goal[g].over)

(***************************************************************************)
(* Every number has one target to be judged by: periods nest, and only the *)
(* agency's own targets can be set twice, of which one was created by a    *)
(* request that had checked before another target was.                     *)
(* What the check finds free is free, unless a deleted target was there.   *)
(***************************************************************************)
TargetsScoreUnlessRaced == OneVerdict /\ PeriodsNest /\ NoTypo /\ ~turnedAway
=============================================================================
