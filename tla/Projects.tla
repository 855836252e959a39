------------------------------ MODULE Projects ------------------------------
(***************************************************************************)
(* Clients and their projects (client.service.ts, project.service.ts), and *)
(* the money recorded on them, which decides whether they can be deleted.  *)
(* A project is created under the lock of the company's subscription       *)
(* (planLimits.ts); everything else reads first and writes by id later.    *)
(* updateClient and updateProject write what is left out here: names,      *)
(* dates, status, value, and whose project it is.                          *)
(* deleteClient counts payments, not invoices, which are left out.         *)
(* The dated promises of a project, its milestones, come after it.         *)
(***************************************************************************)
EXTENDS Naturals, FiniteSets

CONSTANTS Clerks,            \* requests under way
          Clients, NoClient,
          Projects, NoProject,
          MaxProjects,       \* of the company's plan
          Plans, NoPlanYet,  \* what a project can be baselined at
          MaxRecords         \* bound: payments and expenses on file at once

ASSUME ProjectsAssumption ==
    /\ {NoClient, NoProject} \cap (Clients \cup Projects) = {}
    /\ NoPlanYet \notin Plans /\ MaxProjects \in Nat /\ MaxRecords \in Nat

VARIABLES client,     \* client[c]: "none", "here" or "deleted"
          project,    \* project[j]: a row of projects
          money,      \* payments and expenses, by client and project
          clerk,      \* clerk[p]: what request p has read and is about to write
          held,       \* whether a request holds the subscription's row lock
          crossing    \* ghost: clients and projects written or billed by an overtaken request

projectsVars == <<client, project, money, clerk, held, crossing>>

-----------------------------------------------------------------------------
Baselines   == Plans \cup {NoPlanYet}
ProjectRows == [at : {"none", "here", "deleted"}, baseline : Baselines]
NotStarted  == [at |-> "none", baseline |-> NoPlanYet]
Money       == [client : Clients \cup {NoClient}, project : Projects \cup {NoProject}]
Break       == [op |-> "none", client |-> NoClient, project |-> NoProject,
                baseline |-> NoPlanYet, stale |-> FALSE]

ProjectsInit ==
    /\ client = [c \in Clients |-> "none"]
    /\ project = [j \in Projects |-> NotStarted]
    /\ money = {}
    /\ clerk = [p \in Clerks |-> Break]
    /\ held = FALSE /\ crossing = {}

Live(j) == project[j].at = "here"
Used    == {j \in Projects : Live(j)}

Attend(p, r) ==
    /\ clerk[p] = Break /\ clerk' = [clerk EXCEPT ![p] = r]
    /\ UNCHANGED <<client, project, money, held, crossing>>

\* p has written about the client and the project of its request.
Attended(p) ==
    LET about(r) == {r.client, r.project} \ {NoClient, NoProject} IN
    /\ clerk' = [q \in Clerks |->
                    IF q = p THEN Break
                    ELSE [clerk[q] EXCEPT !.stale = @ \/ about(clerk[q]) \cap about(clerk[p]) # {}]]
    /\ crossing' = IF clerk[p].stale THEN crossing \cup about(clerk[p]) ELSE crossing

-----------------------------------------------------------------------------
CreateClient(c) ==
    /\ client[c] = "none"
    /\ client' = [client EXCEPT ![c] = "here"]
    /\ UNCHANGED <<project, money, clerk, held, crossing>>

DeleteClient(p, c) ==
    /\ client[c] = "here" /\ ~\E x \in money : x.client = c
    /\ Attend(p, [Break EXCEPT !.op = "drop client", !.client = c])

\* assertOwnClient and assertProjectAvailable up to the lock.
CreateProject(p, c, j) ==
    /\ client[c] = "here" /\ project[j] = NotStarted
    /\ Attend(p, [Break EXCEPT !.op = "create", !.project = j])

Room == Cardinality(Used) < MaxProjects

Admit(p) ==
    LET r == clerk[p] IN
    /\ r.op = "create" /\ ~held
    /\ Room
    /\ held' = TRUE
    /\ clerk' = [clerk EXCEPT ![p].op = "insert"]
    /\ UNCHANGED <<client, project, money, crossing>>

InsertProject(p) ==
    LET r == clerk[p] IN
    /\ r.op = "insert"
    /\ project' = [project EXCEPT ![r.project].at = "here"]
    /\ held' = FALSE
    /\ Attended(p)
    /\ UNCHANGED <<client, money>>

\* The lock waits too long, the limit is reached, or the code is taken.
Refused(p) ==
    /\ clerk[p].op # "none"
    /\ clerk' = [clerk EXCEPT ![p] = Break]
    /\ held' = (held /\ clerk[p].op # "insert")
    /\ UNCHANGED <<client, project, money, crossing>>

\* Mutant of Unbaselined: a baseline is replaced without being asked to.
Whenever(j, asked) == TRUE

Unbaselined(j, asked) == project[j].baseline = NoPlanYet \/ asked

SetBaseline(p, j) ==
    /\ Live(j)
    /\ \E baseline \in Plans, asked \in BOOLEAN :
          /\ Unbaselined(j, asked)
          /\ Attend(p, [Break EXCEPT !.op = IF asked THEN "baseline again" ELSE "baseline",
                                      !.project = j, !.baseline = baseline])

\* Mutant of HasMoney: only payments are counted.
HasPayments(j) == \E x \in money : x.project = j /\ x.client # NoClient

HasMoney(j) == \E x \in money : x.project = j

DeleteProject(p, j) ==
    Live(j) /\ ~HasMoney(j) /\ Attend(p, [Break EXCEPT !.op = "drop project", !.project = j])

\* A payment of c, or an expense when c is NoClient; j is NoProject when it names none.
RecordMoney(p, c, j) ==
    /\ c # NoClient \/ j # NoProject
    /\ Cardinality(money) < MaxRecords
    /\ c # NoClient => client[c] = "here"
    /\ j # NoProject => Live(j)
    /\ Attend(p, [Break EXCEPT !.op = "money", !.client = c, !.project = j])

RemoveMoney(x) ==
    /\ x \in money
    /\ money' = money \ {x}
    /\ UNCHANGED <<client, project, clerk, held, crossing>>

-----------------------------------------------------------------------------
Write(p) ==
    LET r == clerk[p] IN
    /\ r.op \in {"drop client", "drop project", "baseline", "baseline again", "money"}
    /\ client' = IF r.op = "drop client" THEN [client EXCEPT ![r.client] = "deleted"] ELSE client
    /\ project' =
          CASE r.op = "drop project" -> [project EXCEPT ![r.project].at = "deleted"]
            [] r.op \in {"baseline", "baseline again"} ->
                                        [project EXCEPT ![r.project].baseline = r.baseline]
            [] OTHER                 -> project
    /\ money' = IF r.op = "money" THEN money \cup {[client |-> r.client, project |-> r.project]}
                ELSE money
    /\ Attended(p)
    /\ UNCHANGED held

ProjectsNext ==
    \/ \E c \in Clients : CreateClient(c)
    \/ \E p \in Clerks, c \in Clients : DeleteClient(p, c)
    \/ \E p \in Clerks, c \in Clients, j \in Projects :
          CreateProject(p, c, j)
    \/ \E p \in Clerks, j \in Projects : SetBaseline(p, j) \/ DeleteProject(p, j)
    \/ \E p \in Clerks, c \in Clients \cup {NoClient}, j \in Projects \cup {NoProject} :
          RecordMoney(p, c, j)
    \/ \E x \in money : RemoveMoney(x)
    \/ \E p \in Clerks : Admit(p) \/ InsertProject(p) \/ Write(p) \/ Refused(p)

ProjectsSpec == ProjectsInit /\ [][ProjectsNext]_projectsVars

-----------------------------------------------------------------------------
ProjectsTypeOK ==
    /\ client \in [Clients -> {"none", "here", "deleted"}]
    /\ project \in [Projects -> ProjectRows]
    /\ money \subseteq Money
    /\ held \in BOOLEAN /\ crossing \subseteq Clients \cup Projects
    /\ clerk \in [Clerks -> [op : {"none", "create", "insert", "baseline",
                                   "baseline again", "drop client", "drop project", "money"},
                             client : Clients \cup {NoClient}, project : Projects \cup {NoProject},
                             baseline : Baselines,
                             stale : BOOLEAN]]

(***************************************************************************)
(* Two requests cannot both take the last project of the plan              *)
(* (planLimits.ts).                                                        *)
(***************************************************************************)
ProjectsNeverOversold == Cardinality(Used) <= MaxProjects

(***************************************************************************)
(* Deleting a project or a client "would silently detach its financial     *)
(* history": a deleted one has no payment and no expense on it, unless one *)
(* was recorded while it was being deleted.                                *)
(***************************************************************************)
DeletedIsClearUnlessRaced ==
    \A x \in money :
        /\ x.project # NoProject /\ x.project \notin crossing => project[x.project].at # "deleted"
        /\ x.client # NoClient /\ x.client \notin crossing => client[x.client] # "deleted"

(***************************************************************************)
(* "Re-baselining must be asked for explicitly": the original that an      *)
(* overrun is measured against is replaced only on demand, unless two      *)
(* requests baselined the project at once.                                 *)
(***************************************************************************)
BaselineStaysUnlessRaced ==
    [][\A j \in Projects :
          project[j].baseline \notin {NoPlanYet, project'[j].baseline} =>
              \E p \in Clerks : clerk[p].op = "baseline again" \/ clerk[p].stale]_projectsVars


-----------------------------------------------------------------------------
(***************************************************************************)
(* Dated promises of a project (milestone.service.ts).  Each handler reads *)
(* the milestone, decides on what it read, and writes by id.               *)
(***************************************************************************)

CONSTANTS Managers,          \* requests under way
          Milestones, NoMilestone,
          Today, LastDay,    \* dates are 0 .. LastDay, and all of this happens on Today
          NoDay

ASSUME MilestoneAssumption ==
    /\ NoMilestone \notin Milestones /\ NoDay \notin Nat
    /\ Today \in Nat /\ LastDay \in Nat /\ Today <= LastDay

VARIABLES milestone,   \* milestone[m]: a row of project_milestones
          manager,     \* manager[p]: the row that request p is about to leave of its milestone
          promised,    \* ghost: promised[m], the due date that m was submitted against
          overtaken    \* ghost: milestones written by a request that another had overtaken

milestoneVars == <<milestone, manager, promised, overtaken>>

-----------------------------------------------------------------------------
Calendar == 0 .. LastDay
MaybeDay == Calendar \cup {NoDay}
MilestoneRows == [due : MaybeDay, submitted : MaybeDay, accepted : MaybeDay, deleted : BOOLEAN]
NotPromised == [due |-> NoDay, submitted |-> NoDay, accepted |-> NoDay, deleted |-> FALSE]
NoFields == [field \in {} |-> NoDay]

\* What a write sets: a record with the columns of its update.
Writes == {NoFields} \cup [due : Calendar] \cup [submitted : Calendar] \cup [accepted : Calendar]
          \cup [submitted : {NoDay}, accepted : {NoDay}] \cup [deleted : {TRUE}]

Unoccupied == [of |-> NoMilestone, sets |-> NoFields, stale |-> FALSE]

MilestoneInit ==
    /\ milestone = [m \in Milestones |-> NotPromised]
    /\ manager = [p \in Managers |-> Unoccupied]
    /\ promised = [m \in Milestones |-> NoDay]
    /\ overtaken = {}

Owned(m) == milestone[m].due # NoDay /\ ~milestone[m].deleted   \* findOwned

Submitted(m) == milestone[m].submitted # NoDay

Resolve(p, m, sets) ==
    /\ manager[p] = Unoccupied /\ Owned(m)
    /\ manager' = [manager EXCEPT ![p] = [of |-> m, sets |-> sets, stale |-> FALSE]]
    /\ UNCHANGED <<milestone, promised, overtaken>>

-----------------------------------------------------------------------------
CreateMilestone(m) ==
    /\ milestone[m] = NotPromised
    /\ \E due \in Calendar : milestone' = [milestone EXCEPT ![m].due = due]
    /\ UNCHANGED <<manager, promised, overtaken>>

\* Title, description and sort_order, which can always change, are left out.
UpdateMilestone(p, m) ==
    ~Submitted(m) /\ \E due \in Calendar : Resolve(p, m, [due |-> due])

SubmitMilestone(p, m) ==
    ~Submitted(m) /\ \E day \in 0 .. Today : Resolve(p, m, [submitted |-> day])

AcceptMilestone(p, m) ==
    /\ Submitted(m) /\ milestone[m].accepted = NoDay
    /\ \E day \in milestone[m].submitted .. LastDay : Resolve(p, m, [accepted |-> day])

\* Mutant of Reopened: the acceptance stays.
OnlyTheSubmission(m) == [submitted |-> NoDay, accepted |-> milestone[m].accepted]

Reopened(m) == [submitted |-> NoDay, accepted |-> NoDay]

ReopenMilestone(p, m) == Submitted(m) /\ Resolve(p, m, Reopened(m))

DeleteMilestone(p, m) == Resolve(p, m, [deleted |-> TRUE])

WriteMilestone(p) ==
    LET r == manager[p]
        m == r.of IN
    /\ r # Unoccupied
    /\ milestone' = [milestone EXCEPT ![m] =
                        [field \in DOMAIN @ |->
                            IF field \in DOMAIN r.sets THEN r.sets[field] ELSE @[field]]]
    /\ promised' = IF "submitted" \in DOMAIN r.sets
                   THEN [promised EXCEPT ![m] = milestone[m].due] ELSE promised
    /\ overtaken' = IF r.stale THEN overtaken \cup {m} ELSE overtaken
    /\ manager' = [q \in Managers |->
                      IF q = p THEN Unoccupied
                      ELSE [manager[q] EXCEPT !.stale = @ \/ manager[q].of = m]]

MilestoneNext ==
    \/ \E m \in Milestones : CreateMilestone(m)
    \/ \E p \in Managers, m \in Milestones :
          \/ UpdateMilestone(p, m) \/ SubmitMilestone(p, m) \/ AcceptMilestone(p, m)
          \/ ReopenMilestone(p, m) \/ DeleteMilestone(p, m)
    \/ \E p \in Managers : WriteMilestone(p)

MilestoneSpec == MilestoneInit /\ [][MilestoneNext]_milestoneVars

-----------------------------------------------------------------------------
MilestoneTypeOK ==
    /\ milestone \in [Milestones -> MilestoneRows]
    /\ manager \in [Managers -> [of : Milestones \cup {NoMilestone}, sets : Writes,
                                 stale : BOOLEAN]]
    /\ promised \in [Milestones -> MaybeDay]
    /\ overtaken \subseteq Milestones

(***************************************************************************)
(* "No milestone is ever accepted without being delivered", nor before it  *)
(* was, and the date it was submitted against cannot be moved afterwards,  *)
(* which would make a missed one on time.  Both are decided on a row read  *)
(* before the write: two requests that overlap can break them.             *)
(***************************************************************************)
DeliveryStaysDatedUnlessRaced ==
    \A m \in Milestones \ overtaken :
        /\ milestone[m].accepted # NoDay =>
              Submitted(m) /\ milestone[m].accepted >= milestone[m].submitted
        /\ Submitted(m) => milestone[m].due = promised[m]
=============================================================================
