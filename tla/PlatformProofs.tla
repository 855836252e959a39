--------------------------- MODULE PlatformProofs ---------------------------
(***************************************************************************)
(* The platform and the server beneath it, whatever the numbers of         *)
(* operators, companies, authors, connections, sockets and days.  Each     *)
(* part has an invariant of its own; the last section takes them together, *)
(* for the behaviours MCPlatform explores part by part.                    *)
(***************************************************************************)
EXTENDS MCPlatform, FiniteSetTheorems, TLAPS

-----------------------------------------------------------------------------
(***************************************************************************)
(* The platform team: somebody who can manage it remains, and whoever was  *)
(* removed stays out.  What makes both inductive is what a request may     *)
(* rely on for as long as nobody wrote since it read: SeenHolds.           *)
(***************************************************************************)

Manager(o) == Active(o) /\ operator[o].manages

\* What the handler of p saw when it decided, and still holds.
Seen(p) ==
    LET r == console[p] IN
    /\ r.of \in Operators
    /\ r.op = "approve" => ~operator[r.of].deleted
    /\ r.op = "permissions" /\ ~r.manages => \E o \in Operators \ {r.of} : Manager(o)
    /\ r.op = "remove" => \E o \in Operators \ {r.of} : Manager(o)

SeenHolds == ~crossed => \A p \in Consoles : console[p].op # "none" /\ ~console[p].stale => Seen(p)

TeamInv ==
    /\ OperatorsTypeOK
    /\ ManagerRemainsUnlessRaced
    /\ RemovedStaysOutUnlessRaced
    /\ SeenHolds

-----------------------------------------------------------------------------
\* The seeded operator manages the team, and nobody has asked for anything.
LEMMA TeamInit == OperatorsInit => TeamInv
<1> SUFFICES ASSUME OperatorsInit PROVE TeamInv
    OBVIOUS
<1> USE OperatorsAssumption DEF OperatorsInit, NotJoined, Resting
<1>1. OperatorsTypeOK
    BY DEF OperatorsTypeOK, OperatorRows
<1>2. ManagerRemainsUnlessRaced
    <2>1. Active(Seeded) /\ operator[Seeded].manages
        BY DEF Active, Present
    <2> QED BY <2>1 DEF ManagerRemainsUnlessRaced
<1>3. RemovedStaysOutUnlessRaced
    BY DEF RemovedStaysOutUnlessRaced
<1>4. SeenHolds
    BY DEF SeenHolds
<1> QED BY <1>1, <1>2, <1>3, <1>4 DEF TeamInv

-----------------------------------------------------------------------------
\* A decision writes nothing: what stood stands, and what was seen is of now.
LEMMA DecideKeeps ==
    ASSUME TeamInv, NEW p \in Consoles, NEW o \in Operators, NEW manages \in BOOLEAN,
           NEW op \in {"approve", "permissions", "remove"}, Decide(p, op, o, manages),
           op = "approve" => ~operator[o].deleted,
           ~crossed /\ (op = "remove" \/ (op = "permissions" /\ ~manages))
               => \E q \in Operators \ {o} : Manager(q)
    PROVE  TeamInv'
<1> USE DEF TeamInv, Decide
<1>1. OperatorsTypeOK'
    BY DEF OperatorsTypeOK
<1>2. ManagerRemainsUnlessRaced'
    BY DEF ManagerRemainsUnlessRaced, Active, Present
<1>3. RemovedStaysOutUnlessRaced'
    BY DEF RemovedStaysOutUnlessRaced
<1>4. SeenHolds'
    <2> SUFFICES ASSUME ~crossed', NEW q \in Consoles, (console[q].op # "none")', (~console[q].stale)'
                 PROVE  Seen(q)'
        BY DEF SeenHolds
    <2>1. CASE q = p
        <3>1. console'[q] = [op |-> op, of |-> o, manages |-> manages, stale |-> FALSE]
            BY <2>1 DEF OperatorsTypeOK
        <3> QED BY <3>1 DEF Seen, Manager, Active, Present
    <2>2. CASE q # p
        <3>1. console'[q] = console[q]
            BY <2>2 DEF OperatorsTypeOK
        <3>2. Seen(q)
            BY <3>1 DEF SeenHolds
        <3> QED BY <3>1, <3>2 DEF Seen, Manager, Active, Present
    <2> QED BY <2>1, <2>2
<1> QED BY <1>1, <1>2, <1>3, <1>4

\* Who may manage the team and was not removed is one who manages it.
LEMMA CallerManages ==
    ASSUME TeamInv, ~crossed, NEW o \in Operators, MayManage(o)
    PROVE  Manager(o)
<1>1. operator[o] \in OperatorRows
    BY DEF TeamInv, OperatorsTypeOK
<1> QED BY <1>1 DEF TeamInv, RemovedStaysOutUnlessRaced, MayManage, Manager, Active, Present, OperatorRows

-----------------------------------------------------------------------------
\* A newcomer is pending and takes nobody's place.
LEMMA JoinKeeps ==
    ASSUME TeamInv, NEW n \in Operators, JoinPlatform(n)
    PROVE  TeamInv'
<1> USE DEF TeamInv, JoinPlatform
<1>1. \A o \in Operators : Manager(o) => Manager(o)'
    BY DEF OperatorsTypeOK, Manager, Active, Present, NotJoined
<1>2. OperatorsTypeOK'
    BY DEF OperatorsTypeOK, OperatorRows
<1>3. ManagerRemainsUnlessRaced'
    BY <1>1 DEF ManagerRemainsUnlessRaced, Manager
<1>4. RemovedStaysOutUnlessRaced'
    BY DEF RemovedStaysOutUnlessRaced, OperatorsTypeOK
<1>5. SeenHolds'
    <2>1. \A o \in Operators : ~operator[o].deleted => ~operator'[o].deleted
        BY DEF OperatorsTypeOK
    <2> SUFFICES ASSUME ~crossed', NEW q \in Consoles, (console[q].op # "none")', (~console[q].stale)'
                 PROVE  Seen(q)'
        BY DEF SeenHolds
    <2>2. Seen(q)
        BY DEF SeenHolds
    <2> QED BY <1>1, <2>1, <2>2 DEF Seen
<1> QED BY <1>2, <1>3, <1>4, <1>5

-----------------------------------------------------------------------------
\* What an approval, and permissions to manage, leave of a row.
LEMMA RowWritten ==
    ASSUME NEW row \in OperatorRows
    PROVE  /\ [row EXCEPT !.status = "active"].status = "active"
           /\ [row EXCEPT !.status = "active"].deleted = row.deleted
           /\ [row EXCEPT !.status = "active"].manages = row.manages
           /\ [row EXCEPT !.manages = TRUE].status = row.status
           /\ [row EXCEPT !.manages = TRUE].deleted = row.deleted
           /\ [row EXCEPT !.manages = TRUE].manages = TRUE
    BY DEF OperatorRows

-----------------------------------------------------------------------------
\* The write: unless it was overtaken, what its handler saw still holds.
LEMMA WriteKeeps ==
    ASSUME TeamInv, NEW p \in Consoles, WriteOperator(p)
    PROVE  TeamInv'
<1> DEFINE r == console[p]
<1> USE DEF TeamInv, WriteOperator
<1>1. r \in [op : {"none", "approve", "permissions", "remove"}, of : Operators \cup {NoOperator},
             manages : BOOLEAN, stale : BOOLEAN]
    BY DEF OperatorsTypeOK
<1>2. OperatorsTypeOK'
    <2> DEFINE row == CASE r.op = "approve"     -> [operator[r.of] EXCEPT !.status = "active"]
                        [] r.op = "permissions" -> [operator[r.of] EXCEPT !.manages = r.manages]
                        [] r.op = "remove"      -> [operator[r.of] EXCEPT !.status = "suspended",
                                                                          !.deleted = TRUE]
    <2>a. operator' = [operator EXCEPT ![r.of] = row]
        OBVIOUS
    <2>b. ASSUME r.of \in Operators PROVE row \in OperatorRows
        <3>1. operator[r.of] \in OperatorRows /\ r.op \in {"approve", "permissions", "remove"}
            BY <1>1, <2>b DEF OperatorsTypeOK
        <3>2. CASE r.op = "approve"
            BY <3>1, <3>2 DEF OperatorRows
        <3>3. CASE r.op = "permissions"
            BY <1>1, <3>1, <3>3 DEF OperatorRows
        <3>4. CASE r.op = "remove"
            BY <3>1, <3>4 DEF OperatorRows
        <3> QED BY <3>1, <3>2, <3>3, <3>4
    <2> HIDE DEF row
    <2>1. operator' \in [Operators -> OperatorRows]
        BY <2>a, <2>b DEF OperatorsTypeOK
    <2>2. console' \in [Consoles -> [op : {"none", "approve", "permissions", "remove"},
                                     of : Operators \cup {NoOperator}, manages : BOOLEAN,
                                     stale : BOOLEAN]]
        <3>1. \A q \in Consoles :
                 [console[q] EXCEPT !.stale = console[q].op # "none"] \in
                    [op : {"none", "approve", "permissions", "remove"},
                     of : Operators \cup {NoOperator}, manages : BOOLEAN, stale : BOOLEAN]
            BY DEF OperatorsTypeOK
        <3> QED BY <3>1 DEF Resting
    <2> QED BY <1>1, <2>1, <2>2 DEF OperatorsTypeOK
<1>3. ASSUME ~crossed' PROVE ~crossed /\ Seen(p)
    BY <1>1, <1>3 DEF SeenHolds
<1>4. \A o \in Operators : o # r.of => operator'[o] = operator[o]
    BY DEF OperatorsTypeOK
<1>5. \A o \in Operators : o # r.of /\ Manager(o) => Manager(o)'
    BY <1>4 DEF Manager, Active, Present
<1>6. ASSUME ~crossed' PROVE \E o \in Operators : Manager(o)'
    <2>1. r.of \in Operators /\ operator[r.of] \in OperatorRows
        BY <1>3, <1>6 DEF Seen, OperatorsTypeOK
    <2>2. PICK m \in Operators : Manager(m)
        BY <1>3, <1>6 DEF ManagerRemainsUnlessRaced, Manager
    <2>3. CASE r.op = "approve"
        <3>1. operator'[r.of] = [operator[r.of] EXCEPT !.status = "active"]
            BY <2>1, <2>3 DEF OperatorsTypeOK
        <3>2. ASSUME m = r.of PROVE Manager(m)'
            <4>1. /\ operator'[m].status = "active" /\ operator'[m].deleted = operator[m].deleted
                  /\ operator'[m].manages = operator[m].manages
                BY ONLY <2>1, <3>1, <3>2, RowWritten
            <4> QED BY <2>2, <4>1 DEF Manager, Active, Present
        <3> QED BY <1>5, <2>2, <3>2
    <2>4. CASE r.op = "permissions" /\ r.manages
        <3>1. operator'[r.of] = [operator[r.of] EXCEPT !.manages = TRUE]
            BY <2>1, <2>4 DEF OperatorsTypeOK
        <3>2. ASSUME m = r.of PROVE Manager(m)'
            <4>1. /\ operator'[m].status = operator[m].status /\ operator'[m].deleted = operator[m].deleted
                  /\ operator'[m].manages = TRUE
                BY ONLY <2>1, <3>1, <3>2, RowWritten
            <4> QED BY <2>2, <4>1 DEF Manager, Active, Present
        <3> QED BY <1>5, <2>2, <3>2
    <2>5. CASE r.op = "remove" \/ (r.op = "permissions" /\ ~r.manages)
        BY <1>3, <1>5, <1>6, <2>5 DEF Seen
    <2> QED BY <1>1, <2>3, <2>4, <2>5
<1>7. ManagerRemainsUnlessRaced'
    BY <1>6 DEF ManagerRemainsUnlessRaced, Manager
<1>8. RemovedStaysOutUnlessRaced'
    <2> SUFFICES ASSUME ~crossed', NEW o \in Operators, operator'[o].deleted
                 PROVE  operator'[o].status # "active"
        BY DEF RemovedStaysOutUnlessRaced
    <2>1. CASE o # r.of
        BY <1>3, <1>4, <2>1 DEF RemovedStaysOutUnlessRaced
    <2>2. CASE o = r.of
        <3>1. operator[o] \in OperatorRows
            BY DEF OperatorsTypeOK
        <3>2. operator'[o] = CASE r.op = "approve"     -> [operator[o] EXCEPT !.status = "active"]
                               [] r.op = "permissions" -> [operator[o] EXCEPT !.manages = r.manages]
                               [] r.op = "remove"      -> [operator[o] EXCEPT !.status = "suspended",
                                                                              !.deleted = TRUE]
            BY <2>2 DEF OperatorsTypeOK
        <3>3. operator[o].deleted => operator[o].status # "active"
            BY <1>3 DEF RemovedStaysOutUnlessRaced
        <3>4. r.op = "approve" => ~operator[o].deleted
            BY <1>3, <2>2 DEF Seen
        <3> QED BY <1>1, <3>1, <3>2, <3>3, <3>4 DEF OperatorRows
    <2> QED BY <2>1, <2>2
<1>9. SeenHolds'
    <2>1. \A q \in Consoles : console'[q].op # "none" => console'[q].stale
        BY DEF Resting, OperatorsTypeOK
    <2> QED BY <2>1 DEF SeenHolds
<1> QED BY <1>2, <1>7, <1>8, <1>9

-----------------------------------------------------------------------------
\* One step of the team keeps what the last one left.
LEMMA TeamStep == TeamInv /\ [OperatorsNext]_operatorVars => TeamInv'
<1> SUFFICES ASSUME TeamInv, [OperatorsNext]_operatorVars PROVE TeamInv'
    OBVIOUS
<1>1. ASSUME NEW o \in Operators, JoinPlatform(o) PROVE TeamInv'
    BY <1>1, JoinKeeps
<1>2. ASSUME NEW p \in Consoles, NEW o \in Operators, ApproveAdmin(p, o) PROVE TeamInv'
    <2>1. Decide(p, "approve", o, FALSE) /\ ~operator[o].deleted
        BY <1>2 DEF ApproveAdmin, Present
    <2> QED BY <2>1, DecideKeeps
<1>3. ASSUME NEW p \in Consoles, NEW o \in Operators, SetPermissions(p, o) PROVE TeamInv'
    <2>1. PICK manages \in BOOLEAN : /\ ~manages => OthersWhoManage(o) # {}
                                     /\ Decide(p, "permissions", o, manages)
        BY <1>3 DEF SetPermissions
    <2>2. ~manages => \E q \in Operators \ {o} : Manager(q)
        BY <2>1 DEF OthersWhoManage, Manager
    <2> QED BY <2>1, <2>2, DecideKeeps
<1>4. ASSUME NEW p \in Consoles, NEW o \in Operators, RemoveAdmin(p, o) PROVE TeamInv'
    <2>1. /\ \E caller \in Operators \ {o} : MayManage(caller)
          /\ Decide(p, "remove", o, FALSE)
        BY <1>4 DEF RemoveAdmin
    <2>2. ~crossed => \E q \in Operators \ {o} : Manager(q)
        BY <2>1, CallerManages
    <2> QED BY <2>1, <2>2, DecideKeeps
<1>5. ASSUME NEW p \in Consoles, WriteOperator(p) PROVE TeamInv'
    BY <1>5, WriteKeeps
<1>6. CASE UNCHANGED operatorVars
    BY <1>6 DEF operatorVars, TeamInv, OperatorsTypeOK, ManagerRemainsUnlessRaced,
                RemovedStaysOutUnlessRaced, SeenHolds, Seen, Manager, Active, Present
<1> QED BY <1>1, <1>2, <1>3, <1>4, <1>5, <1>6 DEF OperatorsNext

\* The strengthened invariant holds throughout.
LEMMA TeamAlways == OperatorsSpec => []TeamInv
<1>1. OperatorsInit => TeamInv
    BY TeamInit
<1>2. TeamInv /\ [OperatorsNext]_operatorVars => TeamInv'
    BY TeamStep
<1> QED BY <1>1, <1>2, PTL DEF OperatorsSpec

(***************************************************************************)
(* Whatever the team and however many requests: unless two changes         *)
(* overlapped, somebody who can manage the team remains                    *)
(* (platformAdmin.service.ts) and whoever was removed cannot sign in       *)
(* again, although approving does not look at what happened meanwhile.     *)
(***************************************************************************)
THEOREM TeamIsKept == OperatorsSpec => []TeamKeptUnlessRaced
<1>1. TeamInv => TeamKeptUnlessRaced
    BY DEF TeamInv, TeamKeptUnlessRaced
<1> QED BY <1>1, TeamAlways, PTL

\* Every variable of the team keeps its type.
THEOREM TeamTypes == OperatorsSpec => []OperatorsTypeOK
<1>1. TeamInv => OperatorsTypeOK
    BY DEF TeamInv
<1> QED BY <1>1, TeamAlways, PTL

-----------------------------------------------------------------------------
(***************************************************************************)
(* For whatever grace, trials and nights: the sweep cuts off nobody it has *)
(* not warned.  The invariant is of the company, not of the sweep: whoever *)
(* is past due beyond the grace was warned, or was found too late.  It     *)
(* reaches the second UPDATE because no midnight falls into a sweep.       *)
(***************************************************************************)

Told == \A c \in Companies :
            sub[c].status = "past_due" /\ Overdue(c, today) => c \in warned \cup late

SweptToday == \A s \in Sweepers : sweep[s] # NoDate => sweep[s] = today

WarnInv == SubscriptionTypeOK /\ Told /\ SweptToday

-----------------------------------------------------------------------------
\* What is beyond grace is overdue: the two UPDATEs ask for the same dates.
LEMMA BeyondIsOverdue ==
    ASSUME NEW c \in Companies, NEW now, BeyondGrace(c, now)
    PROVE  Overdue(c, now)
    BY DEF BeyondGrace, Overdue, Before

\* Nobody has a subscription yet.
LEMMA WarnBegins == SubscriptionInit => WarnInv
    BY SubscriptionAssumption
    DEF SubscriptionInit, WarnInv, SubscriptionTypeOK, Told, SweptToday, Unprovisioned, SubRows,
        Days, Dates

\* Somebody signs up: nobody begins past due.
LEMMA ProvideKeeps ==
    ASSUME WarnInv, NEW c \in Companies, Provide(c)
    PROVE  WarnInv'
<1> USE DEF WarnInv, Provide
<1>1. PICK trialDays \in Trials : today + trialDays \in Days /\ sub' = [sub EXCEPT ![c] = Started(trialDays)]
    OBVIOUS
<1>2. Started(trialDays) \in SubRows /\ Started(trialDays).status # "past_due"
    BY <1>1 DEF Started, SubRows, Dates, Standing
<1>3. SubscriptionTypeOK'
    BY <1>1, <1>2 DEF SubscriptionTypeOK
<1>4. Told'
    BY <1>1, <1>2 DEF Told, Overdue, Before, SubscriptionTypeOK
<1>5. SweptToday'
    BY DEF SweptToday
<1> QED BY <1>3, <1>4, <1>5

\* An operator who sets somebody past due has warned them.
LEMMA SetKeeps ==
    ASSUME WarnInv, NEW c \in Companies, SetSubscription(c)
    PROVE  WarnInv'
<1> USE DEF WarnInv
<1>1. PICK status \in Standing, trial \in Dates, period \in Dates :
        /\ sub' = [sub EXCEPT ![c] = [status |-> status, trialEnds |-> trial, periodEnd |-> period]]
        /\ warned' = IF status = "past_due" THEN warned \cup {c} ELSE warned \ {c}
        /\ late' = late \ {c}
        /\ UNCHANGED <<today, sweep>>
    BY DEF SetSubscription
<1>2. SubscriptionTypeOK'
    <2>1. [status |-> status, trialEnds |-> trial, periodEnd |-> period] \in SubRows
        BY DEF SubRows
    <2> QED BY <1>1, <2>1 DEF SubscriptionTypeOK
<1>3. Told'
    <2> SUFFICES ASSUME NEW k \in Companies, sub'[k].status = "past_due", Overdue(k, today)'
                 PROVE  k \in warned' \cup late'
        BY DEF Told
    <2>1. CASE k = c
        BY <1>1, <2>1 DEF SubscriptionTypeOK
    <2>2. CASE k # c
        <3>1. sub'[k] = sub[k]
            BY <1>1, <2>2 DEF SubscriptionTypeOK
        <3> QED BY <1>1, <2>2, <3>1 DEF Told, Overdue, Before
    <2> QED BY <2>1, <2>2
<1>4. SweptToday'
    BY <1>1 DEF SweptToday
<1> QED BY <1>2, <1>3, <1>4

\* At midnight whoever is past due has been warned, and no sweep is under way.
LEMMA NextDayKeeps == ASSUME WarnInv, NextDay PROVE WarnInv'
<1> USE DEF WarnInv, NextDay
<1>1. SubscriptionTypeOK'
    <2>1. today' \in Days
        BY SubscriptionAssumption DEF SubscriptionTypeOK, Days
    <2> QED BY <2>1 DEF SubscriptionTypeOK
<1>2. Told'
    BY DEF Told
<1>3. SweptToday'
    BY DEF SweptToday
<1> QED BY <1>1, <1>2, <1>3

\* Who lapses beyond grace in one night is written down as late.
LEMMA MarkKeeps ==
    ASSUME WarnInv, NEW s \in Sweepers, MarkPastDue(s)
    PROVE  WarnInv'
<1> USE DEF WarnInv, MarkPastDue
<1>1. SubscriptionTypeOK'
    <2>1. today \in Dates
        BY DEF SubscriptionTypeOK, Dates
    <2>2. \A c \in Companies : [sub[c] EXCEPT !.status = "past_due"] \in SubRows
        BY DEF SubscriptionTypeOK, SubRows, Standing
    <2> QED BY <2>1, <2>2 DEF SubscriptionTypeOK
<1>2. Told'
    <2> SUFFICES ASSUME NEW c \in Companies, sub'[c].status = "past_due", Overdue(c, today)'
                 PROVE  c \in warned' \cup late'
        BY DEF Told
    <2>1. sub[c] \in SubRows
        BY DEF SubscriptionTypeOK
    <2>2. sub'[c].trialEnds = sub[c].trialEnds /\ sub'[c].periodEnd = sub[c].periodEnd
        BY <2>1 DEF SubRows
    <2>3. Overdue(c, today)
        BY <2>2 DEF Overdue, Before
    <2>4. CASE Lapsed(c, today)
        BY <2>3, <2>4
    <2>5. CASE ~Lapsed(c, today)
        BY <2>3, <2>5 DEF Told
    <2> QED BY <2>4, <2>5
<1>3. SweptToday'
    BY DEF SweptToday, SubscriptionTypeOK
<1> QED BY <1>1, <1>2, <1>3

\* Suspending leaves fewer past due.
LEMMA SuspendKeeps ==
    ASSUME WarnInv, NEW s \in Sweepers, SuspendOverdue(s)
    PROVE  WarnInv'
<1> USE DEF WarnInv, SuspendOverdue
<1>1. SubscriptionTypeOK'
    <2>1. \A c \in Companies : [sub[c] EXCEPT !.status = "suspended"] \in SubRows
        BY DEF SubscriptionTypeOK, SubRows, Standing
    <2>2. NoDate \in Dates
        BY DEF Dates
    <2> QED BY <2>1, <2>2 DEF SubscriptionTypeOK
<1>2. Told'
    <2> SUFFICES ASSUME NEW c \in Companies, sub'[c].status = "past_due", Overdue(c, today)'
                 PROVE  c \in warned' \cup late'
        BY DEF Told
    <2>1. sub'[c] = sub[c]
        <3>1. sub[c] \in SubRows
            BY DEF SubscriptionTypeOK
        <3> QED BY <3>1 DEF SubRows
    <2> QED BY <2>1 DEF Told, Overdue, Before
<1>3. SweptToday'
    BY DEF SweptToday, SubscriptionTypeOK
<1> QED BY <1>1, <1>2, <1>3

\* One step of the nights keeps the invariant.
LEMMA WarnStep == WarnInv /\ [SubscriptionNext]_subscriptionVars => WarnInv'
<1> SUFFICES ASSUME WarnInv, [SubscriptionNext]_subscriptionVars PROVE WarnInv'
    OBVIOUS
<1>1. ASSUME NEW s \in Sweepers, SweepDies(s) PROVE WarnInv'
    BY <1>1 DEF WarnInv, SweepDies, SubscriptionTypeOK, Told, SweptToday, Overdue, Before, Dates
<1>2. CASE UNCHANGED subscriptionVars
    BY <1>2 DEF subscriptionVars, WarnInv, SubscriptionTypeOK, Told, SweptToday, Overdue, Before
<1> QED BY <1>1, <1>2, ProvideKeeps, SetKeeps, NextDayKeeps, MarkKeeps, SuspendKeeps
        DEF SubscriptionNext

\* The invariant holds throughout.
LEMMA WarnAlways == SubscriptionSpec => []WarnInv
<1>1. SubscriptionInit => WarnInv
    BY WarnBegins
<1> QED BY <1>1, WarnStep, PTL DEF SubscriptionSpec

\* Whom a sweep suspends is beyond grace today, and so was told or found late.
LEMMA SuspendedWereTold ==
    ASSUME WarnInv, NEW s \in Sweepers, SuspendOverdue(s), NEW c \in Companies,
           MayWrite(c), ~MayWrite(c)'
    PROVE  c \in warned \cup late
<1>1. sub[c] \in SubRows
    BY DEF WarnInv, SubscriptionTypeOK
<1>2. BeyondGrace(c, sweep[s])
    BY <1>1 DEF SuspendOverdue, MayWrite
<1>3. sweep[s] = today
    BY DEF SuspendOverdue, WarnInv, SweptToday
<1>4. Overdue(c, today)
    BY <1>2, <1>3, BeyondIsOverdue
<1>5. sub[c].status = "past_due"
    BY <1>2 DEF BeyondGrace
<1> QED BY <1>4, <1>5 DEF WarnInv, Told

(***************************************************************************)
(* For every number of instances, every grace and every history of missed  *)
(* nights: a sweep takes nobody's writes away without their having been    *)
(* past due before that night, unless it came too late to warn them        *)
(* (platformSubscription.service.ts, expireSubscriptions).                 *)
(***************************************************************************)
THEOREM NobodyCutOffUnwarned == SubscriptionSpec => WarnedUnlessLate
<1>1. WarnInv /\ [SubscriptionNext]_subscriptionVars =>
          [\A s \in Sweepers : SuspendOverdue(s) =>
              \A c \in Companies : MayWrite(c) /\ ~MayWrite(c)' => c \in warned \cup late]_subscriptionVars
    BY SuspendedWereTold
<1> QED BY <1>1, WarnAlways, PTL DEF SubscriptionSpec, WarnedUnlessLate

\* Every variable keeps its type.
THEOREM SubscriptionTypes == SubscriptionSpec => []SubscriptionTypeOK
<1>1. WarnInv => SubscriptionTypeOK
    BY DEF WarnInv
<1> QED BY <1>1, WarnAlways, PTL

-----------------------------------------------------------------------------
(***************************************************************************)
(* However many connections there have been and however often the loss of  *)
(* each is reported, an instance has one way in which it listens or will.  *)
(* The invariant says which: the timer, or the one connection whose loss   *)
(* was not handled; and whoever listens is the client of a running bus.    *)
(***************************************************************************)

Pending == {n \in Connections : n \notin retiredConns /\ (n \in Open \/ reports[n] # {})}

OneWay ==
    ~closed => \/ timers = 1 /\ Pending = {}
               \/ timers = 0 /\ \E n \in Connections : Pending = {n}

Listens ==
    /\ \A n \in Connections : conn[n] = "listening" => client = n /\ ~closed /\ n \notin retiredConns
    /\ client # Nothing => \/ conn[client] = "listening"
                           \/ conn[client] = "ended" /\ reports[client] # {}
    /\ closed => client = Nothing

BusInv == BusTypeOK /\ OneWay /\ Listens

-----------------------------------------------------------------------------
\* The timer of the start is the one way there is.
LEMMA BusBegins == BusInit => BusInv
<1> SUFFICES ASSUME BusInit PROVE BusInv
    OBVIOUS
<1> USE DEF BusInit
<1>1. BusTypeOK
    BY DEF BusTypeOK, Reports
<1>2. Pending = {}
    BY DEF Pending, Open
<1>3. OneWay
    BY <1>2 DEF OneWay
<1>4. Listens
    BY DEF Listens
<1> QED BY <1>1, <1>3, <1>4 DEF BusInv

\* The timer becomes a connection, which was not in use.
LEMMA ConnectKeeps ==
    ASSUME BusInv, NEW n \in Connections, Connect(n)
    PROVE  BusInv'
<1> USE DEF BusInv, Connect, Open
<1>1. BusTypeOK'
    BY DEF BusTypeOK
<1>2. Listens'
    BY ChatBusAssumption DEF Listens, BusTypeOK
<1>3. OneWay'
    <2>1. CASE closed
        BY <2>1 DEF OneWay
    <2>2. CASE ~closed
        <3>1. timers = 1 /\ Pending = {}
            BY <2>2 DEF OneWay, BusTypeOK
        <3>2. Pending' = {n}
            BY <2>2, <3>1 DEF Pending, BusTypeOK
        <3> QED BY <3>1, <3>2 DEF OneWay
    <2> QED BY <2>1, <2>2
<1> QED BY <1>1, <1>2, <1>3

\* A connection that is wanted is the one way, and now it listens; another one is put away.
LEMMA ConnectedKeeps ==
    ASSUME BusInv, NEW n \in Connections, Connected(n)
    PROVE  BusInv'
<1> USE DEF BusInv, Connected, Open, Unwanted
<1>1. BusTypeOK'
    BY DEF BusTypeOK, Reports
<1>2. CASE Unwanted(n)
    <2>1. Listens'
        BY <1>2, ChatBusAssumption DEF Listens, BusTypeOK
    <2>2. ~closed => Pending' = Pending
        BY <1>2 DEF Pending, BusTypeOK
    <2>3. OneWay'
        BY <2>2 DEF OneWay
    <2> QED BY <1>1, <2>1, <2>3
<1>3. CASE ~Unwanted(n)
    <2>1. Pending = {n}
        <3>1. n \in Pending
            BY <1>3 DEF Pending
        <3> QED BY <1>3, <3>1 DEF OneWay
    <2>2. \A k \in Connections : conn[k] = "listening" => k = n
        BY <1>3, <2>1 DEF Listens, Pending
    <2>3. Listens'
        BY <1>3, <2>2, ChatBusAssumption DEF Listens, BusTypeOK
    <2>4. Pending' = Pending
        BY <1>3 DEF Pending, BusTypeOK
    <2>5. OneWay'
        BY <2>4 DEF OneWay
    <2> QED BY <1>1, <2>3, <2>5
<1> QED BY <1>2, <1>3

\* A connection that does not come about is still a way until its failure is handled.
LEMMA FailKeeps ==
    ASSUME BusInv, NEW n \in Connections, CannotConnect(n) \/ Stumble(n) \/ Drop(n)
    PROVE  BusInv'
<1> USE DEF BusInv, CannotConnect, Stumble, Drop, Open
<1>1. BusTypeOK'
    <2>1. conn' \in [Connections -> {"unused", "connecting", "listening", "ended"}]
        BY DEF BusTypeOK
    <2>2. \A k \in Connections : reports[k] \in SUBSET Reports
        BY DEF BusTypeOK
    <2>3. PICK now \in SUBSET Reports : reports' = [reports EXCEPT ![n] = now]
        <3>1. CASE CannotConnect(n)
            <4>1. PICK events \in SUBSET {"error", "end"} :
                      reports' = [reports EXCEPT ![n] = reports[n] \cup events \cup {"failed"}]
                BY <3>1
            <4>2. reports[n] \cup events \cup {"failed"} \in SUBSET Reports
                BY <2>2 DEF Reports
            <4> QED BY <4>1, <4>2
        <3>2. CASE Stumble(n)
            BY <3>2 DEF Reports
        <3>3. CASE Drop(n)
            <4>1. PICK events \in {{"end"}, {"error", "end"}} :
                      reports' = [reports EXCEPT ![n] = reports[n] \cup events]
                BY <3>3
            <4>2. reports[n] \cup events \in SUBSET Reports
                BY <2>2 DEF Reports
            <4> QED BY <4>1, <4>2
        <3> QED BY <3>1, <3>2, <3>3
    <2>4. reports' \in [Connections -> SUBSET Reports]
        BY <2>3 DEF BusTypeOK
    <2> QED BY <2>1, <2>4 DEF BusTypeOK
<1>2. Listens'
    BY ChatBusAssumption DEF Listens, BusTypeOK
<1>3. \A k \in Connections : k # n => conn'[k] = conn[k] /\ reports'[k] = reports[k]
    BY DEF BusTypeOK
<1>4. conn[n] \in {"connecting", "listening"} /\ (conn'[n] \in {"connecting", "listening"} \/ reports'[n] # {})
    BY DEF BusTypeOK
<1>5. Pending' = Pending
    BY <1>3, <1>4 DEF Pending
<1>6. OneWay'
    BY <1>5 DEF OneWay
<1> QED BY <1>1, <1>2, <1>6

\* The first report of a loss turns the connection into a timer; the others change nothing.
LEMMA RetireKeeps ==
    ASSUME BusInv, NEW n \in Connections, NEW report \in Reports, Retire(n, report)
    PROVE  BusInv'
<1> USE DEF BusInv, Retire, Open, ScheduledBy
<1>1. BusTypeOK'
    BY DEF BusTypeOK
<1>2. conn'[n] # "listening"
    BY DEF BusTypeOK
<1>3. Listens'
    BY <1>2, ChatBusAssumption DEF Listens, BusTypeOK
<1>4. OneWay'
    <2>1. CASE n \in retiredConns
        <3>1. Pending' = Pending
            BY <2>1 DEF Pending, BusTypeOK
        <3> QED BY <2>1, <3>1 DEF OneWay, BusTypeOK
    <2>2. CASE n \notin retiredConns /\ ~closed
        <3>1. n \in Pending
            BY <2>2 DEF Pending
        <3>2. timers = 0 /\ Pending = {n}
            BY <2>2, <3>1 DEF OneWay
        <3>3. Pending' = {}
            BY <3>2 DEF Pending, BusTypeOK
        <3> QED BY <2>2, <3>2, <3>3 DEF OneWay
    <2>3. CASE closed
        BY <2>3 DEF OneWay
    <2> QED BY <2>1, <2>2, <2>3
<1> QED BY <1>1, <1>3, <1>4

\* A stop ends whoever listens.
LEMMA StopKeeps == ASSUME BusInv, Stop PROVE BusInv'
<1> USE DEF BusInv, Stop
<1>1. BusTypeOK'
    BY ChatBusAssumption DEF BusTypeOK, Reports
<1>2. Listens'
    BY ChatBusAssumption DEF Listens, BusTypeOK
<1>3. OneWay'
    BY DEF OneWay
<1> QED BY <1>1, <1>2, <1>3

\* Every step of the bus.
LEMMA BusStep == BusInv /\ [BusNext]_busVars => BusInv'
<1> SUFFICES ASSUME BusInv, [BusNext]_busVars PROVE BusInv'
    OBVIOUS
<1>1. CASE UNCHANGED busVars
    BY <1>1 DEF busVars, BusInv, BusTypeOK, OneWay, Pending, Listens, Open
<1> QED BY <1>1, ConnectKeeps, ConnectedKeeps, FailKeeps, RetireKeeps, StopKeeps DEF BusNext

\* The invariant holds throughout; the fairness of the bus plays no part in it.
LEMMA BusAlways == BusSpec => []BusInv
<1> QED BY BusBegins, BusStep, PTL DEF BusSpec

\* What the invariant says of one connection, counted.
LEMMA OneWayIsOne == BusInv => OneListener
<1> SUFFICES ASSUME BusInv PROVE OneListener
    OBVIOUS
<1>1. \A n, k \in Connections : conn[n] = "listening" /\ conn[k] = "listening" => n = k
    BY DEF BusInv, Listens
<1>2. client # Nothing => conn[client] \in {"listening", "ended"}
    BY DEF BusInv, Listens
<1>3. ASSUME ~closed PROVE timers + Cardinality(Pending) = 1
    <2>1. CASE timers = 1 /\ Pending = {}
        BY <2>1, FS_EmptySet
    <2>2. CASE timers = 0 /\ \E n \in Connections : Pending = {n}
        <3>1. PICK n \in Connections : Pending = {n}
            BY <2>2
        <3>2. Cardinality(Pending) = 1
            BY <3>1, FS_Singleton
        <3> QED BY <2>2, <3>2
    <2> QED BY <1>3, <2>1, <2>2 DEF BusInv, OneWay
<1> QED BY <1>1, <1>2, <1>3 DEF OneListener, Pending

(***************************************************************************)
(* An instance that was not stopped listens once or will, whatever becomes *)
(* of its connections and in whatever order it is told (chatBus.ts: "only  *)
(* the first schedules a reconnect, or listeners multiply").               *)
(***************************************************************************)
THEOREM OneListenerAlways == BusSpec => []OneListener
<1>1. BusInv => OneListener
    BY OneWayIsOne
<1> QED BY <1>1, BusAlways, PTL

-----------------------------------------------------------------------------
(***************************************************************************)
(* The plans: whatever anybody has chosen is on sale, or was retired since *)
(* somebody had checked it.                                                *)
(***************************************************************************)

Chosen(k) == k # NoPlan => OnSale(k) \/ k \in retired

CatalogueInv ==
    /\ CatalogueTypeOK /\ LandsOnSaleUnlessRetired
    /\ Chosen(defaultPlan)
    /\ \A p \in Desks : Chosen(desk[p])
    /\ \A c \in Joiners : joiner[c].pc = "registering" => Chosen(joiner[c].plan)

\* There is no plan, and nobody has chosen any.
LEMMA CatalogueBegins == CatalogueInit => CatalogueInv
    BY DEF CatalogueInit, CatalogueInv, CatalogueTypeOK, LandsOnSaleUnlessRetired, Chosen, NotHere,
           Joiner

\* Plans that come, go and come back: what was chosen stays so.
LEMMA PlanKeeps ==
    ASSUME CatalogueInv, NEW k \in Plans, CreatePlan(k) \/ UpdatePlan(k)
    PROVE  CatalogueInv'
<1>1. /\ UNCHANGED <<defaultPlan, desk, joiner, landed>> /\ retired \subseteq retired'
      /\ \A j \in Plans : OnSale(j) => OnSale(j)' \/ j \in retired'
      /\ plan' \in [Plans -> {"none", "on_sale", "off_sale"}] /\ retired' \subseteq Plans
    BY DEF CreatePlan, UpdatePlan, OnSale, CatalogueInv, CatalogueTypeOK
<1>2. \A j \in Plans \cup {NoPlan} : Chosen(j) => Chosen(j)'
    BY <1>1 DEF Chosen
<1>3. /\ defaultPlan \in Plans \cup {NoPlan} /\ \A p \in Desks : desk[p] \in Plans \cup {NoPlan}
      /\ \A c \in Joiners : joiner[c].plan \in Plans \cup {NoPlan}
    BY DEF CatalogueInv, CatalogueTypeOK, Joiner
<1>4. /\ Chosen(defaultPlan)' /\ \A p \in Desks : Chosen(desk[p])'
      /\ \A c \in Joiners : joiner'[c].pc = "registering" => Chosen(joiner[c].plan)'
    BY <1>1, <1>2, <1>3 DEF CatalogueInv, Chosen, OnSale
<1>5. CatalogueTypeOK' /\ LandsOnSaleUnlessRetired'
    BY <1>1 DEF CatalogueInv, CatalogueTypeOK, LandsOnSaleUnlessRetired
<1> QED BY <1>1, <1>4, <1>5 DEF CatalogueInv

\* The default is checked before it is written.
LEMMA DefaultKeeps ==
    ASSUME CatalogueInv,
           \/ \E p \in Desks : WriteDefault(p) \/ \E k \in Plans : CheckDefault(p, k)
           \/ ClearDefault
    PROVE  CatalogueInv'
<1>1. UNCHANGED <<plan, joiner, landed, retired>>
    BY DEF WriteDefault, CheckDefault, ClearDefault
<1>2. /\ desk' \in [Desks -> Plans \cup {NoPlan}] /\ defaultPlan' \in Plans \cup {NoPlan}
      /\ Chosen(defaultPlan') /\ \A p \in Desks : Chosen(desk'[p])
    BY DEF WriteDefault, CheckDefault, ClearDefault, Offered, Chosen, CatalogueInv, CatalogueTypeOK
<1>3. \A k : Chosen(k) => Chosen(k)'
    BY <1>1 DEF Chosen, OnSale
<1>4. Chosen(defaultPlan)' /\ \A p \in Desks : Chosen(desk[p])'
    BY <1>1, <1>2 DEF Chosen, OnSale
<1>5. \A c \in Joiners : joiner'[c].pc = "registering" => Chosen(joiner[c].plan)'
    BY <1>1 DEF CatalogueInv, Chosen, OnSale
<1> QED BY <1>1, <1>2, <1>4, <1>5 DEF CatalogueInv, CatalogueTypeOK, LandsOnSaleUnlessRetired

\* Who registers gets the default as it was read.
LEMMA JoinerKeeps ==
    ASSUME CatalogueInv, NEW c \in Joiners,
           ReadSettings(c) \/ CreateOrganization(c) \/ CreateCompany(c) \/ MovePlan(c)
    PROVE  CatalogueInv'
<1>1. UNCHANGED <<plan, defaultPlan, desk, retired>>
    BY DEF ReadSettings, CreateOrganization, CreateCompany, MovePlan
<1>2. /\ joiner \in [Joiners -> Joiner] /\ joiner[c] \in Joiner
      /\ defaultPlan \in Plans \cup {NoPlan} /\ landed \subseteq Plans /\ landed \subseteq retired
    BY DEF CatalogueInv, CatalogueTypeOK, LandsOnSaleUnlessRetired
<1>3. /\ \A d \in Joiners \ {c} : joiner'[d] = joiner[d]
      /\ joiner'[c] \in Joiner
      /\ joiner'[c].pc = "registering" => joiner'[c].plan = defaultPlan \/ joiner'[c] = joiner[c]
    BY <1>2 DEF ReadSettings, CreateOrganization, CreateCompany, MovePlan, AnyPlan, Joiner
<1>4. joiner' \in [Joiners -> Joiner]
    BY <1>2, <1>3 DEF ReadSettings, CreateOrganization, CreateCompany, MovePlan
<1>5. landed' \subseteq Plans /\ landed' \subseteq retired
    BY <1>2 DEF ReadSettings, CreateOrganization, CreateCompany, MovePlan, CatalogueInv, Chosen,
                Joiner
<1>6. \A d \in Joiners : joiner'[d].pc = "registering" => Chosen(joiner'[d].plan)
    BY <1>3 DEF CatalogueInv, Chosen
<1>7. \A d \in Joiners : joiner'[d].pc = "registering" => Chosen(joiner[d].plan)'
    BY <1>1, <1>6 DEF Chosen, OnSale
<1>8. Chosen(defaultPlan)' /\ \A p \in Desks : Chosen(desk[p])'
    BY <1>1 DEF CatalogueInv, Chosen, OnSale
<1> QED BY <1>1, <1>4, <1>5, <1>7, <1>8
        DEF CatalogueInv, CatalogueTypeOK, LandsOnSaleUnlessRetired

\* Every step of the catalogue.
LEMMA CatalogueStep == CatalogueInv /\ [CatalogueNext]_catalogueVars => CatalogueInv'
<1>1. CatalogueInv /\ UNCHANGED catalogueVars => CatalogueInv'
    BY DEF catalogueVars, CatalogueInv, CatalogueTypeOK, LandsOnSaleUnlessRetired, Chosen, OnSale
<1> QED BY <1>1, PlanKeeps, DefaultKeeps, JoinerKeeps DEF CatalogueNext

-----------------------------------------------------------------------------
(***************************************************************************)
(* The rate of the day: no stored day is after today, so what a sync       *)
(* stores today is the latest there is.                                    *)
(***************************************************************************)

Newest(m) == m \in DaysStored /\ \A d \in DaysStored : d <= m

RatesInv ==
    /\ RatesTypeOK
    /\ \A d \in DaysStored : d <= rateDay /\ Usable(stored[d])
    /\ known => \E m \in DaysStored : Newest(m)
    /\ \A m \in 0 .. LastDay : Newest(m) /\ ~lateSync => stored[m] = newest
    /\ DaysStored # {} => known
    /\ ownRate # NoRate => Usable(ownRate)
    /\ \A f \in Fetchers : fetcher[f].at = "told" => fetcher[f].rate \in Quotes /\ Usable(fetcher[f].rate)

\* A sync that is not under way.
LEMMA AsleepIsOK == /\ Asleep \in [at : {"asleep", "asking", "told"}, provider : 0 .. 2,
                                 rate : Rates, stale : BOOLEAN]
                    /\ Asleep.at = "asleep" /\ NoRate \in Rates
    BY DEF Asleep, Rates

\* No rate is known.
LEMMA RatesBegin == RatesInit => RatesInv
<1> SUFFICES ASSUME RatesInit PROVE RatesInv
    OBVIOUS
<1>1. DaysStored = {}
    BY DEF RatesInit, DaysStored
<1>2. RatesTypeOK
    <2>1. /\ rateDay = 0 /\ stored = [d \in 0 .. LastDay |-> NoRate] /\ ownRate = NoRate
          /\ fetcher = [f \in Fetchers |-> Asleep] /\ known = FALSE /\ newest = NoRate
          /\ lateSync = FALSE
        BY DEF RatesInit
    <2>2. rateDay \in 0 .. LastDay
        BY <2>1, RatesAssumption
    <2> QED BY <2>1, <2>2, AsleepIsOK DEF RatesTypeOK
<1> QED BY <1>1, <1>2, AsleepIsOK DEF RatesInit, RatesInv, Newest

\* Asking, and the agency's own rate, store nothing; days only pass.
LEMMA AskingRatesKeeps ==
    ASSUME RatesInv,
           \/ \E f \in Fetchers : StartSync(f) \/ ProviderAnswers(f)
           \/ SetDefaultRate \/ NewDay
    PROVE  RatesInv'
<1>1. UNCHANGED <<stored, known, newest, lateSync>>
    BY DEF StartSync, ProviderAnswers, SetDefaultRate, NewDay
<1>2. DaysStored' = DaysStored /\ \A m : Newest(m)' <=> Newest(m)
    BY <1>1 DEF DaysStored, Newest
<1>3. /\ rateDay' \in 0 .. LastDay /\ rateDay <= rateDay'
      /\ ownRate' \in Rates /\ (ownRate' # NoRate => Usable(ownRate'))
    <2>1. rateDay \in 0 .. LastDay /\ LastDay \in Nat /\ ownRate \in Rates
          /\ (ownRate # NoRate => Usable(ownRate))
        BY RatesAssumption DEF RatesInv, RatesTypeOK
    <2>2. rateDay' = rateDay \/ (rateDay < LastDay /\ rateDay' = rateDay + 1)
        BY DEF StartSync, ProviderAnswers, SetDefaultRate, NewDay
    <2>3. ownRate' = ownRate \/ ownRate' \in {r \in Rates : r = NoRate \/ Usable(r)}
        BY DEF StartSync, ProviderAnswers, SetDefaultRate, NewDay
    <2>4. rateDay' \in 0 .. LastDay /\ rateDay <= rateDay'
        BY <2>1, <2>2
    <2> QED BY <2>1, <2>3, <2>4 DEF Usable
<1>4. /\ fetcher' \in [Fetchers -> [at : {"asleep", "asking", "told"}, provider : 0 .. 2,
                                    rate : Rates, stale : BOOLEAN]]
      /\ \A f \in Fetchers : fetcher'[f].at = "told" => fetcher'[f].rate \in Quotes /\ Usable(fetcher'[f].rate)
    <2>0. fetcher \in [Fetchers -> [at : {"asleep", "asking", "told"}, provider : 0 .. 2,
                                    rate : Rates, stale : BOOLEAN]]
        BY DEF RatesInv, RatesTypeOK
    <2>1. CASE \E f \in Fetchers : StartSync(f)
        <3>1. PICK f \in Fetchers : StartSync(f)
            BY <2>1
        <3>2. ASSUME NEW g \in Fetchers
              PROVE  /\ fetcher'[g] \in [at : {"asleep", "asking", "told"}, provider : 0 .. 2,
                                         rate : Rates, stale : BOOLEAN]
                     /\ fetcher'[g].at = "told" => fetcher'[g].rate = fetcher[g].rate /\ fetcher[g].at = "told"
            <4>1. CASE g = f
                <5>1. fetcher'[g] = [Asleep EXCEPT !.at = "asking", !.provider = 1]
                    BY <3>1, <4>1 DEF StartSync
                <5>2. PICK r : r = [Asleep EXCEPT !.at = "asking", !.provider = 1]
                    OBVIOUS
                <5>3. 1 \in 0 .. 2
                    OBVIOUS
                <5>4. /\ r \in [at : {"asleep", "asking", "told"}, provider : 0 .. 2, rate : Rates,
                                stale : BOOLEAN]
                      /\ r.at = "asking"
                    BY <5>2, <5>3, AsleepIsOK
                <5> QED BY <5>1, <5>2, <5>3, <5>4
            <4>2. CASE g # f
                <5>1. fetcher'[g] = [fetcher[g] EXCEPT !.stale = fetcher[g] # Asleep]
                    BY <3>1, <4>2 DEF StartSync
                <5>2. PICK b \in BOOLEAN : b = (fetcher[g] # Asleep)
                    OBVIOUS
                <5>3. fetcher'[g] = [fetcher[g] EXCEPT !.stale = b]
                    BY <5>1, <5>2
                <5> QED BY <2>0, <5>3
            <4> QED BY <4>1, <4>2
        <3>3. fetcher' = [g \in Fetchers |-> fetcher'[g]]
            BY <3>1 DEF StartSync
        <3> QED BY <3>2, <3>3 DEF RatesInv
    <2>2. CASE \E f \in Fetchers : ProviderAnswers(f)
        <3>1. PICK f \in Fetchers : ProviderAnswers(f)
            BY <2>2
        <3>2. PICK rate \in Rates :
                 \/ /\ rate # NoRate /\ Usable(rate)
                    /\ fetcher' = [fetcher EXCEPT ![f].at = "told", ![f].rate = rate]
                 \/ fetcher[f].at = "asking" /\ fetcher' = [fetcher EXCEPT ![f].provider = 2]
                 \/ fetcher' = [fetcher EXCEPT ![f] = Asleep]
            BY <3>1 DEF ProviderAnswers
        <3>3. CASE rate # NoRate /\ Usable(rate)
                   /\ fetcher' = [fetcher EXCEPT ![f].at = "told", ![f].rate = rate]
            <4>1. PICK r : r = [fetcher[f] EXCEPT !.at = "told", !.rate = rate]
                OBVIOUS
            <4>2. /\ r \in [at : {"asleep", "asking", "told"}, provider : 0 .. 2, rate : Rates,
                             stale : BOOLEAN]
                  /\ r.rate = rate
                BY <2>0, <4>1
            <4>3. fetcher' = [fetcher EXCEPT ![f] = r]
                BY <2>0, <3>3, <4>1
            <4>4. rate \in Quotes
                BY <3>3 DEF Rates
            <4>5. \A g \in Fetchers : fetcher'[g] = IF g = f THEN r ELSE fetcher[g]
                BY <2>0, <4>3
            <4>6. fetcher' \in [Fetchers -> [at : {"asleep", "asking", "told"}, provider : 0 .. 2,
                                             rate : Rates, stale : BOOLEAN]]
                BY <2>0, <4>2, <4>3
            <4> QED BY <3>3, <4>2, <4>4, <4>5, <4>6 DEF RatesInv
        <3>4. CASE fetcher[f].at = "asking" /\ fetcher' = [fetcher EXCEPT ![f].provider = 2]
            BY <2>0, <3>4 DEF RatesInv
        <3>5. CASE fetcher' = [fetcher EXCEPT ![f] = Asleep]
            BY <2>0, <3>5, AsleepIsOK DEF RatesInv
        <3> QED BY <3>2, <3>3, <3>4, <3>5
    <2>3. CASE SetDefaultRate \/ NewDay
        BY <2>0, <2>3 DEF SetDefaultRate, NewDay, RatesInv
    <2> QED BY <2>1, <2>2, <2>3
<1>5. RatesTypeOK'
    BY <1>1, <1>3, <1>4 DEF RatesInv, RatesTypeOK
<1>6. \A d \in DaysStored' : d <= rateDay' /\ Usable(stored'[d])
    <2> SUFFICES ASSUME NEW d \in DaysStored PROVE d <= rateDay' /\ Usable(stored[d])
        BY <1>1, <1>2
    <2>1. d <= rateDay /\ Usable(stored[d])
        BY DEF RatesInv
    <2>2. d \in Int /\ rateDay \in Int /\ rateDay' \in Int
        <3>1. rateDay \in 0 .. LastDay /\ d \in 0 .. LastDay
            BY DEF DaysStored, RatesInv, RatesTypeOK
        <3>2. rateDay' \in 0 .. LastDay /\ LastDay \in Nat
            BY <1>3, RatesAssumption
        <3> QED BY <3>1, <3>2
    <2> QED BY <1>3, <2>1, <2>2
<1> QED BY <1>1, <1>2, <1>3, <1>4, <1>5, <1>6 DEF RatesInv, Usable

\* What is stored today is the latest.
LEMMA StoreRateKeeps ==
    ASSUME RatesInv, NEW f \in Fetchers, StoreRate(f)
    PROVE  RatesInv'
<1>1. PICK rate : rate = fetcher[f].rate
    OBVIOUS
<1>2. /\ rate \in Quotes /\ Usable(rate) /\ rate # NoRate
      /\ stored' = [stored EXCEPT ![rateDay] = rate] /\ known' = TRUE
      /\ newest' = (IF fetcher[f].stale THEN newest ELSE rate) /\ lateSync' = fetcher[f].stale
      /\ fetcher' = [fetcher EXCEPT ![f] = Asleep] /\ rateDay' = rateDay /\ ownRate' = ownRate
    BY <1>1, RatesAssumption DEF StoreRate, Upserted, RatesInv
<1>3. /\ rateDay \in 0 .. LastDay /\ stored \in [0 .. LastDay -> Rates] /\ LastDay \in Nat
    BY RatesAssumption DEF RatesInv, RatesTypeOK
<1>4. DaysStored' = DaysStored \cup {rateDay}
    BY <1>2, <1>3 DEF DaysStored
<1>5. \A d \in DaysStored' : d \in 0 .. LastDay /\ d <= rateDay /\ Usable(stored'[d])
    BY <1>2, <1>3, <1>4 DEF RatesInv, DaysStored
<1>6. \A m \in 0 .. LastDay : Newest(m)' <=> m = rateDay
    BY <1>3, <1>4, <1>5 DEF Newest
<1>7. RatesTypeOK'
    BY <1>2, <1>3 DEF RatesInv, RatesTypeOK, Rates, Asleep
<1>8. \A g \in Fetchers : fetcher'[g].at = "told" => fetcher'[g].rate \in Quotes /\ Usable(fetcher'[g].rate)
    BY <1>2 DEF RatesInv, RatesTypeOK, Asleep
<1>9. stored'[rateDay] = rate
    BY <1>2, <1>3
<1>10. \A d \in DaysStored' : d <= rateDay' /\ Usable(stored'[d])
    BY <1>2, <1>5
<1>11. (\E m \in DaysStored' : Newest(m)') /\ DaysStored' # {}
    BY <1>3, <1>4, <1>6
<1>12. \A m \in 0 .. LastDay : Newest(m)' /\ ~lateSync' => stored'[m] = newest'
    BY <1>2, <1>6, <1>9
<1>13. ownRate' # NoRate => Usable(ownRate')
    BY <1>2 DEF RatesInv
<1> QED BY <1>2, <1>7, <1>8, <1>10, <1>11, <1>12, <1>13 DEF RatesInv, Usable

\* Every step of the rates.
LEMMA RatesStep == RatesInv /\ [RatesNext]_ratesVars => RatesInv'
<1>1. RatesInv /\ UNCHANGED ratesVars => RatesInv'
    BY DEF ratesVars, RatesInv, RatesTypeOK, DaysStored, Newest, Usable
<1> QED BY <1>1, AskingRatesKeeps, StoreRateKeeps DEF RatesNext

\* The rate of a payment is the latest one, or the agency's own.
LEMMA RatesSuffice == RatesInv => RateAtHandUnlessLate
<1> SUFFICES ASSUME RatesInv PROVE RateAtHandUnlessLate
    OBVIOUS
<1>1. ASSUME NEW m, Newest(m) PROVE Max(DaysStored) = m
    <2>1. \A d \in DaysStored : d \in Int
        BY RatesAssumption DEF DaysStored
    <2> QED BY <1>1, <2>1 DEF Newest, Max
<1>2. ASSUME known
      PROVE  Latest # NoRate /\ Usable(Latest) /\ (~lateSync => Latest = newest)
    <2>1. PICK m \in DaysStored : Newest(m)
        BY <1>2 DEF RatesInv
    <2>2. Latest = stored[m] /\ m \in 0 .. LastDay
        BY <1>1, <2>1 DEF Latest, DaysStored
    <2> QED BY <2>1, <2>2 DEF RatesInv, DaysStored
<1>3. ~known => Latest = NoRate
    BY DEF RatesInv, Latest
<1> QED BY <1>2, <1>3 DEF RateAtHandUnlessLate, ReportingRate, EffectiveSource, RatesInv

-----------------------------------------------------------------------------
(***************************************************************************)
(* The sockets of a process: the map has an entry for whoever has a socket *)
(* that was opened and whose close has not been heard of, with all of      *)
(* those; and whatever has drained is cut off by nothing.                  *)
(***************************************************************************)

SocketsOf(u) == {s \in Sockets : OwnerOf[s] = u /\ socket[s] \in {"open", "closing"}}

BoxesOK ==
    /\ DOMAIN boxes = {u \in Readers : SocketsOf(u) # {}}
    /\ \A u \in DOMAIN boxes : boxes[u] = SocketsOf(u)

ExitOK ==
    /\ exitCode # "none" => process = "exited"
    /\ exitCode = "0" => cut = 0 /\ cause = "signal"
    /\ process \in {"booting", "up"} => cause = "none"

ServerInv == ServerTypeOK /\ BoxesOK /\ ExitOK

\* There is no socket yet.
LEMMA ServerBegins == ServerInit => ServerInv
<1> SUFFICES ASSUME ServerInit PROVE ServerInv
    OBVIOUS
<1>1. DOMAIN boxes = {} /\ \A u \in Readers : SocketsOf(u) = {}
    BY DEF ServerInit, SocketsOf
<1>2. BoxesOK
    BY <1>1 DEF BoxesOK
<1>3. ServerTypeOK
    BY <1>1, ServerAssumption DEF ServerInit, ServerTypeOK, Causes
<1> QED BY <1>2, <1>3 DEF ServerInit, ServerInv, ExitOK

\* A socket that is not opened and was not open is in no box.
LEMMA SocketKeeps ==
    ASSUME ServerInv, NEW s \in Sockets, Arrive(s) \/ Authenticate(s) \/ HangUp(s)
    PROVE  ServerInv'
<1>1. /\ UNCHANGED <<process, cause, exitCode, busy, boxes, cut>>
      /\ socket \in [Sockets -> {"away", "asking", "proven", "open", "closing", "gone"}]
    BY DEF Arrive, Authenticate, HangUp, ServerInv, ServerTypeOK
<1>2. /\ socket' \in [Sockets -> {"away", "asking", "proven", "open", "closing", "gone"}]
      /\ \A r \in Sockets : socket'[r] \in {"open", "closing"} <=> socket[r] \in {"open", "closing"}
    BY <1>1 DEF Arrive, Authenticate, HangUp
<1>3. \A u : SocketsOf(u)' = SocketsOf(u)
    BY <1>2 DEF SocketsOf
<1>4. BoxesOK'
    BY <1>1, <1>3 DEF ServerInv, BoxesOK
<1> QED BY <1>1, <1>2, <1>4 DEF ServerInv, ServerTypeOK, ExitOK

\* Remembering adds the one that opens.
LEMMA OpenSocketKeeps ==
    ASSUME ServerInv, NEW s \in Sockets, OpenSocket(s)
    PROVE  ServerInv'
<1>1. PICK u : u = OwnerOf[s]
    OBVIOUS
<1>2. /\ UNCHANGED <<process, cause, exitCode, busy, cut>>
      /\ socket' = [socket EXCEPT ![s] = "open"] /\ boxes' = Remember(u, s)
      /\ u \in Readers
      /\ socket \in [Sockets -> {"away", "asking", "proven", "open", "closing", "gone"}]
    BY <1>1, ServerAssumption DEF OpenSocket, ServerInv, ServerTypeOK
<1>3. /\ SocketsOf(u)' = SocketsOf(u) \cup {s}
      /\ \A v : v # u => SocketsOf(v)' = SocketsOf(v)
    BY <1>1, <1>2 DEF SocketsOf
<1>4. /\ DOMAIN boxes' = DOMAIN boxes \cup {u}
      /\ \A v \in DOMAIN boxes \cup {u} :
            boxes'[v] = (IF v \in DOMAIN boxes THEN boxes[v] ELSE {}) \cup (IF v = u THEN {s} ELSE {})
    BY <1>2 DEF Remember
<1>5. u \notin DOMAIN boxes => SocketsOf(u) = {}
    BY <1>2 DEF ServerInv, BoxesOK
<1>6. \A v \in DOMAIN boxes' : boxes'[v] = SocketsOf(v)'
    <2> SUFFICES ASSUME NEW v \in DOMAIN boxes' PROVE boxes'[v] = SocketsOf(v)'
        OBVIOUS
    <2>1. CASE v = u
        BY <1>3, <1>4, <1>5, <2>1 DEF ServerInv, BoxesOK
    <2>2. CASE v # u
        BY <1>3, <1>4, <2>2 DEF ServerInv, BoxesOK
    <2> QED BY <2>1, <2>2
<1>7. DOMAIN boxes' = {v \in Readers : SocketsOf(v)' # {}}
    BY <1>2, <1>3, <1>4 DEF ServerInv, BoxesOK
<1>8. \A v \in DOMAIN boxes' : boxes'[v] \subseteq Sockets
    BY <1>6 DEF SocketsOf
<1>9. socket' \in [Sockets -> {"away", "asking", "proven", "open", "closing", "gone"}]
    BY <1>2
<1>10. BoxesOK'
    BY <1>6, <1>7 DEF BoxesOK
<1> QED BY <1>2, <1>7, <1>8, <1>9, <1>10 DEF ServerInv, ServerTypeOK, ExitOK

\* Forgetting takes out the one that closed, and the entry with its last.
LEMMA ClosedKeeps ==
    ASSUME ServerInv, NEW s \in Sockets, Closed(s)
    PROVE  ServerInv'
<1>1. PICK u : u = OwnerOf[s]
    OBVIOUS
<1>2. /\ UNCHANGED <<process, cause, exitCode, busy, cut>>
      /\ socket[s] = "closing" /\ socket' = [socket EXCEPT ![s] = "gone"] /\ boxes' = Forget(u, s)
      /\ u \in Readers
      /\ socket \in [Sockets -> {"away", "asking", "proven", "open", "closing", "gone"}]
    BY <1>1, ServerAssumption DEF Closed, ServerInv, ServerTypeOK
<1>3. /\ SocketsOf(u)' = SocketsOf(u) \ {s}
      /\ \A v : v # u => SocketsOf(v)' = SocketsOf(v)
    BY <1>1, <1>2 DEF SocketsOf
<1>4. u \in DOMAIN boxes /\ boxes[u] = SocketsOf(u)
    BY <1>1, <1>2 DEF ServerInv, BoxesOK, SocketsOf
<1>5. DOMAIN boxes' = IF SocketsOf(u) \subseteq {s} THEN DOMAIN boxes \ {u} ELSE DOMAIN boxes
    <2>1. DOMAIN boxes' = DOMAIN boxes \ {w \in {u} : w \in DOMAIN boxes /\ boxes[w] \subseteq {s}}
        BY <1>2 DEF Forget
    <2> QED BY <1>4, <2>1
<1>6. \A v \in DOMAIN boxes' : boxes'[v] = IF v = u THEN boxes[v] \ {s} ELSE boxes[v]
    BY <1>2 DEF Forget
<1>7. \A v \in DOMAIN boxes' : v \in DOMAIN boxes /\ boxes'[v] = SocketsOf(v)'
    BY <1>3, <1>4, <1>5, <1>6 DEF ServerInv, BoxesOK
<1>8. DOMAIN boxes' = {v \in Readers : SocketsOf(v)' # {}}
    <2>1. SocketsOf(u)' = {} <=> SocketsOf(u) \subseteq {s}
        BY <1>3
    <2> QED BY <1>2, <1>3, <1>5, <2>1 DEF ServerInv, BoxesOK
<1>9. \A v \in DOMAIN boxes' : boxes'[v] \subseteq Sockets
    BY <1>7 DEF SocketsOf
<1>10. socket' \in [Sockets -> {"away", "asking", "proven", "open", "closing", "gone"}]
    BY <1>2
<1>11. BoxesOK'
    BY <1>7, <1>8 DEF BoxesOK
<1> QED BY <1>2, <1>8, <1>9, <1>10, <1>11 DEF ServerInv, ServerTypeOK, ExitOK

\* The process, its requests and who is banned leave the map alone.
LEMMA ProcessKeeps ==
    ASSUME ServerInv,
           \/ Boot \/ StartRequest \/ EndRequest \/ Finish \/ GiveUpStop
           \/ \E u \in Readers : Ban(u)
           \/ \E why \in {"signal", "crash"} : Shutdown(why)
    PROVE  ServerInv'
<1>1. UNCHANGED <<socket, boxes>>
    BY DEF Boot, StartRequest, EndRequest, Finish, GiveUpStop, Exit, Ban, Shutdown
<1>2. BoxesOK'
    BY <1>1 DEF ServerInv, BoxesOK, SocketsOf
<1>3. busy' \in 0 .. MaxBusy
    BY ServerAssumption DEF ServerInv, ServerTypeOK, Boot, StartRequest, EndRequest, Finish,
       GiveUpStop, Exit, Ban, Shutdown
<1>4. Cardinality(Attached) \in Nat
    <2>1. Attached \subseteq Sockets
        BY DEF Attached
    <2> QED BY <2>1, ServerAssumption, FS_Subset, FS_CardinalityType
<1>5. cut' \in Nat
    BY <1>4, ServerAssumption DEF ServerInv, ServerTypeOK, Boot, StartRequest, EndRequest, Finish,
       GiveUpStop, Exit, Ban, Shutdown
<1>6. ServerTypeOK'
    BY <1>1, <1>3, <1>5 DEF ServerInv, ServerTypeOK, Causes, Boot, StartRequest, EndRequest, Finish,
       GiveUpStop, Exit, Ban, Shutdown
<1>7. ExitOK'
    <2>1. CASE Finish
        <3>1. busy = 0 /\ Cardinality(Attached) = 0
            BY <2>1, FS_EmptySet DEF Finish, Drained
        <3> QED BY <2>1, <3>1 DEF Finish, Exit, ExitOK
    <2>2. CASE GiveUpStop
        BY <2>2 DEF GiveUpStop, Exit, ExitOK
    <2>3. CASE Boot \/ StartRequest \/ EndRequest \/ (\E u \in Readers : Ban(u))
        BY <2>3 DEF ServerInv, ExitOK, Boot, StartRequest, EndRequest, Ban
    <2>4. CASE \E why \in {"signal", "crash"} : Shutdown(why)
        BY <2>4 DEF ServerInv, ExitOK, Shutdown
    <2> QED BY <2>1, <2>2, <2>3, <2>4
<1> QED BY <1>2, <1>6, <1>7 DEF ServerInv

\* Every step of the process.
LEMMA ServerStep == ServerInv /\ [ServerNext]_serverVars => ServerInv'
<1>1. ServerInv /\ UNCHANGED serverVars => ServerInv'
    BY DEF serverVars, ServerInv, ServerTypeOK, BoxesOK, SocketsOf, ExitOK
<1> QED BY <1>1, ProcessKeeps, SocketKeeps, OpenSocketKeeps, ClosedKeeps DEF ServerNext

\* A message for somebody goes out on what is open.
LEMMA ServerSuffices == ServerInv => NoSocketLost
<1> SUFFICES ASSUME ServerInv PROVE NoSocketLost
    OBVIOUS
<1>1. ASSUME NEW u \in Readers
      PROVE  Reached(u) = {s \in Sockets : OwnerOf[s] = u /\ socket[s] = "open"}
    <2>1. CASE u \in DOMAIN boxes
        BY <2>1 DEF Reached, ServerInv, BoxesOK, SocketsOf
    <2>2. CASE u \notin DOMAIN boxes
        BY <2>2 DEF Reached, ServerInv, BoxesOK, SocketsOf
    <2> QED BY <2>1, <2>2
<1>2. \A u \in DOMAIN boxes : boxes[u] # {}
    BY DEF ServerInv, BoxesOK
<1> QED BY <1>1, <1>2 DEF NoSocketLost, ServerInv, ExitOK

-----------------------------------------------------------------------------
(***************************************************************************)
(* What operators announce: a request that nobody has overtaken knows that *)
(* its notice is a draft still, and says what it read; so that of a notice *)
(* never rewritten there is one round of mails at most, under way or done, *)
(* and it says what the notice says.                                       *)
(***************************************************************************)

AuthorRows == [pc : {"rest", "update", "publish", "mail"}, of : Notices \cup {NoNotice},
               read : Texts \cup {NoText}, text : Texts \cup {NoText}, stale : BOOLEAN]

AuthorOK(r) ==
    r.pc # "rest" =>
        /\ r.of \in Notices /\ notice[r.of].text # NoText
        /\ r.read \in Texts
        /\ r.pc = "update" => r.text \in Texts
        /\ r.pc # "mail" /\ ~r.stale => ~notice[r.of].published /\ r.read = notice[r.of].text

AuthorsOK == \A p \in Authors : AuthorOK(author[p])

Mailing(p, a) == author[p].pc = "mail" /\ author[p].of = a

RoundOK(a) ==
    /\ \/ mailed[a] = <<>>
       \/ /\ mailed[a] = <<notice[a].text>> /\ notice[a].published
          /\ \A p \in Authors : ~Mailing(p, a)
    /\ \A p \in Authors : Mailing(p, a) => notice[a].published /\ author[p].read = notice[a].text
    /\ \A p, q \in Authors : Mailing(p, a) /\ Mailing(q, a) => p = q

OneRound == \A a \in Notices \ rewritten : RoundOK(a)

AnnouncementInv == AnnouncementTypeOK /\ AuthorsOK /\ OneRound

\* A request that does nothing.
LEMMA AtRestIsOK == AtRest \in AuthorRows /\ AtRest.pc = "rest"
    BY DEF AtRest, AuthorRows

\* Nothing is drafted.
LEMMA AnnouncementBegins == AnnouncementInit => AnnouncementInv
<1> SUFFICES ASSUME AnnouncementInit PROVE AnnouncementInv
    OBVIOUS
<1>1. AnnouncementTypeOK
    BY AtRestIsOK DEF AnnouncementInit, AnnouncementTypeOK, AuthorRows, NotDrafted, NoticeRows
<1>2. AuthorsOK /\ OneRound
    BY AtRestIsOK DEF AnnouncementInit, AuthorsOK, AuthorOK, OneRound, RoundOK, Mailing
<1> QED BY <1>1, <1>2 DEF AnnouncementInv

\* The types, with a name for the rows of requests.
LEMMA AnnouncementFacts ==
    ASSUME AnnouncementInv
    PROVE  /\ author \in [Authors -> AuthorRows] /\ notice \in [Notices -> NoticeRows]
           /\ mailed \in [Notices -> Seq(Texts)] /\ rewritten \subseteq Notices
           /\ \A p \in Authors : author[p] \in AuthorRows /\ AuthorOK(author[p])
BY DEF AnnouncementInv, AnnouncementTypeOK, AuthorsOK, AuthorRows

\* One request that reads, or stops; no notice is written.
LEMMA ReadingNoticeKeeps ==
    ASSUME AnnouncementInv, NEW p \in Authors, NEW r \in AuthorRows, r.pc # "mail", AuthorOK(r),
           author' = [author EXCEPT ![p] = r], UNCHANGED <<notice, mailed, rewritten>>
    PROVE  AnnouncementInv'
<1>1. /\ author' \in [Authors -> AuthorRows]
      /\ \A q \in Authors : author'[q] = IF q = p THEN r ELSE author[q]
    BY AnnouncementFacts
<1>2. AnnouncementTypeOK'
    BY <1>1 DEF AnnouncementInv, AnnouncementTypeOK, AuthorRows
<1>3. \A q \in Authors : AuthorOK(author'[q])
    BY <1>1, AnnouncementFacts
<1>4. AuthorsOK'
    BY <1>3 DEF AuthorsOK, AuthorOK
<1>5. \A q \in Authors, a \in Notices :
          Mailing(q, a)' => Mailing(q, a) /\ author'[q] = author[q]
    BY <1>1 DEF Mailing
<1>6. \A a \in Notices : RoundOK(a) => RoundOK(a)'
    BY <1>5 DEF RoundOK
<1>7. OneRound'
    BY <1>6 DEF AnnouncementInv, OneRound
<1> QED BY <1>2, <1>4, <1>7 DEF AnnouncementInv

\* A draft is read to be edited, or to be published.
LEMMA DeciderKeeps ==
    ASSUME AnnouncementInv, NEW p \in Authors, NEW a \in Notices,
           UpdateAnnouncement(p, a) \/ PublishAnnouncement(p, a)
    PROVE  AnnouncementInv'
<1>1. PICK pc \in {"update", "publish"}, text \in Texts \cup {NoText} :
          /\ StillDraft(a) /\ ReadNotice(p, pc, a, text)
          /\ pc = "update" => text \in Texts
    BY DEF UpdateAnnouncement, PublishAnnouncement
<1>2. PICK r : r = [pc |-> pc, of |-> a, read |-> notice[a].text, text |-> text, stale |-> FALSE]
    OBVIOUS
<1>3. notice[a] \in NoticeRows /\ notice[a].text \in Texts /\ ~notice[a].published
    BY <1>1, AnnouncementFacts DEF StillDraft, Drafted, NoticeRows
<1>4. r \in AuthorRows /\ r.pc = pc /\ r.of = a /\ r.read = notice[a].text /\ r.text = text
    BY <1>2, <1>3 DEF AuthorRows
<1>5. AuthorOK(r)
    BY <1>1, <1>3, <1>4, AnnouncementAssumption DEF AuthorOK
<1> QED BY <1>1, <1>2, <1>4, <1>5, ReadingNoticeKeeps DEF ReadNotice

\* What is overtaken by a write, and what not.
LEMMA WroteFacts ==
    ASSUME AnnouncementInv, NEW p \in Authors, NEW r \in AuthorRows, Wrote(p, r)
    PROVE  /\ author' \in [Authors -> AuthorRows] /\ author'[p] = r
           /\ \A q \in Authors \ {p} :
                 /\ author'[q].pc = author[q].pc /\ author'[q].of = author[q].of
                 /\ author'[q].read = author[q].read /\ author'[q].text = author[q].text
                 /\ author[q].stale => author'[q].stale
                 /\ author[q].of = author[p].of /\ author[q].pc # "mail" => author'[q].stale
<1>1. author'[p] = r
    BY DEF Wrote
<1>2. ASSUME NEW q \in Authors \ {p}
      PROVE  /\ author'[q] \in AuthorRows
             /\ author'[q].pc = author[q].pc /\ author'[q].of = author[q].of
             /\ author'[q].read = author[q].read /\ author'[q].text = author[q].text
             /\ author[q].stale => author'[q].stale
             /\ author[q].of = author[p].of /\ author[q].pc # "mail" => author'[q].stale
    <2>1. author'[q] = IF author[q].of = author[p].of /\ author[q].pc # "mail"
                       THEN [author[q] EXCEPT !.stale = TRUE] ELSE author[q]
        BY DEF Wrote
    <2>2. PICK s : s = author[q]
        OBVIOUS
    <2>3. s \in AuthorRows
        BY <2>2, AnnouncementFacts
    <2>4. CASE s.of = author[p].of /\ s.pc # "mail"
        <3>1. author'[q] = [s EXCEPT !.stale = TRUE]
            BY <2>1, <2>2, <2>4
        <3> QED BY <2>2, <2>3, <3>1 DEF AuthorRows
    <2>5. CASE ~(s.of = author[p].of /\ s.pc # "mail")
        BY <2>1, <2>2, <2>3, <2>5
    <2> QED BY <2>4, <2>5
<1>3. author' \in [Authors -> AuthorRows]
    BY <1>1, <1>2 DEF Wrote
<1> QED BY <1>1, <1>2, <1>3

\* A request writes the draft it has read: a new text, or that it is out.
LEMMA WritingNoticeKeeps ==
    ASSUME AnnouncementInv, NEW p \in Authors, NEW a \in Notices, NEW n \in NoticeRows,
           NEW r \in AuthorRows,
           author[p].pc \in {"update", "publish"}, author[p].of = a,
           notice' = [notice EXCEPT ![a] = n], n.text # NoText, mailed' = mailed,
           Wrote(p, r),
           \/ r.pc = "rest"
           \/ /\ r.pc = "mail" /\ r.of = a /\ r.read \in Texts /\ n.published
              /\ ~author[p].stale => r.read = n.text
    PROVE  AnnouncementInv'
<1>1. /\ author' \in [Authors -> AuthorRows] /\ author'[p] = r
      /\ \A q \in Authors \ {p} :
            /\ author'[q].pc = author[q].pc /\ author'[q].of = author[q].of
            /\ author'[q].read = author[q].read /\ author'[q].text = author[q].text
            /\ author[q].stale => author'[q].stale
            /\ author[q].of = a /\ author[q].pc # "mail" => author'[q].stale
    BY WroteFacts
<1>2. /\ notice' \in [Notices -> NoticeRows] /\ notice'[a] = n
      /\ \A b \in Notices \ {a} : notice'[b] = notice[b]
      /\ rewritten' = rewritten \cup {x \in {a} : author[p].stale}
    BY AnnouncementFacts DEF Wrote
<1>3. AnnouncementTypeOK'
    BY <1>1, <1>2 DEF AnnouncementInv, AnnouncementTypeOK, AuthorRows
<1>4. ASSUME NEW q \in Authors PROVE AuthorOK(author[q])'
    <2>1. CASE q = p
        BY <1>1, <1>2, <2>1 DEF AuthorOK
    <2>2. CASE q # p
        <3>1. PICK s, t : s = author[q] /\ t = author'[q]
            OBVIOUS
        <3>2. AuthorOK(s) /\ s \in AuthorRows
            BY <3>1, AnnouncementFacts
        <3>3. /\ t.pc = s.pc /\ t.of = s.of /\ t.read = s.read /\ t.text = s.text
              /\ s.stale => t.stale
              /\ s.of = a /\ s.pc # "mail" => t.stale
            BY <1>1, <2>2, <3>1
        <3>4. AuthorOK(t)'
            BY <1>2, <3>2, <3>3 DEF AuthorOK
        <3> QED BY <3>1, <3>4 DEF AuthorOK
    <2> QED BY <2>1, <2>2
<1>5. ASSUME NEW b \in Notices \ rewritten', b # a PROVE RoundOK(b)'
    <2>1. RoundOK(b)
        BY <1>2, <1>5 DEF AnnouncementInv, OneRound
    <2>2. \A q \in Authors : Mailing(q, b)' => q # p /\ Mailing(q, b)
        BY <1>1, <1>5 DEF Mailing
    <2>3. \A q \in Authors : Mailing(q, b)' => author'[q].read = author[q].read
        BY <1>1, <2>2
    <2> QED BY <1>2, <1>5, <2>1, <2>2, <2>3 DEF RoundOK
<1>6. ASSUME a \notin rewritten' PROVE RoundOK(a)'
    <2>1. ~author[p].stale /\ a \notin rewritten
        BY <1>2, <1>6
    <2>2. ~notice[a].published /\ RoundOK(a)
        BY <2>1, AnnouncementFacts DEF AuthorOK, AnnouncementInv, OneRound
    <2>3. mailed[a] = <<>> /\ \A q \in Authors : ~Mailing(q, a)
        BY <2>2 DEF RoundOK
    <2>4. \A q \in Authors : Mailing(q, a)' => q = p
        BY <1>1, <2>3 DEF Mailing
    <2>5. Mailing(p, a)' => n.published /\ r.read = n.text
        BY <1>1, <2>1 DEF Mailing
    <2> QED BY <1>1, <1>2, <2>3, <2>4, <2>5 DEF RoundOK
<1>7. OneRound'
    BY <1>5, <1>6 DEF OneRound
<1> QED BY <1>3, <1>4, <1>7 DEF AnnouncementInv, AuthorsOK

\* Writing a text, and publishing.
LEMMA WriterKeeps ==
    ASSUME AnnouncementInv, NEW p \in Authors, WriteText(p) \/ MarkPublished(p)
    PROVE  AnnouncementInv'
<1>1. PICK s, a : s = author[p] /\ a = s.of
    OBVIOUS
<1>2. s \in AuthorRows /\ AuthorOK(s) /\ s.pc \in {"update", "publish"} /\ mailed' = mailed
    BY <1>1, AnnouncementFacts DEF WriteText, MarkPublished
<1>3. /\ a \in Notices /\ notice[a] \in NoticeRows /\ notice[a].text # NoText
      /\ notice \in [Notices -> NoticeRows] /\ s.read \in Texts
      /\ s.pc = "update" => s.text \in Texts
      /\ ~s.stale => s.read = notice[a].text
    BY <1>1, <1>2, AnnouncementFacts DEF AuthorOK
<1>4. CASE WriteText(p)
    <2>1. PICK n : n = [notice[a] EXCEPT !.text = s.text]
        OBVIOUS
    <2>2. s.pc = "update" /\ notice' = [notice EXCEPT ![a] = n] /\ Wrote(p, AtRest)
        BY <1>1, <1>3, <1>4, <2>1 DEF WriteText
    <2>3. n \in NoticeRows /\ n.text # NoText
        BY <1>3, <2>1, <2>2, AnnouncementAssumption DEF NoticeRows
    <2> QED BY <1>1, <1>2, <1>3, <2>2, <2>3, AtRestIsOK, WritingNoticeKeeps
<1>5. CASE MarkPublished(p)
    <2>1. PICK n : n = [notice[a] EXCEPT !.published = TRUE]
        OBVIOUS
    <2>2. s.pc = "publish" /\ notice' = [notice EXCEPT ![a] = n]
        BY <1>1, <1>3, <1>5, <2>1 DEF MarkPublished
    <2>3. n \in NoticeRows /\ n.text = notice[a].text /\ n.published
        BY <1>3, <2>1 DEF NoticeRows
    <2>4. PICK r : r = [s EXCEPT !.pc = "mail"]
        OBVIOUS
    <2>5. r \in AuthorRows /\ r.pc = "mail" /\ r.of = a /\ r.read = s.read
        BY <1>1, <1>2, <2>4 DEF AuthorRows
    <2>6. Wrote(p, AtRest) \/ Wrote(p, r)
        BY <1>1, <1>5, <2>4 DEF MarkPublished
    <2>7. CASE Wrote(p, AtRest)
        BY <1>1, <1>2, <1>3, <2>2, <2>3, <2>7, AtRestIsOK, WritingNoticeKeeps
    <2>8. CASE Wrote(p, r)
        BY <1>1, <1>2, <1>3, <2>2, <2>3, <2>5, <2>8, WritingNoticeKeeps
    <2> QED BY <2>6, <2>7, <2>8
<1> QED BY <1>4, <1>5

\* The one round of mails ends.
LEMMA MailAdminsKeeps ==
    ASSUME AnnouncementInv, NEW p \in Authors, MailAdmins(p)
    PROVE  AnnouncementInv'
<1>1. PICK s, a : s = author[p] /\ a = s.of
    OBVIOUS
<1>2. /\ s.pc = "mail" /\ mailed' = [mailed EXCEPT ![a] = Append(@, s.read)]
      /\ \/ notice' = [notice EXCEPT ![a].emailed = TRUE]
         \/ notice' = notice
      /\ author' = [author EXCEPT ![p] = AtRest] /\ rewritten' = rewritten
    BY <1>1 DEF MailAdmins
<1>3. a \in Notices /\ s.read \in Texts
    BY <1>1, <1>2, AnnouncementFacts DEF AuthorOK
<1>4. /\ notice' \in [Notices -> NoticeRows]
      /\ \A b \in Notices : /\ notice'[b].text = notice[b].text
                             /\ notice'[b].published = notice[b].published
    <2>1. notice \in [Notices -> NoticeRows]
        BY AnnouncementFacts
    <2>2. CASE notice' = notice
        BY <2>1, <2>2
    <2>3. CASE notice' = [notice EXCEPT ![a].emailed = TRUE]
        BY <1>3, <2>1, <2>3 DEF NoticeRows
    <2> QED BY <1>2, <2>2, <2>3
<1>5. /\ mailed' \in [Notices -> Seq(Texts)]
      /\ \A b \in Notices \ {a} : mailed'[b] = mailed[b]
      /\ mailed'[a] = Append(mailed[a], s.read)
    BY <1>2, <1>3, AnnouncementFacts
<1>6. /\ author' \in [Authors -> AuthorRows] /\ author'[p] = AtRest
      /\ \A q \in Authors \ {p} : author'[q] = author[q]
    BY <1>2, AnnouncementFacts, AtRestIsOK
<1>7. AnnouncementTypeOK'
    BY <1>2, <1>4, <1>5, <1>6 DEF AnnouncementInv, AnnouncementTypeOK, AuthorRows
<1>8. ASSUME NEW q \in Authors PROVE AuthorOK(author[q])'
    <2>1. CASE q = p
        BY <1>6, <2>1, AtRestIsOK DEF AuthorOK
    <2>2. CASE q # p
        BY <1>4, <1>6, <2>2, AnnouncementFacts DEF AuthorOK
    <2> QED BY <2>1, <2>2
<1>9. \A b \in Notices, q \in Authors : Mailing(q, b)' => q # p /\ Mailing(q, b) /\ author'[q] = author[q]
    BY <1>6, AtRestIsOK DEF Mailing
<1>10. ASSUME NEW b \in Notices \ rewritten', b # a PROVE RoundOK(b)'
    <2>1. RoundOK(b) /\ mailed'[b] = mailed[b]
        BY <1>2, <1>5, <1>10 DEF AnnouncementInv, OneRound
    <2> QED BY <1>4, <1>9, <2>1 DEF RoundOK
<1>11. ASSUME a \notin rewritten' PROVE RoundOK(a)'
    <2>1. RoundOK(a) /\ Mailing(p, a)
        BY <1>1, <1>2, <1>3, <1>11 DEF AnnouncementInv, OneRound, Mailing
    <2>2. mailed[a] = <<>> /\ notice[a].published /\ s.read = notice[a].text
        BY <1>1, <2>1 DEF RoundOK
    <2>3. mailed'[a] = <<notice[a].text>>
        BY <1>5, <2>2
    <2>4. \A q \in Authors : ~Mailing(q, a)'
        BY <1>3, <1>9, <2>1 DEF RoundOK
    <2> QED BY <1>3, <1>4, <2>2, <2>3, <2>4 DEF RoundOK
<1>12. OneRound'
    BY <1>10, <1>11 DEF OneRound
<1> QED BY <1>7, <1>8, <1>12 DEF AnnouncementInv, AuthorsOK

\* A notice is drafted, or removed: what it says and whether it is out stays, but for a new one.
LEMMA DraftingKeeps ==
    ASSUME AnnouncementInv, NEW a \in Notices, CreateAnnouncement(a) \/ DeleteAnnouncement(a)
    PROVE  AnnouncementInv'
<1>1. UNCHANGED <<mailed, author, rewritten>>
    BY DEF CreateAnnouncement, DeleteAnnouncement
<1>2. /\ notice' \in [Notices -> NoticeRows]
      /\ \A b \in Notices : notice'[b].published = notice[b].published
      /\ \A b \in Notices : notice[b].text # NoText => notice'[b].text = notice[b].text
    <2>1. CASE CreateAnnouncement(a)
        <3>1. PICK text \in Texts : notice' = [notice EXCEPT ![a].text = text]
            BY <2>1 DEF CreateAnnouncement
        <3>2. notice \in [Notices -> NoticeRows]
            BY AnnouncementFacts
        <3>3. notice[a].text = NoText
            BY <2>1 DEF CreateAnnouncement, NotDrafted
        <3> QED BY <3>1, <3>2, <3>3 DEF NoticeRows
    <2>2. CASE DeleteAnnouncement(a)
        <3>1. notice' = [notice EXCEPT ![a].deleted = TRUE]
            BY <2>2 DEF DeleteAnnouncement
        <3>2. notice \in [Notices -> NoticeRows]
            BY AnnouncementFacts
        <3> QED BY <3>1, <3>2 DEF NoticeRows
    <2> QED BY <2>1, <2>2
<1>3. AnnouncementTypeOK'
    BY <1>1, <1>2 DEF AnnouncementInv, AnnouncementTypeOK
<1>4. ASSUME NEW q \in Authors PROVE AuthorOK(author[q])'
    BY <1>1, <1>2, AnnouncementFacts DEF AuthorOK
<1>5. ASSUME NEW b \in Notices \ rewritten PROVE RoundOK(b)'
    <2>1. RoundOK(b) /\ mailed \in [Notices -> Seq(Texts)]
        BY <1>5, AnnouncementFacts DEF AnnouncementInv, OneRound
    <2>2. \A q \in Authors : Mailing(q, b)' <=> Mailing(q, b)
        BY <1>1 DEF Mailing
    <2>3. mailed[b] # <<>> => notice[b].text # NoText
        <3>1. SUFFICES ASSUME mailed[b] = <<notice[b].text>> PROVE notice[b].text # NoText
            BY <2>1 DEF RoundOK
        <3>2. Len(mailed[b]) = 1 /\ mailed[b][1] = notice[b].text
            BY <3>1
        <3>3. mailed[b] \in Seq(Texts)
            BY <1>5, <2>1
        <3>4. mailed[b][1] \in Texts
            BY <3>2, <3>3
        <3> QED BY <3>2, <3>4, AnnouncementAssumption
    <2>4. \A q \in Authors : Mailing(q, b) => notice[b].text # NoText
        BY AnnouncementFacts DEF Mailing, AuthorOK
    <2> QED BY <1>1, <1>2, <1>5, <2>1, <2>2, <2>3, <2>4 DEF RoundOK
<1>6. OneRound'
    BY <1>1, <1>5 DEF OneRound
<1> QED BY <1>3, <1>4, <1>6 DEF AnnouncementInv, AuthorsOK

\* Every step of the announcements.
LEMMA AnnouncementStep == AnnouncementInv /\ [AnnouncementNext]_noticeVars => AnnouncementInv'
<1> SUFFICES ASSUME AnnouncementInv, [AnnouncementNext]_noticeVars PROVE AnnouncementInv'
    OBVIOUS
<1>1. ASSUME NEW p \in Authors, Interrupted(p) PROVE AnnouncementInv'
    BY <1>1, AtRestIsOK, ReadingNoticeKeeps DEF Interrupted, AuthorOK
<1>2. CASE UNCHANGED noticeVars
    BY <1>2 DEF noticeVars, AnnouncementInv, AnnouncementTypeOK, AuthorsOK, AuthorOK, OneRound,
                RoundOK, Mailing
<1> QED BY <1>1, <1>2, DraftingKeeps, DeciderKeeps, WriterKeeps, MailAdminsKeeps
        DEF AnnouncementNext

\* One round says one thing.
LEMMA AnnouncementSuffices == AnnouncementInv => OneVersionUnlessRaced
<1> SUFFICES ASSUME AnnouncementInv, NEW a \in Notices \ rewritten
             PROVE  /\ Len(mailed[a]) <= 1
                    /\ \A n \in DOMAIN mailed[a] : mailed[a][n] = notice[a].text
    BY DEF OneVersionUnlessRaced
<1>1. mailed[a] = <<>> \/ mailed[a] = <<notice[a].text>>
    BY DEF AnnouncementInv, OneRound, RoundOK
<1>2. PICK m, text : m = mailed[a] /\ text = notice[a].text
    OBVIOUS
<1>3. CASE m = <<>>
    BY <1>2, <1>3
<1>4. CASE m = <<text>>
    <2>1. Len(m) = 1 /\ DOMAIN m = 1 .. 1 /\ m[1] = text
        BY <1>4
    <2> QED BY <1>2, <2>1
<1> QED BY <1>1, <1>2, <1>3, <1>4

-----------------------------------------------------------------------------
(***************************************************************************)
(* The bell: what a request that clears one has filtered by is what its    *)
(* user is shown, as long as nothing new has come for them.                *)
(***************************************************************************)

ToldRows == [n : 0 .. MaxDeeds, event : EventsHere, to : Members, by : Members, read : BOOLEAN]
TabRows  == [at : {"shut", "filtered"}, who : Members \cup {NoMember},
             audiences : SUBSET {"all", "trialing", "active"}, news : BOOLEAN]

DeedOK ==
    deed # NoDeed => /\ deed.event \in EventsHere /\ deed.actor \in Members /\ deed.named \in Members
                     /\ deeds < MaxDeeds

TabOK(r) == r.at = "filtered" => r.who \in Members /\ (~r.news => r.audiences = Audiences)

TabsOK == tab \in [Tabs -> TabRows] /\ \A t \in Tabs : TabOK(tab[t])

NoticesInv == NoticesTypeOK /\ BellTrusted /\ DeedOK /\ TabsOK

\* A bell that nobody clears.
LEMMA ShutIsOK == Shut \in TabRows /\ Shut.at = "shut"
    BY DEF Shut, TabRows

\* Nobody has been told anything.
LEMMA NoticesBegin == NoticesInit => NoticesInv
<1> SUFFICES ASSUME NoticesInit PROVE NoticesInv
    OBVIOUS
<1>1. rule \in [EventsHere -> [in_app : BOOLEAN, roles : SUBSET {"sales"}]]
    BY DEF NoticesInit, Unsaid
<1>2. NoticesTypeOK
    <2>1. told = {} /\ deeds = 0 /\ posted = {} /\ seen = [m \in Members |-> {}] /\ half = FALSE
        BY DEF NoticesInit
    <2>2. deeds \in 0 .. MaxDeeds
        BY <2>1, NoticesAssumption
    <2> QED BY <1>1, <2>1, <2>2 DEF NoticesTypeOK
<1>3. TabsOK
    BY ShutIsOK DEF NoticesInit, TabsOK, TabOK
<1> QED BY <1>2, <1>3 DEF NoticesInit, NoticesInv, BellTrusted, DeedOK

\* The invariant spelt out.
LEMMA NoticesFacts ==
    ASSUME NoticesInv
    PROVE  /\ rule \in [EventsHere -> [in_app : BOOLEAN, roles : SUBSET {"sales"}]]
           /\ told \subseteq ToldRows /\ deeds \in 0 .. MaxDeeds /\ MaxDeeds \in Nat
           /\ posted \subseteq Posts /\ seen \in [Members -> SUBSET Posts] /\ half = FALSE
           /\ \A r \in told : r.to # r.by
           /\ tab \in [Tabs -> TabRows] /\ \A t \in Tabs : tab[t] \in TabRows /\ TabOK(tab[t])
BY NoticesAssumption DEF NoticesInv, NoticesTypeOK, BellTrusted, TabsOK, ToldRows

\* Something new marks the bells of those it came for, and nothing else of them.
LEMMA RingsFacts ==
    ASSUME NoticesInv, NEW ms, Rings(ms)
    PROVE  /\ tab' \in [Tabs -> TabRows]
           /\ \A t \in Tabs : /\ tab'[t].at = tab[t].at /\ tab'[t].who = tab[t].who
                              /\ tab'[t].audiences = tab[t].audiences
                              /\ tab[t].news => tab'[t].news
                              /\ tab[t].who \in ms => tab'[t].news
<1>1. ASSUME NEW t \in Tabs
      PROVE  /\ tab'[t] \in TabRows
             /\ tab'[t].at = tab[t].at /\ tab'[t].who = tab[t].who
             /\ tab'[t].audiences = tab[t].audiences
             /\ tab[t].news => tab'[t].news
             /\ tab[t].who \in ms => tab'[t].news
    <2>1. PICK r : r = tab[t]
        OBVIOUS
    <2>2. r \in TabRows
        BY <2>1, NoticesFacts
    <2>3. CASE r.who \in ms
        <3>1. tab'[t] = [r EXCEPT !.news = TRUE]
            BY <2>1, <2>3 DEF Rings
        <3> QED BY <2>1, <2>2, <3>1 DEF TabRows
    <2>4. CASE r.who \notin ms
        <3>1. tab'[t] = r
            BY <2>1, <2>4 DEF Rings
        <3> QED BY <2>1, <2>2, <2>4, <3>1
    <2> QED BY <2>3, <2>4
<1>2. tab' = [t \in Tabs |-> tab'[t]]
    BY DEF Rings
<1> QED BY <1>1, <1>2

\* A bell that rings is none the worse.
LEMMA RingingKeeps ==
    ASSUME NoticesInv, NEW ms, Rings(ms), standing' = standing \/ Members \subseteq ms
    PROVE  TabsOK'
<1>1. /\ tab' \in [Tabs -> TabRows]
      /\ \A t \in Tabs : /\ tab'[t].at = tab[t].at /\ tab'[t].who = tab[t].who
                         /\ tab'[t].audiences = tab[t].audiences
                         /\ tab[t].news => tab'[t].news
                         /\ tab[t].who \in ms => tab'[t].news
    BY RingsFacts
<1>2. standing' = standing => Audiences' = Audiences
    BY DEF Audiences, Matches
<1>3. ASSUME NEW t \in Tabs PROVE TabOK(tab[t])'
    <2>1. TabOK(tab[t])
        BY NoticesFacts
    <2> QED BY <1>1, <1>2, <2>1 DEF TabOK
<1> QED BY <1>1, <1>3 DEF TabsOK

\* Rules, deeds that begin and fail, posts and the agency's standing.
LEMMA HappeningKeeps ==
    ASSUME NoticesInv,
           \/ \E e \in EventsHere : SetRule(e)
           \/ \E e \in EventsHere, a \in Members, m \in Members : StartDeed(e, a, m)
           \/ FailDeed \/ ChangeStanding
           \/ \E a \in Posts : Post(a)
    PROVE  NoticesInv'
<1>1. UNCHANGED <<told, deeds, seen, half>>
    BY DEF SetRule, StartDeed, FailDeed, ChangeStanding, Post
<1>2. TabsOK'
    <2>1. CASE UNCHANGED <<tab, standing>>
        BY <2>1 DEF NoticesInv, TabsOK, TabOK, Audiences, Matches
    <2>2. CASE Rings(Members)
        BY <2>2, RingingKeeps
    <2> QED BY <2>1, <2>2 DEF SetRule, StartDeed, FailDeed, ChangeStanding, Post
<1>3. rule' \in [EventsHere -> [in_app : BOOLEAN, roles : SUBSET {"sales"}]]
    <2>1. CASE \E e \in EventsHere : SetRule(e)
        <3>1. PICK e \in EventsHere, b \in BOOLEAN, roles \in {{}, {"sales"}} :
                  rule' = [rule EXCEPT ![e] = [in_app |-> b,
                                               roles |-> IF e \in Directed THEN {} ELSE roles]]
            BY <2>1 DEF SetRule
        <3>2. [in_app |-> b, roles |-> IF e \in Directed THEN {} ELSE roles]
                  \in [in_app : BOOLEAN, roles : SUBSET {"sales"}]
            OBVIOUS
        <3> QED BY <3>1, <3>2, NoticesFacts
    <2>2. CASE rule' = rule
        BY <2>2, NoticesFacts
    <2> QED BY <2>1, <2>2 DEF StartDeed, FailDeed, ChangeStanding, Post
<1>4. posted' \subseteq Posts
    BY NoticesFacts DEF SetRule, StartDeed, FailDeed, ChangeStanding, Post
<1>5. DeedOK'
    <2>1. CASE \E e \in EventsHere, a \in Members, m \in Members : StartDeed(e, a, m)
        BY <1>1, <2>1 DEF StartDeed, DeedOK
    <2>2. CASE deed' = deed \/ deed' = NoDeed
        BY <1>1, <2>2 DEF NoticesInv, DeedOK, NoDeed
    <2> QED BY <2>1, <2>2 DEF SetRule, FailDeed, ChangeStanding, Post
<1>6. NoticesTypeOK'
    BY <1>1, <1>3, <1>4, NoticesFacts DEF NoticesTypeOK, ToldRows
<1>7. BellTrusted'
    BY <1>1 DEF NoticesInv, BellTrusted
<1> QED BY <1>2, <1>5, <1>6, <1>7 DEF NoticesInv

\* Whoever did it is not told.
LEMMA NotifyKeeps ==
    ASSUME NoticesInv, Notify
    PROVE  NoticesInv'
<1>1. PICK to : to = IF deed.in_app THEN Audience(deed) ELSE {}
    OBVIOUS
<1>2. PICK d : d = deed
    OBVIOUS
<1>3. /\ d # NoDeed /\ Rings(to) /\ deeds' = deeds + 1 /\ deed' = NoDeed
      /\ told' = told \cup {[n |-> deeds, event |-> d.event, to |-> m, by |-> d.actor,
                             read |-> FALSE] : m \in to}
      /\ UNCHANGED <<rule, standing, posted, seen, half>>
    BY <1>1, <1>2 DEF Notify
<1>4. d.event \in EventsHere /\ d.actor \in Members /\ d.named \in Members /\ deeds < MaxDeeds
    BY <1>2, <1>3 DEF NoticesInv, DeedOK
<1>5. to \subseteq Members \ {d.actor}
    BY <1>1, <1>2, <1>4 DEF Audience
<1>6. deeds \in 0 .. MaxDeeds /\ deeds' \in 0 .. MaxDeeds
    BY <1>3, <1>4, NoticesFacts
<1>7. ASSUME NEW r \in told' PROVE r \in ToldRows /\ r.to # r.by
    <2>1. CASE r \in told
        BY <2>1, NoticesFacts
    <2>2. CASE \E m \in to : r = [n |-> deeds, event |-> d.event, to |-> m, by |-> d.actor, read |-> FALSE]
        BY <1>4, <1>5, <1>6, <2>2 DEF ToldRows
    <2> QED BY <1>3, <2>1, <2>2
<1>8. NoticesTypeOK'
    BY <1>3, <1>6, <1>7, NoticesFacts DEF NoticesTypeOK, ToldRows
<1>9. BellTrusted'
    BY <1>3, <1>7, NoticesFacts DEF BellTrusted
<1>10. TabsOK'
    BY <1>3, RingingKeeps
<1> QED BY <1>3, <1>8, <1>9, <1>10 DEF NoticesInv, DeedOK

\* Reading marks what was told, and what was posted; it tells nobody.
LEMMA ReadMarks ==
    ASSUME NoticesInv, NEW r \in told, NEW s, s = [r EXCEPT !.read = TRUE]
    PROVE  s \in ToldRows /\ s.to # s.by /\ s.to = r.to /\ s.read
<1>1. r \in ToldRows /\ r.to # r.by
    BY NoticesFacts
<1> QED BY <1>1 DEF ToldRows

\* One entry is read, or a bell opened.
LEMMA ReadKeeps ==
    ASSUME NoticesInv, NEW m \in Members, MarkRead(m) \/ \E t \in Tabs : OpenBell(t, m)
    PROVE  NoticesInv'
<1>1. UNCHANGED <<rule, deed, deeds, standing, posted, half>>
    BY DEF MarkRead, OpenBell
<1>2. \A r \in told' : r \in ToldRows /\ r.to # r.by
    <2>1. CASE told' = told
        BY <2>1, NoticesFacts
    <2>2. CASE \E r \in Mine(m) : told' = (told \ {r}) \cup {[r EXCEPT !.read = TRUE]}
        BY <2>2, NoticesFacts, ReadMarks DEF Mine
    <2> QED BY <2>1, <2>2 DEF MarkRead, OpenBell
<1>3. seen' \in [Members -> SUBSET Posts]
    <2>1. CASE seen' = seen
        BY <2>1, NoticesFacts
    <2>2. CASE \E a \in Panel(m).posts : seen' = [seen EXCEPT ![m] = @ \cup {a}]
        <3>1. Panel(m).posts \subseteq Posts
            BY NoticesFacts DEF Panel
        <3> QED BY <2>2, <3>1, NoticesFacts
    <2> QED BY <2>1, <2>2 DEF MarkRead, OpenBell
<1>4. Audiences' = Audiences /\ Audiences \subseteq {"all", "trialing", "active"}
    BY <1>1 DEF Audiences, Matches
<1>5. TabsOK'
    <2>1. CASE MarkRead(m)
        BY <1>4, <2>1 DEF MarkRead, NoticesInv, TabsOK, TabOK
    <2>2. CASE \E t \in Tabs : OpenBell(t, m)
        <3>1. PICK t \in Tabs : OpenBell(t, m)
            BY <2>2
        <3>2. PICK r : r = [at |-> "filtered", who |-> m, audiences |-> Audiences, news |-> FALSE]
            OBVIOUS
        <3>3. r \in TabRows /\ r.audiences = Audiences /\ r.who = m
            BY <1>4, <3>2 DEF TabRows
        <3>4. tab' = [tab EXCEPT ![t] = r]
            BY <3>1, <3>2 DEF OpenBell
        <3>5. /\ tab' \in [Tabs -> TabRows]
              /\ \A u \in Tabs : tab'[u] = IF u = t THEN r ELSE tab[u]
            BY <3>3, <3>4, NoticesFacts
        <3>6. \A u \in Tabs : TabOK(tab'[u])
            BY <3>3, <3>5, NoticesFacts DEF TabOK
        <3> QED BY <1>4, <3>5, <3>6 DEF TabsOK, TabOK
    <2> QED BY <2>1, <2>2
<1>6. NoticesTypeOK'
    BY <1>1, <1>2, <1>3, NoticesFacts DEF NoticesTypeOK, ToldRows
<1>7. BellTrusted'
    BY <1>1, <1>2, NoticesFacts DEF BellTrusted
<1> QED BY <1>1, <1>5, <1>6, <1>7 DEF NoticesInv, DeedOK

\* After clearing nothing is unread, of what was told or of what was posted.
LEMMA ClearKeeps ==
    ASSUME NoticesInv, NEW m \in Members, NEW t \in Tabs, ClearBell(t, m)
    PROVE  NoticesInv'
<1>1. PICK c : c = tab[t]
    OBVIOUS
<1>2. /\ c.at = "filtered" /\ c.who = m
      /\ told' = Cleared(m)
      /\ seen' = [seen EXCEPT ![m] = @ \cup UnreadPosts(m, c.audiences)]
      /\ tab' = [tab EXCEPT ![t] = Shut]
      /\ UNCHANGED <<rule, deed, deeds, standing, posted>>
      /\ half' = (half \/ (~c.news /\ Badge(m)' > 0))
    BY <1>1 DEF ClearBell
<1>3. \A r \in told' : r \in ToldRows /\ r.to # r.by /\ (r.to = m => r.read)
    <2> SUFFICES ASSUME NEW s \in told
                 PROVE  \A r : r = (IF s.to = m THEN [s EXCEPT !.read = TRUE] ELSE s)
                                => r \in ToldRows /\ r.to # r.by /\ (r.to = m => r.read)
        BY <1>2 DEF Cleared
    <2>1. CASE s.to = m
        BY <2>1, ReadMarks
    <2>2. CASE s.to # m
        BY <2>2, NoticesFacts
    <2> QED BY <2>1, <2>2
<1>4. UnreadPosts(m, c.audiences) \subseteq Posts
    BY NoticesFacts DEF UnreadPosts
<1>5. /\ seen' \in [Members -> SUBSET Posts]
      /\ seen'[m] = seen[m] \cup UnreadPosts(m, c.audiences)
    BY <1>2, <1>4, NoticesFacts
<1>6. Audiences' = Audiences
    BY <1>2 DEF Audiences, Matches
<1>7. ASSUME ~c.news PROVE Badge(m)' = 0
    <2>1. {r \in Mine(m) : ~r.read}' = {}
        <3>1. \A r \in told' : r.to = m => r.read
            BY <1>3
        <3>2. {r \in {s \in told' : s.to = m} : ~r.read} = {}
            BY <3>1
        <3> QED BY <3>2 DEF Mine
    <2>2. c.audiences = Audiences
        BY <1>1, <1>2, <1>7, NoticesFacts DEF TabOK
    <2>3. UnreadPosts(m, Audiences)' = {}
        BY <1>2, <1>5, <1>6, <2>2 DEF UnreadPosts
    <2>4. Cardinality({r \in Mine(m) : ~r.read}') = 0 /\ Cardinality(UnreadPosts(m, Audiences)') = 0
        BY <2>1, <2>3, FS_EmptySet
    <2> QED BY <2>4 DEF Badge
<1>8. half' = FALSE
    <2>1. CASE c.news
        BY <1>2, <2>1, NoticesFacts
    <2>2. CASE ~c.news
        <3>1. ~(Badge(m)' > 0)
            BY <1>7, <2>2
        <3>2. half = FALSE
            BY NoticesFacts
        <3> QED BY <1>2, <3>1, <3>2, Zenon
    <2> QED BY <2>1, <2>2
<1>9. TabsOK'
    <2>1. /\ tab' \in [Tabs -> TabRows]
          /\ \A u \in Tabs : tab'[u] = IF u = t THEN Shut ELSE tab[u]
        BY <1>2, NoticesFacts, ShutIsOK
    <2>2. \A u \in Tabs : TabOK(tab'[u])
        BY <2>1, NoticesFacts, ShutIsOK DEF TabOK
    <2> QED BY <1>6, <2>1, <2>2 DEF TabsOK, TabOK
<1>10. NoticesTypeOK'
    BY <1>2, <1>3, <1>5, <1>8, NoticesFacts DEF NoticesTypeOK, ToldRows
<1>11. BellTrusted'
    BY <1>3, <1>8 DEF BellTrusted
<1>12. DeedOK'
    BY <1>2 DEF NoticesInv, DeedOK
<1> QED BY <1>9, <1>10, <1>11, <1>12 DEF NoticesInv

\* Every step of the bell.
LEMMA NoticesStep == NoticesInv /\ [NoticesNext]_noticesVars => NoticesInv'
<1>1. NoticesInv /\ UNCHANGED noticesVars => NoticesInv'
    BY DEF noticesVars, NoticesInv, NoticesTypeOK, BellTrusted, DeedOK, TabsOK, TabOK, Audiences,
           Matches
<1> QED BY <1>1, HappeningKeeps, NotifyKeeps, ReadKeeps, ClearKeeps DEF NoticesNext

-----------------------------------------------------------------------------
(***************************************************************************)
(* All the parts together.  A step of PlatformNext is a step of one part,  *)
(* and leaves the others as they are.                                      *)
(***************************************************************************)

PlatformInv ==
    /\ TeamInv /\ CatalogueInv /\ WarnInv /\ AnnouncementInv
    /\ BusInv /\ NoticesInv /\ RatesInv /\ ServerInv

\* All parts have their invariants, always.
LEMMA PlatformAlways == PlatformSpec => []PlatformInv
<1>1. PlatformInit => PlatformInv
    BY TeamInit, CatalogueBegins, WarnBegins, AnnouncementBegins, BusBegins, NoticesBegin,
       RatesBegin, ServerBegins DEF PlatformInit, PlatformInv
<1>2. PlatformInv /\ [PlatformNext]_platformVars => PlatformInv'
    <2> SUFFICES ASSUME PlatformInv, [PlatformNext]_platformVars PROVE PlatformInv'
        OBVIOUS
    <2>1. /\ [OperatorsNext]_operatorVars /\ [CatalogueNext]_catalogueVars
          /\ [SubscriptionNext]_subscriptionVars /\ [AnnouncementNext]_noticeVars
          /\ [BusNext]_busVars /\ [NoticesNext]_noticesVars
          /\ [RatesNext]_ratesVars /\ [ServerNext]_serverVars
        <3>1. CASE PlatformNext
            BY <3>1 DEF PlatformNext, OthersRest
        <3>2. CASE UNCHANGED platformVars
            BY <3>2 DEF platformVars
        <3> QED BY <3>1, <3>2
    <2>2. TeamInv' /\ CatalogueInv' /\ WarnInv' /\ AnnouncementInv'
        BY <2>1, TeamStep, CatalogueStep, WarnStep, AnnouncementStep DEF PlatformInv
    <2>3. BusInv' /\ NoticesInv' /\ RatesInv' /\ ServerInv'
        BY <2>1, BusStep, NoticesStep, RatesStep, ServerStep DEF PlatformInv
    <2> QED BY <2>2, <2>3 DEF PlatformInv
<1> QED BY <1>1, <1>2, PTL DEF PlatformSpec

\* For any plans, requests and notices: two overlapping changes apart, who signs up lands on a
\* plan that was on sale (platformSettings.service.ts), and a notice goes out in one version
\* (announcement.service.ts).
THEOREM CustomersAreServed == PlatformSpec => []CustomersServedUnlessRaced
<1>1. PlatformInv => CustomersServedUnlessRaced
    BY AnnouncementSuffices DEF PlatformInv, CatalogueInv, CustomersServedUnlessRaced
<1> QED BY <1>1, PlatformAlways, PTL

\* For any colleagues, providers, days and sockets: nobody hears of their own deeds and a cleared
\* bell is silent, a payment has a plausible rate of the sync that asked last, and the map of
\* sockets holds what is open and no more.
THEOREM SharedStateIsTrusted == PlatformSpec => []SharedStateTrusted
<1>1. PlatformInv => SharedStateTrusted
    BY RatesSuffice, ServerSuffices DEF PlatformInv, NoticesInv, SharedStateTrusted
<1> QED BY <1>1, PlatformAlways, PTL

\* Every variable of the parts keeps its type.
THEOREM PlatformTypes == PlatformSpec => []PlatformTypeOK
<1>1. PlatformInv => PlatformTypeOK
    BY DEF PlatformInv, TeamInv, CatalogueInv, WarnInv, AnnouncementInv, BusInv, NoticesInv,
           RatesInv, ServerInv, PlatformTypeOK
<1> QED BY <1>1, PlatformAlways, PTL
=============================================================================
