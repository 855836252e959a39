------------------------------ MODULE Operators ------------------------------
(***************************************************************************)
(* The platform team: operators who have accepted an invite are approved,  *)
(* given permissions and removed, by other operators.  Every handler reads *)
(* the target, counts who would be left, and then writes by id; only the   *)
(* write is in a transaction, so what was counted may have changed.        *)
(***************************************************************************)
EXTENDS Naturals, FiniteSets

CONSTANTS Consoles,    \* requests under way
          Operators,
          Seeded,      \* the operator that utils/seed.ts creates
          NoOperator

ASSUME OperatorsAssumption == Seeded \in Operators /\ NoOperator \notin Operators

VARIABLES operator,    \* operator[o]: a row of users whose role is super_admin
          console,     \* console[p]: what request p has decided to write
          crossed      \* ghost: some request wrote although another had written since it read

operatorVars == <<operator, console, crossed>>

-----------------------------------------------------------------------------
\* Of the permissions only one matters here: whether they let their holder
\* manage the team.  An empty list does, since it means everything.
OperatorRows == [status : {"none", "pending", "active", "suspended"}, deleted : BOOLEAN,
                 manages : BOOLEAN]
NotJoined == [status |-> "none", deleted |-> FALSE, manages |-> FALSE]

Resting == [op |-> "none", of |-> NoOperator, manages |-> FALSE, stale |-> FALSE]

Present(o) == operator[o].status # "none" /\ ~operator[o].deleted
Active(o)  == Present(o) /\ operator[o].status = "active"

\* Who passes checkAuth and requirePermission("platform.admins.manage").  checkAuth asks for
\* the status and not for deleted_at.
MayManage(o) == operator[o].status = "active" /\ operator[o].manages

OperatorsInit ==
    /\ operator = [o \in Operators |->
                      IF o = Seeded THEN [status |-> "active", deleted |-> FALSE, manages |-> TRUE]
                      ELSE NotJoined]
    /\ console = [p \in Consoles |-> Resting]
    /\ crossed = FALSE

Decide(p, op, o, manages) ==
    /\ console[p].op = "none"
    /\ console' = [console EXCEPT ![p] = [op |-> op, of |-> o, manages |-> manages, stale |-> FALSE]]
    /\ UNCHANGED <<operator, crossed>>

-----------------------------------------------------------------------------
\* The last step of accepting a platform invite, with the permissions it carries.
JoinPlatform(o) ==
    /\ operator[o] = NotJoined
    /\ \E manages \in BOOLEAN :
          operator' = [operator EXCEPT ![o] = [status |-> "pending", deleted |-> FALSE,
                                               manages |-> manages]]
    /\ UNCHANGED <<console, crossed>>

ApproveAdmin(p, o) ==
    /\ \E caller \in Operators : MayManage(caller)
    /\ Present(o) /\ operator[o].status = "pending"
    /\ Decide(p, "approve", o, FALSE)

\* Mutant of OthersWhoManage: a suspended or pending operator counts.
WhateverTheirStatus(o) == {q \in Operators \ {o} : Present(q) /\ operator[q].manages}

OthersWhoManage(o) == {q \in Operators \ {o} : Active(q) /\ operator[q].manages}

SetPermissions(p, o) ==
    \E manages \in BOOLEAN :
        /\ \E caller \in Operators : MayManage(caller)
        /\ Present(o)
        /\ ~manages => OthersWhoManage(o) # {}
        /\ Decide(p, "permissions", o, manages)

Remaining(o) == {q \in Operators \ {o} : Active(q)}

RemoveAdmin(p, o) ==
    /\ \E caller \in Operators \ {o} : MayManage(caller)
    /\ Present(o) /\ Remaining(o) # {}
    /\ Decide(p, "remove", o, FALSE)

WriteOperator(p) ==
    LET r == console[p] IN
    /\ r.op # "none"
    /\ operator' = [operator EXCEPT ![r.of] =
          CASE r.op = "approve"     -> [@ EXCEPT !.status = "active"]
            [] r.op = "permissions" -> [@ EXCEPT !.manages = r.manages]
            [] r.op = "remove"      -> [@ EXCEPT !.status = "suspended", !.deleted = TRUE]]
    /\ crossed' = (crossed \/ r.stale)
    /\ console' = [q \in Consoles |->
                      IF q = p THEN Resting
                      ELSE [console[q] EXCEPT !.stale = console[q].op # "none"]]

OperatorsNext ==
    \/ \E o \in Operators : JoinPlatform(o)
    \/ \E p \in Consoles, o \in Operators :
          ApproveAdmin(p, o) \/ SetPermissions(p, o) \/ RemoveAdmin(p, o)
    \/ \E p \in Consoles : WriteOperator(p)

OperatorsSpec == OperatorsInit /\ [][OperatorsNext]_operatorVars

-----------------------------------------------------------------------------
OperatorsTypeOK ==
    /\ operator \in [Operators -> OperatorRows]
    /\ console \in [Consoles -> [op : {"none", "approve", "permissions", "remove"},
                                 of : Operators \cup {NoOperator}, manages : BOOLEAN,
                                 stale : BOOLEAN]]
    /\ crossed \in BOOLEAN

(***************************************************************************)
(* "Somebody has to be able to hand permissions out"                       *)
(* (platformAdmin.service.ts): an active operator who can manage the team  *)
(* remains, unless two changes to the team overlapped.  removeAdmin counts *)
(* operators of any permission; it is safe because nobody removes          *)
(* themselves and whoever removes another can manage the team.             *)
(***************************************************************************)
ManagerRemainsUnlessRaced == ~crossed => \E o \in Operators : Active(o) /\ operator[o].manages

(***************************************************************************)
(* A removed operator cannot sign in again.  checkAuth looks at the status *)
(* alone, so approving somebody who is being removed would let them in.    *)
(***************************************************************************)
RemovedStaysOutUnlessRaced ==
    ~crossed => \A o \in Operators : operator[o].deleted => operator[o].status # "active"

(***************************************************************************)
(* Two overlapping changes apart, the platform team keeps somebody who can *)
(* manage it, and whoever was removed from it stays out.                   *)
(***************************************************************************)
TeamKeptUnlessRaced == ManagerRemainsUnlessRaced /\ RemovedStaysOutUnlessRaced
=============================================================================
