-------------------------------- MODULE Team --------------------------------
(***************************************************************************)
(* The people of one company: creating, editing and deleting users,        *)
(* joining from an invite, and approving or turning down who joined, by    *)
(* concurrent requests of its admins.  Two guards share the rows: the      *)
(* seats of the plan, checked under a lock on the subscription, and the    *)
(* last admin, checked under a lock on every admin's row.                  *)
(*                                                                         *)
(* As in Ledger, an action is a statement of a READ COMMITTED transaction  *)
(* and what a request wrote appears when it commits.  The row a request    *)
(* was made about is read before its transaction opens.                    *)
(***************************************************************************)
EXTENDS Naturals, FiniteSets

CONSTANTS Requests,
          Users,       \* ids of users; the first registered the company
          Founder,
          MaxSeats,    \* max_seats of the plan; no plan is one with room for all
          UserEdits,   \* the payloads of updateUser, "keep" for a field left out
          NoUser

Roles == {"admin", "member"}    \* sales, project_manager and operations alike

ASSUME TeamAssumption ==
    /\ IsFiniteSet(Users)
    /\ Founder \in Users
    /\ MaxSeats \in Nat \ {0}
    /\ UserEdits \subseteq [role : Roles \cup {"keep"}, status : {"keep", "active", "suspended"}]
    /\ NoUser \notin Users

VARIABLES colleague,  \* colleague[u]: the row of u
          req,        \* req[p]: what request p is doing
          seated,     \* ghost: who came in by createUser, approveMember or register
          raced       \* ghost: a request wrote a row that another one had changed
                    \* since it was read

vars == <<colleague, req, seated, raced>>

-----------------------------------------------------------------------------
NotYet  == [state |-> "none", role |-> "member", status |-> "pending", deleted |-> FALSE]
UserRow == [state : {"none", "there"}, role : Roles,
            status : {"pending", "active", "suspended"}, deleted : BOOLEAN]

Idle == [pc |-> "idle", op |-> "none", target |-> NoUser, role |-> "keep", status |-> "keep",
         rows |-> {}, stale |-> FALSE]

PCs == {"idle", "lockSeats", "countSeats", "findAdmins", "lockAdmins", "readTarget",
        "countAdmins", "updateRow", "commit"}
Ops == {"none", "create", "approve", "reject", "update", "delete"}

Request == [pc : PCs, op : Ops, target : Users \cup {NoUser}, role : Roles \cup {"keep"},
            status : {"keep", "active", "suspended"}, rows : SUBSET Users, stale : BOOLEAN]

-----------------------------------------------------------------------------
(* What the statements read.                                               *)

Member(u)  == colleague[u].state = "there" /\ ~colleague[u].deleted
Members    == {u \in Users : Member(u)}
Pending(u) == Member(u) /\ colleague[u].status = "pending"
Admins     == {u \in Members : colleague[u].role = "admin" /\ colleague[u].status = "active"}

\* lockRow(organizationAdmins) asks for the role alone.
AdminRows  == {u \in Users : colleague[u].state = "there" /\ colleague[u].role = "admin"}

(***************************************************************************)
(* Locks, held until the transaction ends: the subscription, the rows      *)
(* lockRow(organizationAdmins) returned, and the row that was updated.     *)
(***************************************************************************)
\* Mutant of HoldsSeats: the seats are counted without the lock.
NoSeatLock(p) == FALSE

HoldsSeats(p) ==
    req[p].op \in {"create", "approve"} /\ req[p].pc \in {"countSeats", "updateRow", "commit"}

\* Mutant of HoldsAdmins: the admins are counted without their lock.
NoAdminLock(p, u) == FALSE

HoldsAdmins(p, u) ==
    u \in req[p].rows /\ req[p].pc \in {"readTarget", "countAdmins", "updateRow", "commit"}

HoldsUser(p, u) == HoldsAdmins(p, u) \/ (req[p].pc = "commit" /\ req[p].target = u)

Free(p, u) == \A q \in Requests \ {p} : ~HoldsUser(q, u)

-----------------------------------------------------------------------------
Init == /\ colleague = [u \in Users |->
                           IF u = Founder
                           THEN [state |-> "there", role |-> "admin", status |-> "active",
                                 deleted |-> FALSE]
                           ELSE NotYet]
        /\ req = [p \in Requests |-> Idle]
        /\ seated = {Founder}
        /\ raced = FALSE

Unwritten   == UNCHANGED <<colleague, seated, raced>>

\* A bound: nothing new is begun once a write has been raced, since what must
\* hold is not promised any more.
WithinBound == ~raced

Begin(p, r) == /\ req[p].pc = "idle" /\ WithinBound
               /\ req' = [req EXCEPT ![p] = r]
               /\ Unwritten
Goto(p, pc) == req' = [req EXCEPT ![p].pc = pc]
End(p)      == req' = [req EXCEPT ![p] = Idle]

Fresh(u) == colleague[u].state = "none" /\ \A p \in Requests : req[p].target # u

-----------------------------------------------------------------------------
(* The requests.                                                           *)

CreateUser(p) ==
    \E u \in Users, role \in Roles :
        /\ Fresh(u)
        /\ Begin(p, [Idle EXCEPT !.pc = "lockSeats", !.op = "create", !.target = u,
                                 !.role = role])

\* One account per address: of two accepts of one link the second finds the
\* email taken, so only its commit is seen.  The role is from the invite.
AcceptInvite(u) ==
    /\ Fresh(u)
    /\ colleague' = [colleague EXCEPT ![u] = [state |-> "there", role |-> "member",
                                               status |-> "pending", deleted |-> FALSE]]
    /\ UNCHANGED <<req, seated, raced>>

ApproveMember(p) ==
    \E u \in Users :
        /\ Pending(u)
        /\ Begin(p, [Idle EXCEPT !.pc = "lockSeats", !.op = "approve", !.target = u,
                                 !.status = "active"])

RejectMember(p) ==
    \E u \in Users :
        /\ Pending(u)
        /\ Begin(p, [Idle EXCEPT !.pc = "updateRow", !.op = "reject", !.target = u,
                                 !.status = "suspended"])

LosingAdmin(u, role, status) ==
    colleague[u].role = "admin" /\ (role = "member" \/ status = "suspended")

UpdateUser(p) ==
    \E u \in Users, edit \in UserEdits :
        /\ Member(u)
        /\ Begin(p, [Idle EXCEPT !.op = "update", !.target = u,
                                 !.role = edit.role, !.status = edit.status,
                                 !.pc = IF LosingAdmin(u, edit.role, edit.status)
                                        THEN "findAdmins" ELSE "updateRow"])

\* Nobody deletes their own account: somebody else, who may sign in, asks.
DeleteUser(p) ==
    \E u \in Users :
        /\ Member(u)
        /\ \E asking \in Members \ {u} : colleague[asking].status = "active"
        /\ Begin(p, [Idle EXCEPT !.pc = "findAdmins", !.op = "delete", !.target = u,
                                 !.status = "suspended"])

-----------------------------------------------------------------------------
(* assertSeatAvailable.                                                    *)

LockSeats(p) ==
    /\ req[p].pc = "lockSeats"
    /\ \A q \in Requests \ {p} : ~HoldsSeats(q)
    /\ Goto(p, "countSeats")
    /\ Unwritten

\* A pending member who is approved must not count against itself.
SeatsUsed(p) == Cardinality(Members \ {req[p].target})

CountSeats(p) ==
    /\ req[p].pc = "countSeats"
    /\ IF SeatsUsed(p) >= MaxSeats THEN End(p) ELSE Goto(p, "updateRow")
    /\ Unwritten

-----------------------------------------------------------------------------
(* assertNotLastAdmin.                                                     *)

FindAdmins(p) ==
    /\ req[p].pc = "findAdmins"
    /\ req' = [req EXCEPT ![p].pc = "lockAdmins", ![p].rows = AdminRows]
    /\ Unwritten

\* The rows that waited are looked at again: who is no admin now is left out.
LockAdmins(p) ==
    /\ req[p].pc = "lockAdmins"
    /\ \A u \in req[p].rows : Free(p, u)
    /\ req' = [req EXCEPT ![p].pc = "readTarget", ![p].rows = @ \cap AdminRows]
    /\ Unwritten

ReadTarget(p) ==
    /\ req[p].pc = "readTarget"
    /\ Goto(p, IF Member(req[p].target) /\ colleague[req[p].target].role = "admin"
               THEN "countAdmins" ELSE "updateRow")
    /\ Unwritten

CountAdmins(p) ==
    /\ req[p].pc = "countAdmins"
    /\ IF Cardinality(Admins) <= 1 THEN End(p) ELSE Goto(p, "updateRow")
    /\ Unwritten

UpdateRow(p) ==
    /\ req[p].pc = "updateRow"
    /\ Free(p, req[p].target)
    /\ Goto(p, "commit")
    /\ Unwritten

-----------------------------------------------------------------------------
(* Commit and rollback.                                                    *)

\* The UPDATE names the columns of the payload, whatever the row is by now.
Named(old, new) == IF new = "keep" THEN old ELSE new

Written(p) ==
    LET row == colleague[req[p].target] IN
    CASE req[p].op = "create" ->
           [state |-> "there", role |-> req[p].role, status |-> "active", deleted |-> FALSE]
      [] req[p].op \in {"approve", "update"} ->
           [row EXCEPT !.role = Named(@, req[p].role), !.status = Named(@, req[p].status)]
      [] req[p].op \in {"reject", "delete"} ->
           [row EXCEPT !.status = req[p].status, !.deleted = TRUE]

EndAndOvertake(p) ==
    req' = [q \in Requests |->
               IF q = p THEN Idle
               ELSE IF req[q].target = req[p].target THEN [req[q] EXCEPT !.stale = TRUE]
               ELSE req[q]]

Commit(p) ==
    /\ req[p].pc = "commit"
    /\ colleague' = [colleague EXCEPT ![req[p].target] = Written(p)]
    /\ seated' = IF req[p].op \in {"create", "approve"}
                 THEN seated \cup {req[p].target} ELSE seated
    /\ raced' = (raced \/ req[p].stale)
    /\ EndAndOvertake(p)

Rollback(p) == req[p].pc # "idle" /\ End(p) /\ Unwritten

-----------------------------------------------------------------------------
Next == \/ \E u \in Users : AcceptInvite(u)
        \/ \E p \in Requests :
              \/ CreateUser(p) \/ ApproveMember(p) \/ RejectMember(p)
              \/ UpdateUser(p) \/ DeleteUser(p)
              \/ LockSeats(p) \/ CountSeats(p)
              \/ FindAdmins(p) \/ LockAdmins(p) \/ ReadTarget(p) \/ CountAdmins(p)
              \/ UpdateRow(p) \/ Commit(p) \/ Rollback(p)

Spec == Init /\ [][Next]_vars

-----------------------------------------------------------------------------
(* Properties.                                                             *)

\* Every variable has its shape.
TypeOK ==
    /\ colleague \in [Users -> UserRow]
    /\ req \in [Requests -> Request]
    /\ seated \subseteq Users
    /\ raced \in BOOLEAN

\* The people createUser and approveMember let in never need more seats than
\* the plan has: "two admins cannot both take the last free seat"
\* (assertSeatAvailable), however creations, approvals, joins and deletions
\* interleave.
SeatsNeverOversold == Cardinality(seated \cap Members) <= MaxSeats

\* "The last one is protected: demoting or deleting them would leave a company
\* nobody can administer" (assertNotLastAdmin): two admins who demote, suspend
\* or delete each other at once, while others are promoted, always leave one,
\* unless a request wrote a row that had changed since the request read it.
AdminRemainsUnlessRaced == raced \/ Admins # {}

\* "A deleted but active row would still pass checkAuth" (rejectMember,
\* deleteUser).
DeletedNeverActive == \A u \in Users : colleague[u].deleted => colleague[u].status # "active"

\* The same as long as no request wrote a row that had changed since it read it.
DeletedNeverActiveUnlessRaced == raced \/ DeletedNeverActive

\* Until a request writes a row that changed since it was read, a company keeps an
\* admin, and nobody who was deleted can still come in (user.service, memberApproval).
TeamHoldsUnlessRaced == AdminRemainsUnlessRaced /\ DeletedNeverActiveUnlessRaced
=============================================================================
