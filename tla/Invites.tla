------------------------------- MODULE Invites -------------------------------
(***************************************************************************)
(* Joining by a mailed invite.  Three services do much the same on tables  *)
(* of their own: a member joins a company (invite.service.ts), an owner    *)
(* brings an agency onto the platform (agencyInvite.service.ts), and an    *)
(* operator joins the platform team (platformInvite.service.ts).  All of   *)
(* them, and an agency that registers without an invite, compete for the   *)
(* addresses of one table of users.                                        *)
(*                                                                         *)
(* Unlike a password reset, accepting reads the invite, decides, and       *)
(* writes used_at by id; nothing is claimed.                               *)
(***************************************************************************)
EXTENDS Naturals, FiniteSets

CONSTANTS Askers,      \* requests under way
          Emails, Invites,
          MaxAccounts, \* a bound on the rows of users
          NoInvite, NoEmail

ASSUME InvitesAssumption ==
    /\ MaxAccounts \in Nat
    /\ NoInvite \notin Invites /\ NoEmail \notin Emails

VARIABLES invite,     \* invite[i]: a row of team_invites, agency_invites or platform_invites
          accounts,   \* the rows of users
          asker,      \* asker[p]: what request p is doing
          overtaken   \* ghost: invites revoked, accepted or created on the strength of an old read

inviteVars == <<invite, accounts, asker, overtaken>>

-----------------------------------------------------------------------------
Tables == {"team", "agency", "platform"}
NoTable == "none"

InviteRows == [table : Tables \cup {NoTable}, email : Emails \cup {NoEmail}, used : BOOLEAN,
               revoked : BOOLEAN, expired : BOOLEAN]
\* "from" is a ghost: the invite that was accepted, NoInvite for register.
\* A link alone lets in nobody but the owner of a new agency: the others wait for approval.
Accounts == [email : Emails, role : {"operations", "super_admin"}, status : {"pending"},
             from : Invites]
            \cup [email : Emails, role : {"admin"}, status : {"active"},
                  from : Invites \cup {NoInvite}]

NotSent == [table |-> NoTable, email |-> NoEmail, used |-> FALSE, revoked |-> FALSE,
            expired |-> FALSE]
Waiting == [pc |-> "waiting", table |-> NoTable, email |-> NoEmail, invite |-> NoInvite,
            stale |-> FALSE]
AskerPCs == {"waiting", "retire", "insert", "revoke", "insertUser", "markUsed", "commit"}

Sent(i)    == invite[i].table # NoTable
Unspent(i) == Sent(i) /\ ~invite[i].used /\ ~invite[i].revoked
Taken(e)   == \E a \in accounts : a.email = e

IsOpenInvite(i) == Unspent(i) /\ ~invite[i].expired

(***************************************************************************)
(* Inside an accepting transaction: the index entry of the address it has  *)
(* inserted, and the invite's row.                                         *)
(***************************************************************************)
\* Mutant of HoldsEmail: the address is not unique, or only with its letters' case.
HoldsNothing(p, e) == FALSE

HoldsEmail(p, e)  == asker[p].pc \in {"markUsed", "commit"} /\ asker[p].email = e
HoldsInvite(p, i) == asker[p].pc = "commit" /\ asker[p].invite = i
InviteFree(p, i)  == \A q \in Askers \ {p} : ~HoldsInvite(q, i)

-----------------------------------------------------------------------------
InvitesInit ==
    /\ invite = [i \in Invites |-> NotSent]
    /\ accounts = {}
    /\ asker = [p \in Askers |-> Waiting]
    /\ overtaken = {}

Ask(p, r)      == asker[p].pc = "waiting" /\ asker' = [asker EXCEPT ![p] = r]
Proceed(p, pc) == asker' = [asker EXCEPT ![p].pc = pc]
Answer(p)      == asker' = [asker EXCEPT ![p] = Waiting]

\* p's answer r, and whoever has read an invite that changes in this step is stale.
Overtake(p, r, changed) ==
    asker' = [q \in Askers |->
                 IF q = p THEN r
                 ELSE IF asker[q].invite \in changed THEN [asker[q] EXCEPT !.stale = TRUE]
                 ELSE asker[q]]

-----------------------------------------------------------------------------
(* Creating: nobody may have the address.  What is outstanding for it is   *)
(* retired and the invite inserted in two statements of their own.         *)

StartInvite(p, table) ==
    \E e \in Emails :
        /\ ~Taken(e)
        /\ Ask(p, [Waiting EXCEPT !.pc = "retire", !.table = table, !.email = e])
        /\ UNCHANGED <<invite, accounts, overtaken>>

CreateTeamInvite(p)     == StartInvite(p, "team")
CreateAgencyInvite(p)   == StartInvite(p, "agency")
CreatePlatformInvite(p) == StartInvite(p, "platform")

ToRetire(table, e) == {i \in Invites : invite[i].email = e /\ invite[i].table = table /\ Unspent(i)}

RetireInvites(p) ==
    LET old == ToRetire(asker[p].table, asker[p].email) IN
    /\ asker[p].pc = "retire"
    /\ \A i \in old : InviteFree(p, i)
    /\ invite' = [i \in Invites |-> [invite[i] EXCEPT !.revoked = @ \/ i \in old]]
    /\ Overtake(p, [asker[p] EXCEPT !.pc = "insert"], old)
    /\ UNCHANGED <<accounts, overtaken>>

InsertInvite(p) ==
    LET r == asker[p] IN
    \E i \in Invites :
        /\ r.pc = "insert" /\ ~Sent(i)
        /\ invite' = [invite EXCEPT ![i] = [NotSent EXCEPT !.table = r.table, !.email = r.email]]
        \* Stale: another was created since this request retired what was outstanding.
        /\ overtaken' = overtaken \cup {j \in {i} : r.stale}
        /\ asker' = [q \in Askers |->
              IF q = p THEN Waiting
              ELSE [asker[q] EXCEPT !.stale = @ \/ (/\ asker[q].pc = "insert"
                                                    /\ asker[q].email = r.email
                                                    /\ asker[q].table = r.table)]]
        /\ UNCHANGED accounts

-----------------------------------------------------------------------------
(* Revoking: read, refuse a used one, write by id.                         *)

StartRevoke(p, table) ==
    \E i \in Invites :
        /\ invite[i].table = table /\ ~invite[i].used
        /\ Ask(p, [Waiting EXCEPT !.pc = "revoke", !.invite = i])
        /\ UNCHANGED <<invite, accounts, overtaken>>

RevokeTeamInvite(p)     == StartRevoke(p, "team")
RevokeAgencyInvite(p)   == StartRevoke(p, "agency")
RevokePlatformInvite(p) == StartRevoke(p, "platform")

MarkRevoked(p) ==
    LET i == asker[p].invite IN
    /\ asker[p].pc = "revoke" /\ InviteFree(p, i)
    /\ invite' = [invite EXCEPT ![i].revoked = TRUE]
    /\ overtaken' = overtaken \cup {j \in {i} : invite[i].used}
    /\ Overtake(p, Waiting, {i})
    /\ UNCHANGED accounts

-----------------------------------------------------------------------------
(* Accepting, in one transaction.  Whom an invite lets in, and as what, is *)
(* fixed by its table and never by the form.                               *)

StartAccept(p, table) ==
    \E i \in Invites :
        /\ invite[i].table = table /\ IsOpenInvite(i) /\ ~Taken(invite[i].email)
        /\ Ask(p, [Waiting EXCEPT !.pc = "insertUser", !.table = table, !.invite = i,
                                  !.email = invite[i].email])
        /\ UNCHANGED <<invite, accounts, overtaken>>

AcceptTeamInvite(p)     == StartAccept(p, "team")
AcceptAgencyInvite(p)   == StartAccept(p, "agency")
AcceptPlatformInvite(p) == StartAccept(p, "platform")

\* An agency of its own, with its first admin, without an invite.
Register(p) ==
    \E e \in Emails :
        /\ ~Taken(e)
        /\ Ask(p, [Waiting EXCEPT !.pc = "insertUser", !.email = e])
        /\ UNCHANGED <<invite, accounts, overtaken>>

\* The unique index on the address waits for whoever has inserted it, and
\* refuses the second; the service's own look at it is not enough.
InsertUser(p) ==
    LET r == asker[p] IN
    /\ r.pc = "insertUser"
    /\ \A q \in Askers \ {p} : ~HoldsEmail(q, r.email)
    /\ IF Taken(r.email) THEN Answer(p)
       ELSE Proceed(p, IF r.invite = NoInvite THEN "commit" ELSE "markUsed")
    /\ UNCHANGED <<invite, accounts, overtaken>>

MarkUsed(p) ==
    /\ asker[p].pc = "markUsed" /\ InviteFree(p, asker[p].invite)
    /\ Proceed(p, "commit")
    /\ UNCHANGED <<invite, accounts, overtaken>>

Joined(table) ==
    CASE table = "team"     -> [role |-> "operations", status |-> "pending"]
      [] table = "platform" -> [role |-> "super_admin", status |-> "pending"]
      [] OTHER              -> [role |-> "admin", status |-> "active"]

CommitAccept(p) ==
    LET r == asker[p]
        as == Joined(r.table) IN
    /\ r.pc = "commit" /\ Cardinality(accounts) < MaxAccounts
    /\ accounts' = accounts \cup
          {[email |-> r.email, role |-> as.role, status |-> as.status, from |-> r.invite]}
    /\ invite' = [i \in Invites |-> [invite[i] EXCEPT !.used = @ \/ i = r.invite]]
    /\ overtaken' = overtaken \cup {i \in {r.invite} : r.stale}
    /\ Overtake(p, Waiting, {r.invite} \ {NoInvite})

RollbackAccept(p) ==
    /\ asker[p].pc \in {"markUsed", "commit"}
    /\ Answer(p)
    /\ UNCHANGED <<invite, accounts, overtaken>>

ExpireInvite(i) ==
    /\ Sent(i) /\ ~invite[i].expired
    /\ invite' = [invite EXCEPT ![i].expired = TRUE]
    /\ UNCHANGED <<accounts, asker, overtaken>>

-----------------------------------------------------------------------------
InviteStep(p) ==
    \/ CreateTeamInvite(p) \/ CreateAgencyInvite(p) \/ CreatePlatformInvite(p)
    \/ RetireInvites(p) \/ InsertInvite(p)
    \/ RevokeTeamInvite(p) \/ RevokeAgencyInvite(p) \/ RevokePlatformInvite(p) \/ MarkRevoked(p)
    \/ AcceptTeamInvite(p) \/ AcceptAgencyInvite(p) \/ AcceptPlatformInvite(p) \/ Register(p)
    \/ InsertUser(p) \/ MarkUsed(p) \/ CommitAccept(p) \/ RollbackAccept(p)

InvitesNext == (\E p \in Askers : InviteStep(p)) \/ (\E i \in Invites : ExpireInvite(i))
InvitesSpec == InvitesInit /\ [][InvitesNext]_inviteVars

-----------------------------------------------------------------------------
InvitesTypeOK ==
    /\ invite \in [Invites -> InviteRows]
    /\ accounts \subseteq Accounts
    /\ overtaken \subseteq Invites
    /\ asker \in [Askers -> [pc : AskerPCs, table : Tables \cup {NoTable},
                             email : Emails \cup {NoEmail}, invite : Invites \cup {NoInvite},
                             stale : BOOLEAN]]

(***************************************************************************)
(* One address is one account, whichever invites were sent to it from      *)
(* whichever of the three screens, and whoever registers meanwhile; so     *)
(* that no invite lets in two, and no person is member and operator.       *)
(***************************************************************************)
OneAccountPerAddress == \A a, b \in accounts : a.email = b.email => a = b

(***************************************************************************)
(* Nobody comes in by an invite that has been revoked, unless accepting    *)
(* and revoking overlapped, each having read the invite before the other   *)
(* wrote it.  Retiring by a newer invite counts as revoking.               *)
(***************************************************************************)
RevokedAdmitsNobodyUnlessRaced ==
    \A a \in accounts : a.from # NoInvite /\ invite[a.from].revoked => a.from \in overtaken

(***************************************************************************)
(* "Two live links to one person means the older still works after the     *)
(* newer has been spent": two open invites of one kind to one address      *)
(* exist only where two requests that created them overlapped.             *)
(***************************************************************************)
OneOpenInviteUnlessRaced ==
    \A i, j \in Invites :
        /\ i # j /\ IsOpenInvite(i) /\ IsOpenInvite(j)
        /\ invite[i].email = invite[j].email /\ invite[i].table = invite[j].table
        => i \in overtaken \/ j \in overtaken
=============================================================================
