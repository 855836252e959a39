------------------------------ MODULE Sessions ------------------------------
(***************************************************************************)
(* How people get in and stay in: login, the refresh of a session, the     *)
(* change of a password, and the reset of one by a mailed link.  A token   *)
(* carries the token_version its user had; setting a password counts that  *)
(* version up, in the same UPDATE, which is all that ends a session.       *)
(*                                                                         *)
(* Passwords are compared and hashed slowly, outside any transaction, so   *)
(* what was read from the user's row is old when it is used.  Only the     *)
(* reset is a transaction; its statements are actions, as in Ledger.       *)
(***************************************************************************)
EXTENDS Naturals, FiniteSets

CONSTANTS Clients,     \* requests under way
          People, Links, Passwords,
          MaxVersion,  \* a bound on how often a password is set
          FirstPassword, NoPerson, NoLink, NoToken

ASSUME SessionsAssumption ==
    /\ MaxVersion \in Nat
    /\ FirstPassword \in Passwords
    /\ NoPerson \notin People /\ NoLink \notin Links

VARIABLES user,     \* user[u]: the row of u
          link,     \* link[l]: a row of password_reset_tokens
          tokens,   \* the tokens that clients hold
          client,   \* client[p]: what request p is doing
          resets,   \* ghost: resets[l] says how many passwords l has set
          twoLinks  \* ghost: people for whom a link was created although another had been since what
                    \* was outstanding was retired

sessionVars == <<user, link, tokens, client, resets, twoLinks>>

-----------------------------------------------------------------------------
Statuses == {"active", "suspended"}
UserRows == [status : Statuses, password : Passwords, version : Nat]
LinkRows == [of : People \cup {NoPerson}, used : BOOLEAN, expired : BOOLEAN]

\* "via" is a ghost: the password that was entered when the session began.
\* An access token and the refresh token issued with it make the same claims: one
\* record stands for either.
Tokens   == [of : People, version : Nat, via : Passwords]

FirstRow == [status |-> "active", password |-> FirstPassword, version |-> 0]
NoRow    == [of |-> NoPerson, used |-> FALSE, expired |-> FALSE]

Quiet == [pc |-> "quiet", op |-> "none", of |-> NoPerson, row |-> FirstRow, link |-> NoLink,
          entered |-> FirstPassword, new |-> FirstPassword, token |-> NoToken, rows |-> {},
          stale |-> FALSE]

SessionPCs == {"quiet", "compare", "verify", "readOwn", "write", "retire", "create",
               "claim", "setPassword", "spendOthers", "commit"}

Issued(l)   == link[l].of # NoPerson
Unused(l)   == Issued(l) /\ ~link[l].used
Open(l)     == Unused(l) /\ ~link[l].expired
LinksOf(u)  == {l \in Links : link[l].of = u}

(***************************************************************************)
(* Locks of the reset's transaction: the link it claimed and the ones it   *)
(* spends, and the row of the user.                                        *)
(***************************************************************************)
HoldsLink(p, l) ==
    \/ client[p].pc \in {"setPassword", "spendOthers", "commit"} /\ client[p].link = l
    \/ client[p].pc = "commit" /\ l \in client[p].rows
HoldsPerson(p, u) ==
    client[p].op = "reset" /\ client[p].of = u /\ client[p].pc \in {"spendOthers", "commit"}

LinkFree(p, l)   == \A q \in Clients \ {p} : ~HoldsLink(q, l)
PersonFree(p, u) == \A q \in Clients \ {p} : ~HoldsPerson(q, u)

-----------------------------------------------------------------------------
SessionsInit ==
    /\ user = [u \in People |-> FirstRow]
    /\ link = [l \in Links |-> NoRow]
    /\ tokens = {}
    /\ client = [p \in Clients |-> Quiet]
    /\ resets = [l \in Links |-> 0]
    /\ twoLinks = {}

Enter(p, r)  == client[p].pc = "quiet" /\ client' = [client EXCEPT ![p] = r]
Step(p, pc)  == client' = [client EXCEPT ![p].pc = pc]
Leave(p)     == client' = [client EXCEPT ![p] = Quiet]
Read(p, pc)  == client' = [client EXCEPT ![p].pc = pc, ![p].row = user[client[p].of]]
RowsUnchanged == UNCHANGED <<user, link, tokens, resets, twoLinks>>

\* A bound: nobody sets out to set a password beyond MaxVersion.
MaySet(u) ==
    user[u].version + Cardinality({q \in Clients : client[q].op \in {"change", "reset"}}) < MaxVersion

\* Mutant of IssueTokens: the version of the row as it is by now.
FreshVersion(u, row, via) ==
    tokens \cup {[of |-> u, version |-> user[u].version, via |-> via]}

IssueTokens(u, row, via) ==
    tokens \cup {[of |-> u, version |-> row.version, via |-> via]}

-----------------------------------------------------------------------------
(* Login and refresh: one read, then checks on what was read.              *)

Login(p) ==
    \E u \in People, w \in Passwords :
        /\ Enter(p, [Quiet EXCEPT !.pc = "compare", !.op = "login", !.of = u, !.row = user[u],
                                  !.entered = w])
        /\ RowsUnchanged

ComparePassword(p) ==
    LET r == client[p] IN
    /\ r.pc = "compare"
    /\ tokens' = IF r.row.password = r.entered /\ r.row.status = "active"
                 THEN IssueTokens(r.of, r.row, r.entered) ELSE tokens
    /\ Leave(p)
    /\ UNCHANGED <<user, link, resets, twoLinks>>

RefreshToken(p) ==
    \E t \in tokens :
        /\ Enter(p, [Quiet EXCEPT !.pc = "verify", !.op = "refresh", !.of = t.of,
                                  !.row = user[t.of], !.token = t])
        /\ RowsUnchanged

\* What checkAuth and refreshToken ask of a token and the row they read.
LiveFor(t, row) == row.status = "active" /\ t.version = row.version

VerifyRefresh(p) ==
    LET r == client[p] IN
    /\ r.pc = "verify"
    /\ tokens' = IF LiveFor(r.token, r.row) THEN IssueTokens(r.of, r.row, r.token.via) ELSE tokens
    /\ Leave(p)
    /\ UNCHANGED <<user, link, resets, twoLinks>>

-----------------------------------------------------------------------------
(* Changing a password: checkAuth reads the row, changePassword reads it   *)
(* again, compares the old password, hashes the new, and writes by id.     *)

ChangePassword(p) ==
    \E t \in tokens, w, new \in Passwords :
        /\ LiveFor(t, user[t.of]) /\ MaySet(t.of)
        /\ Enter(p, [Quiet EXCEPT !.pc = "readOwn", !.op = "change", !.of = t.of, !.entered = w,
                                  !.new = new])
        /\ RowsUnchanged

ReadOwnRow(p) == client[p].pc = "readOwn" /\ Read(p, "write") /\ RowsUnchanged

SetPassword(u, new) == user' = [user EXCEPT ![u].password = new, ![u].version = @ + 1]

WritePassword(p) ==
    LET r == client[p] IN
    /\ r.pc = "write" /\ PersonFree(p, r.of)
    /\ IF r.row.password = r.entered THEN SetPassword(r.of, r.new) ELSE UNCHANGED user
    /\ Leave(p)
    /\ UNCHANGED <<link, tokens, resets, twoLinks>>

\* An admin suspends somebody, deletes them (which suspends them), or lets
\* them in again; the version is left alone.
SetStatus(u) ==
    /\ \A q \in Clients : ~HoldsPerson(q, u)
    /\ \E s \in Statuses \ {user[u].status} : user' = [user EXCEPT ![u].status = s]
    /\ UNCHANGED <<link, tokens, client, resets, twoLinks>>

-----------------------------------------------------------------------------
(* The mailed link: retire what is outstanding, then create, in two        *)
(* statements of their own.                                                *)

ForgotPassword(p) ==
    \E u \in People :
        /\ user[u].status = "active"
        /\ Enter(p, [Quiet EXCEPT !.pc = "retire", !.op = "forgot", !.of = u])
        /\ RowsUnchanged

\* Mutant of Outstanding: nothing is retired.
LeftAlone(u) == {}

Outstanding(u) == {l \in LinksOf(u) : Unused(l)}

RetireLinks(p) ==
    LET mine == Outstanding(client[p].of) IN
    /\ client[p].pc = "retire"
    /\ \A l \in mine : LinkFree(p, l)
    /\ link' = [l \in Links |-> IF l \in mine THEN [link[l] EXCEPT !.used = TRUE] ELSE link[l]]
    /\ Step(p, "create")
    /\ UNCHANGED <<user, tokens, resets, twoLinks>>

CreateLink(p) ==
    LET u == client[p].of IN
    \E l \in Links :
        /\ client[p].pc = "create" /\ ~Issued(l)
        /\ link' = [link EXCEPT ![l] = [of |-> u, used |-> FALSE, expired |-> FALSE]]
        /\ twoLinks' = IF client[p].stale THEN twoLinks \cup {u} ELSE twoLinks
        /\ client' = [q \in Clients |->
              IF q = p THEN Quiet
              ELSE IF client[q].pc = "create" /\ client[q].of = u
              THEN [client[q] EXCEPT !.stale = TRUE] ELSE client[q]]
        /\ UNCHANGED <<user, tokens, resets>>

-----------------------------------------------------------------------------
(* The reset: claim the link, set the password, spend the other links.     *)

ResetPassword(p) ==
    \E l \in Links, new \in Passwords :
        /\ Issued(l) /\ MaySet(link[l].of)
        /\ Enter(p, [Quiet EXCEPT !.pc = "claim", !.op = "reset", !.link = l, !.new = new])
        /\ RowsUnchanged

\* Mutant of Claimable: the link is looked up before it is spent, not claimed.
LookedUp(p, l) == Open(l)

\* A claim waits for the row and looks at its condition again.
Claimable(p, l) == LinkFree(p, l) /\ Open(l)

Claim(p) ==
    LET l == client[p].link IN
    /\ client[p].pc = "claim"
    /\ \/ /\ Claimable(p, l)
          /\ client' = [client EXCEPT ![p].pc = "setPassword", ![p].of = link[l].of]
       \/ LinkFree(p, l) /\ ~Open(l) /\ Leave(p)
    /\ RowsUnchanged

TakePerson(p) ==
    /\ client[p].pc = "setPassword" /\ PersonFree(p, client[p].of)
    /\ Step(p, "spendOthers")
    /\ RowsUnchanged

SpendOthers(p) ==
    LET others == Outstanding(client[p].of) \ {client[p].link} IN
    /\ client[p].pc = "spendOthers"
    /\ \A l \in others : LinkFree(p, l)
    /\ client' = [client EXCEPT ![p].pc = "commit", ![p].rows = others]
    /\ RowsUnchanged

CommitReset(p) ==
    LET r == client[p] IN
    /\ r.pc = "commit"
    /\ link' = [l \in Links |-> IF l = r.link \/ l \in r.rows
                                THEN [link[l] EXCEPT !.used = TRUE] ELSE link[l]]
    /\ SetPassword(r.of, r.new)
    /\ resets' = [resets EXCEPT ![r.link] = @ + 1]
    /\ Leave(p)
    /\ UNCHANGED <<tokens, twoLinks>>

RollbackReset(p) ==
    /\ client[p].pc \in {"setPassword", "spendOthers", "commit"}
    /\ Leave(p)
    /\ RowsUnchanged

-----------------------------------------------------------------------------
\* Time: thirty minutes for a link; a token has a life of its own.
ExpireLink(l) ==
    /\ Issued(l) /\ ~link[l].expired
    /\ link' = [link EXCEPT ![l].expired = TRUE]
    /\ UNCHANGED <<user, tokens, client, resets, twoLinks>>

\* Or the client drops its cookies: logout, changePassword.
ExpireToken(t) == /\ tokens' = tokens \ {t}
                  /\ UNCHANGED <<user, link, client, resets, twoLinks>>

SessionStep(p) ==
    \/ Login(p) \/ ComparePassword(p) \/ RefreshToken(p) \/ VerifyRefresh(p)
    \/ ChangePassword(p) \/ ReadOwnRow(p) \/ WritePassword(p)
    \/ ForgotPassword(p) \/ RetireLinks(p) \/ CreateLink(p)
    \/ ResetPassword(p) \/ Claim(p) \/ TakePerson(p) \/ SpendOthers(p) \/ CommitReset(p)
    \/ RollbackReset(p)

SessionsNext ==
    \/ \E p \in Clients : SessionStep(p)
    \/ \E u \in People : SetStatus(u)
    \/ \E l \in Links : ExpireLink(l)
    \/ \E t \in tokens : ExpireToken(t)

SessionsSpec == SessionsInit /\ [][SessionsNext]_sessionVars

-----------------------------------------------------------------------------
SessionsTypeOK ==
    /\ user \in [People -> UserRows]
    /\ link \in [Links -> LinkRows]
    /\ tokens \subseteq Tokens
    /\ resets \in [Links -> Nat]
    /\ twoLinks \subseteq People
    /\ client \in [Clients ->
          [pc : SessionPCs, op : {"none", "login", "refresh", "change", "forgot", "reset"},
           of : People \cup {NoPerson}, row : UserRows, link : Links \cup {NoLink},
           entered : Passwords, new : Passwords, token : Tokens \cup {NoToken},
           rows : SUBSET Links, stale : BOOLEAN]]

(***************************************************************************)
(* A token that still works was got with the password its user has now:    *)
(* whatever logins and refreshes were under way when the password was      *)
(* changed or reset, they issue nothing that outlives it                   *)
(* (auth.service.ts: "a password change invalidates both halves").         *)
(***************************************************************************)
LiveTokensKnowPassword ==
    \A t \in tokens : t.version = user[t.of].version => t.via = user[t.of].password

(***************************************************************************)
(* The links of Sessions are one-time links.  A link stays open while its  *)
(* claim has not committed, even if its half hour ends meanwhile.          *)
(***************************************************************************)
Claimed(l) == \E p \in Clients : client[p].link = l /\ HoldsLink(p, l)

LinkState == [l \in Links |->
    IF ~Issued(l) THEN "none"
    ELSE IF resets[l] > 0 THEN "spent"
    ELSE IF Open(l) \/ Claimed(l) THEN "open"
    ELSE "retired"]

Reset == INSTANCE OneTimeLink WITH Ids <- Links, state <- LinkState, uses <- resets

\* A reset link sets a password once, and not after it was retired
\* (resetPassword claims it in a conditional write).
ResetLinksWorkOnce == Reset!LinkSpec

(***************************************************************************)
(* Two live links for one person exist only where two requests for a link  *)
(* overlapped, each retiring what was there before either created its own. *)
(***************************************************************************)
OneOpenLinkUnlessRaced ==
    \A u \in People \ twoLinks : Cardinality({l \in LinksOf(u) : Open(l)}) <= 1

(***************************************************************************)
(* Resets do not wait for one another in a circle: the one would hold the  *)
(* person and want the other's link to spend it, the other hold its link   *)
(* and want the person.  With one link a person, the claim comes first.    *)
(***************************************************************************)
WaitsForLink(p, q) ==
    client[p].pc = "spendOthers" /\ \E l \in LinksOf(client[p].of) : Unused(l) /\ HoldsLink(q, l)
WaitsForPerson(p, q) ==
    client[p].pc = "setPassword" /\ HoldsPerson(q, client[p].of)
ResetsNeverBlockUnlessRaced ==
    \A p, q \in Clients :
        p # q /\ WaitsForLink(p, q) /\ WaitsForPerson(q, p) => client[p].of \in twoLinks
=============================================================================
