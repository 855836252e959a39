---------------------------- MODULE AccessProofs ----------------------------
(***************************************************************************)
(* Getting in, for any number of people, links, invites and requests.      *)
(*                                                                         *)
(* Sessions: no token that still works was got with a password that is no  *)
(* longer one's, since what a request read, and every token there is, is   *)
(* of a version at most the user's, and of the same password if it is of   *)
(* the same version.  Reset links are one-time links: what a transaction   *)
(* has locked is unused, and locked by it alone.                           *)
(*                                                                         *)
(* Invites: one address is one account.  And of both: two live links to    *)
(* one person exist only where two requests overlapped.                    *)
(*                                                                         *)
(* Team, which lets in those who were invited: the seats are never         *)
(* oversold, and until a write is raced an admin remains and nobody who    *)
(* was deleted is active.                                                  *)
(***************************************************************************)
EXTENDS MCAccess, Team, FiniteSetTheorems, TLAPS

Personal == SessionPCs \ {"quiet", "claim"}
Linked   == {"claim", "setPassword", "spendOthers", "commit"}

ClientRows ==
    [pc : SessionPCs, op : {"none", "login", "refresh", "change", "forgot", "reset"},
     of : People \cup {NoPerson}, row : UserRows, link : Links \cup {NoLink},
     entered : Passwords, new : Passwords, token : Tokens \cup {NoToken},
     rows : SUBSET Links, stale : BOOLEAN]

\* A claim to a version and a password is no newer than the row, and true if it is as new.
Fits(rows, version, entered, u) ==
    /\ version <= rows[u].version
    /\ version = rows[u].version => entered = rows[u].password

RowOK(rows, r) ==
    /\ r.pc \in Personal => r.of \in People
    /\ r.pc \in Linked => r.link \in Links
    /\ r.pc = "verify" => /\ r.token \in Tokens /\ r.token.of = r.of
                          /\ Fits(rows, r.token.version, r.token.via, r.of)
    /\ r.pc \in {"compare", "verify", "write"} => Fits(rows, r.row.version, r.row.password, r.of)

TokensFit == \A t \in tokens : Fits(user, t.version, t.via, t.of)
RowsFit   == \A p \in Clients : RowOK(user, client[p])

Holds(r, l) ==
    \/ r.pc \in {"setPassword", "spendOthers", "commit"} /\ r.link = l
    \/ r.pc = "commit" /\ l \in r.rows

Locks ==
    /\ \A p, q \in Clients, l \in Links : HoldsLink(p, l) /\ HoldsLink(q, l) => p = q
    /\ \A p \in Clients, l \in Links : HoldsLink(p, l) => Unused(l)
    /\ \A l \in Links : resets[l] > 0 => Issued(l) /\ link[l].used

SessionInv == SessionsTypeOK /\ TokensFit /\ RowsFit /\ Locks

\* Setting a password counts the version up; nothing else touches either.
Grows == \A u \in People : \/ user'[u].version = user[u].version /\ user'[u].password = user[u].password
                           \/ user'[u].version = user[u].version + 1

-----------------------------------------------------------------------------
\* A request that does nothing is as every request begins.
LEMMA QuietIsOK == Quiet \in ClientRows /\ RowOK(user', Quiet) /\ \A l \in Links : ~Holds(Quiet, l)
<1>1. Quiet \in ClientRows
    BY SessionsAssumption DEF Quiet, ClientRows, SessionPCs, FirstRow, UserRows, Statuses
<1>2. Quiet.pc = "quiet"
    BY DEF Quiet
<1> QED BY <1>1, <1>2 DEF RowOK, Personal, Linked, Holds

\* Nobody has a token, and no request is under way.
LEMMA SessionsBegin == SessionsInit => SessionInv
<1> SUFFICES ASSUME SessionsInit PROVE SessionInv
    OBVIOUS
<1>1. Quiet \in ClientRows
    BY QuietIsOK
<1>2. Quiet.pc = "quiet"
    BY DEF Quiet
<1>3. SessionsTypeOK
    <2>1. FirstRow \in UserRows /\ NoRow \in LinkRows
        BY SessionsAssumption DEF FirstRow, UserRows, Statuses, NoRow, LinkRows
    <2> QED BY <1>1, <2>1 DEF SessionsInit, SessionsTypeOK, ClientRows
<1>4. TokensFit
    BY DEF SessionsInit, TokensFit
<1>5. RowsFit
    BY <1>2 DEF SessionsInit, RowsFit, RowOK, Personal, Linked
<1>6. Locks
    BY <1>2 DEF SessionsInit, Locks, HoldsLink
<1> QED BY <1>3, <1>4, <1>5, <1>6 DEF SessionInv

\* What fitted a row fits it when it has grown.
LEMMA FitsStays ==
    ASSUME SessionsTypeOK, Grows, NEW u \in People, NEW version \in Nat, NEW entered,
           Fits(user, version, entered, u)
    PROVE  Fits(user', version, entered, u)
<1>1. user[u].version \in Nat
    BY DEF SessionsTypeOK, UserRows
<1> QED BY <1>1 DEF Grows, Fits

\* The same of all that a request holds.
LEMMA RowOKStays ==
    ASSUME SessionsTypeOK, Grows, NEW r \in ClientRows, RowOK(user, r)
    PROVE  RowOK(user', r)
<1>1. ASSUME r.pc = "verify" PROVE Fits(user', r.token.version, r.token.via, r.of)
    <2>1. r.of \in People /\ r.token.version \in Nat
        BY <1>1 DEF RowOK, Personal, SessionPCs, Tokens
    <2> QED BY <1>1, <2>1, FitsStays DEF RowOK
<1>2. ASSUME r.pc \in {"compare", "verify", "write"}
      PROVE  Fits(user', r.row.version, r.row.password, r.of)
    <2>1. r.of \in People /\ r.row.version \in Nat
        BY <1>2 DEF RowOK, Personal, SessionPCs, ClientRows, UserRows
    <2> QED BY <1>2, <2>1, FitsStays DEF RowOK
<1> QED BY <1>1, <1>2 DEF RowOK

\* And of the tokens.
LEMMA TokensStay ==
    ASSUME SessionInv, Grows, tokens' \subseteq tokens
    PROVE  TokensFit'
<1> SUFFICES ASSUME NEW t \in tokens' PROVE Fits(user', t.version, t.via, t.of)
    BY DEF TokensFit, Fits
<1>1. t \in tokens /\ t.of \in People /\ t.version \in Nat
    BY DEF SessionInv, SessionsTypeOK, Tokens
<1> QED BY <1>1, FitsStays DEF SessionInv, TokensFit

\* One request moves on; what the others hold is as good as it was.
LEMMA OneMoves ==
    ASSUME SessionInv, Grows, NEW p \in Clients, NEW r \in ClientRows,
           client' = [client EXCEPT ![p] = r], RowOK(user', r)
    PROVE  client' \in [Clients -> ClientRows] /\ RowsFit'
<1>1. client \in [Clients -> ClientRows]
    BY DEF SessionInv, SessionsTypeOK, ClientRows
<1>2. client' \in [Clients -> ClientRows]
    BY <1>1
<1>3. ASSUME NEW q \in Clients PROVE RowOK(user', client'[q])
    <2>1. CASE q = p
        BY <1>1, <2>1
    <2>2. CASE q # p
        <3>1. client'[q] = client[q] /\ client[q] \in ClientRows
            BY <1>1, <2>2
        <3> QED BY <3>1, RowOKStays DEF SessionInv, RowsFit
    <2> QED BY <2>1, <2>2
<1>4. RowsFit'
    BY <1>3 DEF RowsFit, RowOK, Fits
<1> QED BY <1>2, <1>4

\* It holds only what was free; the links stay as they are.
LEMMA LocksStay ==
    ASSUME SessionInv, NEW p \in Clients, NEW r, client' = [client EXCEPT ![p] = r],
           UNCHANGED <<link, resets>>,
           \A l \in Links : Holds(r, l) => Unused(l) /\ LinkFree(p, l)
    PROVE  Locks'
<1>1. client \in [Clients -> ClientRows]
    BY DEF SessionInv, SessionsTypeOK, ClientRows
<1>2. \A l \in Links : HoldsLink(p, l)' <=> Holds(r, l)
    BY <1>1 DEF HoldsLink, Holds
<1>3. \A q \in Clients \ {p}, l \in Links : HoldsLink(q, l)' <=> HoldsLink(q, l)
    BY <1>1 DEF HoldsLink
<1>4. \A l \in Links : Unused(l)' <=> Unused(l)
    BY DEF Unused, Issued
<1>5. (\A q, k \in Clients, l \in Links : HoldsLink(q, l) /\ HoldsLink(k, l) => q = k)'
    BY <1>2, <1>3 DEF SessionInv, Locks, LinkFree
<1>6. (\A q \in Clients, l \in Links : HoldsLink(q, l) => Unused(l))'
    BY <1>2, <1>3, <1>4 DEF SessionInv, Locks
<1>7. (\A l \in Links : resets[l] > 0 => Issued(l) /\ link[l].used)'
    BY DEF SessionInv, Locks, Issued
<1> QED BY <1>5, <1>6, <1>7 DEF Locks
-----------------------------------------------------------------------------
\* A request that only reads, or takes locks that are free, keeps the invariant.
LEMMA ReadingKeeps ==
    ASSUME SessionInv, NEW p \in Clients, NEW r \in ClientRows,
           client' = [client EXCEPT ![p] = r], RowsUnchanged, RowOK(user, r),
           \A l \in Links : Holds(r, l) => Unused(l) /\ LinkFree(p, l)
    PROVE  SessionInv'
<1>1. Grows /\ user' = user /\ UNCHANGED <<link, resets>>
    BY DEF Grows, RowsUnchanged
<1>2. client' \in [Clients -> ClientRows] /\ RowsFit'
    BY <1>1, OneMoves
<1>3. SessionsTypeOK'
    BY <1>2 DEF SessionInv, SessionsTypeOK, ClientRows, RowsUnchanged
<1>4. TokensFit'
    BY DEF SessionInv, TokensFit, RowsUnchanged, Fits
<1>5. Locks'
    BY <1>1, LocksStay
<1> QED BY <1>2, <1>3, <1>4, <1>5 DEF SessionInv

\* A row as it is read fits itself.
LEMMA RowAsRead == ASSUME SessionsTypeOK, NEW u \in People
                   PROVE  user[u] \in UserRows /\ Fits(user, user[u].version, user[u].password, u)
    BY DEF SessionsTypeOK, UserRows, Fits

\* Requests that begin: they hold nothing but what they were given and what they read.
LEMMA EnteringKeeps ==
    ASSUME SessionInv, NEW p \in Clients,
           \/ Login(p) \/ RefreshToken(p) \/ ChangePassword(p) \/ ForgotPassword(p) \/ ResetPassword(p)
    PROVE  SessionInv'
<1> USE DEF Enter
<1>0. Quiet \in ClientRows /\ SessionsTypeOK
    BY QuietIsOK DEF SessionInv
<1>1. CASE Login(p)
    <2>1. PICK u \in People, w \in Passwords :
              /\ client' = [client EXCEPT ![p] = [Quiet EXCEPT !.pc = "compare", !.op = "login",
                                       !.of = u, !.row = user[u], !.entered = w]]
              /\ RowsUnchanged
        BY <1>1 DEF Login
    <2>2. PICK r : r = [Quiet EXCEPT !.pc = "compare", !.op = "login", !.of = u, !.row = user[u],
                                     !.entered = w]
        OBVIOUS
    <2>3. user[u] \in UserRows /\ Fits(user, user[u].version, user[u].password, u)
        BY <1>0, RowAsRead
    <2>4. r \in ClientRows /\ r.pc = "compare" /\ r.of = u /\ r.row = user[u]
        BY <1>0, <2>2, <2>3 DEF ClientRows, SessionPCs
    <2>5. RowOK(user, r)
        BY <2>3, <2>4 DEF RowOK, Linked
    <2> QED BY <2>1, <2>2, <2>4, <2>5, ReadingKeeps DEF Holds
<1>2. CASE RefreshToken(p)
    <2>1. PICK t \in tokens :
              /\ client' = [client EXCEPT ![p] = [Quiet EXCEPT !.pc = "verify", !.op = "refresh",
                                       !.of = t.of, !.row = user[t.of], !.token = t]]
              /\ RowsUnchanged
        BY <1>2 DEF RefreshToken
    <2>2. PICK r : r = [Quiet EXCEPT !.pc = "verify", !.op = "refresh", !.of = t.of,
                                     !.row = user[t.of], !.token = t]
        OBVIOUS
    <2>3. t \in Tokens /\ t.of \in People /\ Fits(user, t.version, t.via, t.of)
        BY DEF SessionInv, SessionsTypeOK, Tokens, TokensFit
    <2>4. user[t.of] \in UserRows /\ Fits(user, user[t.of].version, user[t.of].password, t.of)
        BY <1>0, <2>3, RowAsRead
    <2>5. r \in ClientRows /\ r.pc = "verify" /\ r.of = t.of /\ r.row = user[t.of] /\ r.token = t
        BY <1>0, <2>2, <2>3, <2>4 DEF ClientRows, SessionPCs
    <2>6. RowOK(user, r)
        BY <2>3, <2>4, <2>5 DEF RowOK, Linked
    <2> QED BY <2>1, <2>2, <2>5, <2>6, ReadingKeeps DEF Holds
<1>3. CASE ChangePassword(p)
    <2>1. PICK t \in tokens, w \in Passwords, new \in Passwords :
              /\ client' = [client EXCEPT ![p] = [Quiet EXCEPT !.pc = "readOwn", !.op = "change",
                                       !.of = t.of, !.entered = w, !.new = new]]
              /\ RowsUnchanged
        BY <1>3 DEF ChangePassword
    <2>2. PICK r : r = [Quiet EXCEPT !.pc = "readOwn", !.op = "change", !.of = t.of, !.entered = w,
                                     !.new = new]
        OBVIOUS
    <2>3. t.of \in People
        BY DEF SessionInv, SessionsTypeOK, Tokens
    <2>4. r \in ClientRows /\ r.pc = "readOwn" /\ r.of = t.of
        BY <1>0, <2>2, <2>3 DEF ClientRows, SessionPCs
    <2>5. RowOK(user, r)
        BY <2>3, <2>4 DEF RowOK, Linked
    <2> QED BY <2>1, <2>2, <2>4, <2>5, ReadingKeeps DEF Holds
<1>4. CASE ForgotPassword(p)
    <2>1. PICK u \in People :
              /\ client' = [client EXCEPT ![p] = [Quiet EXCEPT !.pc = "retire", !.op = "forgot",
                                       !.of = u]]
              /\ RowsUnchanged
        BY <1>4 DEF ForgotPassword
    <2>2. PICK r : r = [Quiet EXCEPT !.pc = "retire", !.op = "forgot", !.of = u]
        OBVIOUS
    <2>3. r \in ClientRows /\ r.pc = "retire" /\ r.of = u
        BY <1>0, <2>2 DEF ClientRows, SessionPCs
    <2>4. RowOK(user, r)
        BY <2>3 DEF RowOK, Linked
    <2> QED BY <2>1, <2>2, <2>3, <2>4, ReadingKeeps DEF Holds
<1>5. CASE ResetPassword(p)
    <2>1. PICK l \in Links, new \in Passwords :
              /\ client' = [client EXCEPT ![p] = [Quiet EXCEPT !.pc = "claim", !.op = "reset",
                                       !.link = l, !.new = new]]
              /\ RowsUnchanged
        BY <1>5 DEF ResetPassword
    <2>2. PICK r : r = [Quiet EXCEPT !.pc = "claim", !.op = "reset", !.link = l, !.new = new]
        OBVIOUS
    <2>3. r \in ClientRows /\ r.pc = "claim" /\ r.link = l
        BY <1>0, <2>2 DEF ClientRows, SessionPCs
    <2>4. RowOK(user, r)
        BY <2>3 DEF RowOK, Personal
    <2> QED BY <2>1, <2>2, <2>3, <2>4, ReadingKeeps DEF Holds
<1> QED BY <1>1, <1>2, <1>3, <1>4, <1>5

\* Requests that read again, take a lock, or give up.
LEMMA GoingOnKeeps ==
    ASSUME SessionInv, NEW p \in Clients,
           \/ ReadOwnRow(p) \/ Claim(p) \/ TakePerson(p) \/ SpendOthers(p) \/ RollbackReset(p)
    PROVE  SessionInv'
<1>0. /\ client[p] \in ClientRows /\ RowOK(user, client[p])
      /\ client \in [Clients -> ClientRows] /\ SessionsTypeOK
    BY DEF SessionInv, SessionsTypeOK, ClientRows, RowsFit
<1>1. CASE ReadOwnRow(p)
    <2>1. client[p].of \in People
        BY <1>0, <1>1 DEF ReadOwnRow, RowOK, Personal, SessionPCs
    <2>2. PICK r : r = [client[p] EXCEPT !.pc = "write", !.row = user[client[p].of]]
        OBVIOUS
    <2>3. user[client[p].of] \in UserRows
          /\ Fits(user, user[client[p].of].version, user[client[p].of].password, client[p].of)
        BY <1>0, <2>1, RowAsRead
    <2>4. r \in ClientRows /\ r.pc = "write" /\ r.of = client[p].of /\ r.row = user[client[p].of]
        BY <1>0, <2>2, <2>3 DEF ClientRows, SessionPCs
    <2>5. RowOK(user, r)
        BY <2>1, <2>3, <2>4 DEF RowOK, Linked
    <2>6. client' = [client EXCEPT ![p] = r] /\ RowsUnchanged
        BY <1>0, <1>1, <2>2 DEF ReadOwnRow, Read
    <2> QED BY <2>4, <2>5, <2>6, ReadingKeeps DEF Holds
<1>2. ASSUME Leave(p), RowsUnchanged PROVE SessionInv'
    <2>1. Quiet \in ClientRows /\ RowOK(user, Quiet) /\ \A l \in Links : ~Holds(Quiet, l)
        BY <1>2, QuietIsOK DEF RowsUnchanged
    <2> QED BY <1>2, <2>1, ReadingKeeps DEF Leave
<1>3. ASSUME client[p].pc = "claim", Claimable(p, client[p].link), RowsUnchanged,
             client' = [client EXCEPT ![p].pc = "setPassword", ![p].of = link[client[p].link].of]
      PROVE  SessionInv'
    <2> DEFINE l == client[p].link
    <2>1. l \in Links /\ link[l].of \in People
        BY <1>0, <1>3 DEF RowOK, Linked, Claimable, Open, Unused, Issued, SessionsTypeOK, LinkRows
    <2>2. PICK r : r = [client[p] EXCEPT !.pc = "setPassword", !.of = link[l].of]
        OBVIOUS
    <2>3. r \in ClientRows /\ r.pc = "setPassword" /\ r.of \in People /\ r.link = l
        BY <1>0, <2>1, <2>2 DEF ClientRows, SessionPCs
    <2>4. RowOK(user, r)
        BY <2>1, <2>3 DEF RowOK
    <2>5. client' = [client EXCEPT ![p] = r]
        BY <1>0, <1>3, <2>2
    <2>6. \A k \in Links : Holds(r, k) => Unused(k) /\ LinkFree(p, k)
        BY <1>3, <2>3 DEF Holds, Claimable, Open
    <2> QED BY <1>3, <2>3, <2>4, <2>5, <2>6, ReadingKeeps
<1>4. CASE Claim(p)
    BY <1>2, <1>3, <1>4 DEF Claim
<1>5. CASE TakePerson(p)
    <2>1. PICK r : r = [client[p] EXCEPT !.pc = "spendOthers"]
        OBVIOUS
    <2>2. /\ r \in ClientRows /\ r.pc = "spendOthers" /\ client[p].pc = "setPassword"
          /\ r.of = client[p].of /\ r.link = client[p].link
        BY <1>0, <1>5, <2>1 DEF ClientRows, SessionPCs, TakePerson
    <2>3. RowOK(user, r)
        BY <1>0, <2>2 DEF RowOK, Personal, Linked, SessionPCs
    <2>4. client' = [client EXCEPT ![p] = r] /\ RowsUnchanged
        BY <1>0, <1>5, <2>1 DEF TakePerson, Step
    <2>5. \A k \in Links : Holds(r, k) => HoldsLink(p, k)
        BY <2>2 DEF Holds, HoldsLink
    <2>6. \A k \in Links : Holds(r, k) => Unused(k) /\ LinkFree(p, k)
        BY <2>5 DEF SessionInv, Locks, LinkFree
    <2> QED BY <2>2, <2>3, <2>4, <2>6, ReadingKeeps
<1>6. CASE SpendOthers(p)
    <2> DEFINE others == Outstanding(client[p].of) \ {client[p].link}
    <2>1. PICK r : r = [client[p] EXCEPT !.pc = "commit", !.rows = others]
        OBVIOUS
    <2>2. others \in SUBSET Links
        BY DEF Outstanding, LinksOf
    <2>3. /\ r \in ClientRows /\ r.pc = "commit" /\ client[p].pc = "spendOthers"
          /\ r.of = client[p].of /\ r.link = client[p].link /\ r.rows = others
        BY <1>0, <1>6, <2>1, <2>2 DEF ClientRows, SessionPCs, SpendOthers
    <2>4. RowOK(user, r)
        BY <1>0, <2>3 DEF RowOK, Personal, Linked, SessionPCs
    <2>5. client' = [client EXCEPT ![p] = r] /\ RowsUnchanged
        BY <1>0, <1>6, <2>1 DEF SpendOthers
    <2>6. ASSUME NEW k \in Links, Holds(r, k) PROVE Unused(k) /\ LinkFree(p, k)
        <3>1. CASE k \in others
            BY <1>6, <3>1 DEF SpendOthers, Outstanding
        <3>2. CASE k = client[p].link
            <4>1. HoldsLink(p, k)
                BY <2>3, <3>2 DEF HoldsLink
            <4> QED BY <4>1 DEF SessionInv, Locks, LinkFree
        <3> QED BY <2>3, <2>6, <3>1, <3>2 DEF Holds
    <2> QED BY <2>3, <2>4, <2>5, <2>6, ReadingKeeps
<1>7. CASE RollbackReset(p)
    BY <1>2, <1>7 DEF RollbackReset
<1> QED BY <1>1, <1>4, <1>5, <1>6, <1>7

\* A token is issued for the version of a row that was read, with the password known to fit it.
LEMMA IssuingKeeps ==
    ASSUME SessionInv, NEW p \in Clients, ComparePassword(p) \/ VerifyRefresh(p)
    PROVE  SessionInv'
<1>0. /\ client[p] \in ClientRows /\ RowOK(user, client[p])
      /\ Quiet \in ClientRows /\ RowOK(user', Quiet) /\ \A l \in Links : ~Holds(Quiet, l)
    BY QuietIsOK DEF SessionInv, SessionsTypeOK, ClientRows, RowsFit
<1>1. UNCHANGED <<user, link, resets, twoLinks>> /\ client' = [client EXCEPT ![p] = Quiet]
    BY DEF ComparePassword, VerifyRefresh, Leave
<1>2. \/ tokens' = tokens
      \/ \E via \in Passwords : /\ tokens' = IssueTokens(client[p].of, client[p].row, via)
                                /\ client[p].of \in People
                                /\ Fits(user, client[p].row.version, via, client[p].of)
    <2>1. CASE ComparePassword(p)
        BY <1>0, <2>1 DEF ComparePassword, RowOK, Personal, SessionPCs, ClientRows
    <2>2. CASE VerifyRefresh(p)
        <3>1. /\ client[p].of \in People /\ client[p].token \in Tokens
              /\ Fits(user, client[p].token.version, client[p].token.via, client[p].of)
            BY <1>0, <2>2 DEF VerifyRefresh, RowOK, Personal, SessionPCs
        <3> QED BY <2>2, <3>1 DEF VerifyRefresh, LiveFor, Tokens
    <2> QED BY <2>1, <2>2
<1>3. tokens' \subseteq Tokens /\ TokensFit'
    <2>1. CASE tokens' = tokens
        BY <1>1, <2>1 DEF SessionInv, SessionsTypeOK, TokensFit, Fits
    <2>2. CASE \E via \in Passwords : /\ tokens' = IssueTokens(client[p].of, client[p].row, via)
                                      /\ client[p].of \in People
                                      /\ Fits(user, client[p].row.version, via, client[p].of)
        <3>1. PICK via \in Passwords : /\ tokens' = IssueTokens(client[p].of, client[p].row, via)
                                       /\ client[p].of \in People
                                       /\ Fits(user, client[p].row.version, via, client[p].of)
            BY <2>2
        <3>2. PICK t : t = [of |-> client[p].of, version |-> client[p].row.version, via |-> via]
            OBVIOUS
        <3>3. tokens' = tokens \cup {t}
            BY <3>1, <3>2 DEF IssueTokens
        <3>4. t \in Tokens /\ Fits(user, t.version, t.via, t.of)
            BY <1>0, <3>1, <3>2 DEF Tokens, ClientRows, UserRows
        <3> QED BY <1>1, <3>3, <3>4 DEF SessionInv, SessionsTypeOK, TokensFit, Fits
    <2> QED BY <1>2, <2>1, <2>2
<1>4. Grows
    BY <1>1 DEF Grows
<1>5. client' \in [Clients -> ClientRows] /\ RowsFit'
    BY <1>0, <1>1, <1>4, OneMoves
<1>6. SessionsTypeOK'
    BY <1>1, <1>3, <1>5 DEF SessionInv, SessionsTypeOK, ClientRows
<1>7. Locks'
    BY <1>0, <1>1, LocksStay
<1> QED BY <1>3, <1>5, <1>6, <1>7 DEF SessionInv

\* A password that is set makes every token and every row read before an older one.
LEMMA SettingGrows ==
    ASSUME SessionsTypeOK, NEW u \in People, NEW new \in Passwords, SetPassword(u, new)
    PROVE  Grows /\ user' \in [People -> UserRows]
<1>1. user \in [People -> UserRows]
    BY DEF SessionsTypeOK
<1>2. user[u] \in UserRows
    BY <1>1
<1>3. user[u].version + 1 \in Nat /\ user[u].status \in Statuses
    BY <1>2 DEF UserRows
<1>4. PICK row : row = [user[u] EXCEPT !.password = new, !.version = user[u].version + 1]
    OBVIOUS
<1>5. row = [status |-> user[u].status, password |-> new, version |-> user[u].version + 1]
    BY <1>2, <1>4 DEF UserRows
<1>6. row \in UserRows /\ row.version = user[u].version + 1
    BY <1>3, <1>5 DEF UserRows
<1>7. user' = [user EXCEPT ![u] = row]
    BY <1>1, <1>2, <1>4 DEF SetPassword
<1> QED BY <1>1, <1>6, <1>7 DEF Grows

LEMMA WritePasswordKeeps ==
    ASSUME SessionInv, NEW p \in Clients, WritePassword(p)
    PROVE  SessionInv'
<1>0. /\ client[p] \in ClientRows /\ RowOK(user, client[p]) /\ SessionsTypeOK
      /\ Quiet \in ClientRows /\ RowOK(user', Quiet) /\ \A l \in Links : ~Holds(Quiet, l)
    BY QuietIsOK DEF SessionInv, SessionsTypeOK, ClientRows, RowsFit
<1>1. UNCHANGED <<link, tokens, resets, twoLinks>> /\ client' = [client EXCEPT ![p] = Quiet]
    BY DEF WritePassword, Leave
<1>2. client[p].of \in People /\ client[p].new \in Passwords
    BY <1>0 DEF WritePassword, RowOK, Personal, SessionPCs, ClientRows
<1>3. Grows /\ user' \in [People -> UserRows]
    <2>1. CASE SetPassword(client[p].of, client[p].new)
        BY <1>0, <1>2, <2>1, SettingGrows
    <2>2. CASE UNCHANGED user
        BY <1>0, <2>2 DEF Grows, SessionsTypeOK
    <2> QED BY <2>1, <2>2 DEF WritePassword
<1>4. client' \in [Clients -> ClientRows] /\ RowsFit'
    BY <1>0, <1>1, <1>3, OneMoves
<1>5. SessionsTypeOK'
    BY <1>0, <1>1, <1>3, <1>4 DEF SessionsTypeOK, ClientRows
<1>6. TokensFit'
    BY <1>1, <1>3, TokensStay
<1>7. Locks'
    BY <1>0, <1>1, LocksStay
<1> QED BY <1>4, <1>5, <1>6, <1>7 DEF SessionInv

\* Suspending somebody, or letting them in again, touches neither password nor version.
LEMMA SetStatusKeeps ==
    ASSUME SessionInv, NEW u \in People, SetStatus(u)
    PROVE  SessionInv'
<1>1. PICK s \in Statuses : user' = [user EXCEPT ![u].status = s]
    BY DEF SetStatus
<1>2. UNCHANGED <<link, tokens, client, resets, twoLinks>> /\ SessionsTypeOK
    BY DEF SetStatus, SessionInv
<1>3. user' \in [People -> UserRows] /\ Grows
    BY <1>1, <1>2 DEF SessionsTypeOK, UserRows, Grows
<1>4. SessionsTypeOK'
    BY <1>2, <1>3 DEF SessionsTypeOK
<1>5. TokensFit'
    BY <1>2, <1>3, TokensStay
<1>6. RowsFit'
    <2>1. \A p \in Clients : client[p] \in ClientRows /\ RowOK(user, client[p])
        BY DEF SessionInv, SessionsTypeOK, ClientRows, RowsFit
    <2>2. \A p \in Clients : RowOK(user', client[p])
        BY <1>2, <1>3, <2>1, RowOKStays
    <2> QED BY <1>2, <2>2 DEF RowsFit, RowOK, Fits
<1>7. Locks'
    BY <1>2 DEF SessionInv, Locks, HoldsLink, Unused, Issued
<1> QED BY <1>4, <1>5, <1>6, <1>7 DEF SessionInv

\* A token that is dropped leaves fewer.
LEMMA ExpireTokenKeeps ==
    ASSUME SessionInv, NEW t \in tokens, ExpireToken(t)
    PROVE  SessionInv'
<1> USE DEF ExpireToken, SessionInv
<1>1. SessionsTypeOK'
    BY DEF SessionsTypeOK
<1>2. TokensFit'
    BY DEF TokensFit, Fits
<1>3. RowsFit'
    BY DEF RowsFit, RowOK, Fits
<1>4. Locks'
    BY DEF Locks, HoldsLink, Unused, Issued
<1> QED BY <1>1, <1>2, <1>3, <1>4

-----------------------------------------------------------------------------
\* Links that nobody else has locked are retired.
LEMMA RetireLinksKeeps ==
    ASSUME SessionInv, NEW p \in Clients, RetireLinks(p)
    PROVE  SessionInv'
<1> DEFINE mine == Outstanding(client[p].of)
<1>0. /\ client[p] \in ClientRows /\ RowOK(user, client[p]) /\ SessionsTypeOK
      /\ client \in [Clients -> ClientRows] /\ link \in [Links -> LinkRows]
    BY DEF SessionInv, SessionsTypeOK, ClientRows, RowsFit
<1>1. PICK r : r = [client[p] EXCEPT !.pc = "create"]
    OBVIOUS
<1>2. r \in ClientRows /\ r.pc = "create" /\ r.of = client[p].of /\ client[p].pc = "retire"
    BY <1>0, <1>1 DEF ClientRows, SessionPCs, RetireLinks
<1>3. client' = [client EXCEPT ![p] = r] /\ UNCHANGED <<user, tokens, resets, twoLinks>>
    BY <1>0, <1>1 DEF RetireLinks, Step
<1>4. Grows /\ RowOK(user', r)
    BY <1>0, <1>2, <1>3 DEF Grows, RowOK, Personal, Linked, SessionPCs
<1>5. client' \in [Clients -> ClientRows] /\ RowsFit'
    BY <1>2, <1>3, <1>4, OneMoves
<1>6. \A l \in Links : link'[l] = IF l \in mine THEN [link[l] EXCEPT !.used = TRUE] ELSE link[l]
    BY DEF RetireLinks
<1>7. link' \in [Links -> LinkRows]
    <2>1. \A l \in Links : [link[l] EXCEPT !.used = TRUE] \in LinkRows
        BY <1>0 DEF LinkRows
    <2> QED BY <1>0, <2>1 DEF RetireLinks
<1>8. SessionsTypeOK'
    BY <1>0, <1>3, <1>5, <1>7 DEF SessionsTypeOK, ClientRows
<1>9. TokensFit'
    BY <1>3 DEF SessionInv, TokensFit, Fits
<1>10. \A q \in Clients, l \in Links : HoldsLink(q, l)' => q # p /\ HoldsLink(q, l)
    BY <1>0, <1>2, <1>3 DEF HoldsLink
<1>11. \A q \in Clients, l \in Links : HoldsLink(q, l)' => l \notin mine
    BY <1>10 DEF RetireLinks, LinkFree
<1>12. \A l \in Links : (Issued(l)' <=> Issued(l)) /\ (link[l].used => link'[l].used)
    BY <1>0, <1>6 DEF Issued, LinkRows
<1>13. Locks'
    <2>1. (\A q, k \in Clients, l \in Links : HoldsLink(q, l) /\ HoldsLink(k, l) => q = k)'
        BY <1>10 DEF SessionInv, Locks
    <2>2. (\A q \in Clients, l \in Links : HoldsLink(q, l) => Unused(l))'
        BY <1>6, <1>10, <1>11 DEF SessionInv, Locks, Unused, Issued
    <2>3. (\A l \in Links : resets[l] > 0 => Issued(l) /\ link[l].used)'
        BY <1>3, <1>12 DEF SessionInv, Locks
    <2> QED BY <2>1, <2>2, <2>3 DEF Locks
<1> QED BY <1>5, <1>8, <1>9, <1>13 DEF SessionInv

\* A link is created for somebody; other requests may be told that they are late.
LEMMA CreateLinkKeeps ==
    ASSUME SessionInv, NEW p \in Clients, CreateLink(p)
    PROVE  SessionInv'
<1> DEFINE u == client[p].of
<1>0. /\ client[p] \in ClientRows /\ RowOK(user, client[p]) /\ SessionsTypeOK
      /\ client \in [Clients -> ClientRows] /\ link \in [Links -> LinkRows]
    BY DEF SessionInv, SessionsTypeOK, ClientRows, RowsFit
<1>1. PICK l \in Links :
        /\ client[p].pc = "create" /\ ~Issued(l)
        /\ link' = [link EXCEPT ![l] = [of |-> u, used |-> FALSE, expired |-> FALSE]]
        /\ twoLinks' = IF client[p].stale THEN twoLinks \cup {u} ELSE twoLinks
        /\ client' = [q \in Clients |->
              IF q = p THEN Quiet
              ELSE IF client[q].pc = "create" /\ client[q].of = u
              THEN [client[q] EXCEPT !.stale = TRUE] ELSE client[q]]
        /\ UNCHANGED <<user, tokens, resets>>
    BY DEF CreateLink
<1>2. u \in People
    BY <1>0, <1>1 DEF RowOK, Personal, SessionPCs
<1>3. Quiet \in ClientRows /\ RowOK(user', Quiet) /\ \A k \in Links : ~Holds(Quiet, k)
    BY QuietIsOK
<1>4. \A q \in Clients \ {p} :
          /\ client'[q] \in ClientRows
          /\ \/ client'[q] = client[q]
             \/ client[q].pc = "create" /\ client'[q] = [client[q] EXCEPT !.stale = TRUE]
    <2> SUFFICES ASSUME NEW q \in Clients \ {p}
                 PROVE  /\ client'[q] \in ClientRows
                        /\ \/ client'[q] = client[q]
                           \/ /\ client[q].pc = "create"
                              /\ client'[q] = [client[q] EXCEPT !.stale = TRUE]
        OBVIOUS
    <2>1. client[q] \in ClientRows /\ [client[q] EXCEPT !.stale = TRUE] \in ClientRows
        BY <1>0 DEF ClientRows
    <2> QED BY <1>1, <2>1
<1>5. client'[p] = Quiet /\ client' \in [Clients -> ClientRows]
    BY <1>1, <1>3, <1>4
<1>6. link' \in [Links -> LinkRows]
    BY <1>0, <1>1, <1>2 DEF LinkRows
<1>7. SessionsTypeOK'
    BY <1>0, <1>1, <1>2, <1>5, <1>6 DEF SessionsTypeOK, ClientRows
<1>8. TokensFit'
    BY <1>1 DEF SessionInv, TokensFit, Fits
<1>9. \A q \in Clients \ {p} : RowOK(user, client'[q])
    <2> SUFFICES ASSUME NEW q \in Clients \ {p} PROVE RowOK(user, client'[q])
        OBVIOUS
    <2>1. client[q] \in ClientRows /\ RowOK(user, client[q])
        BY <1>0 DEF SessionInv, RowsFit
    <2>2. CASE client'[q] = client[q]
        BY <2>1, <2>2
    <2>3. CASE client[q].pc = "create" /\ client'[q] = [client[q] EXCEPT !.stale = TRUE]
        BY <2>1, <2>3 DEF RowOK, ClientRows, Linked, Personal
    <2> QED BY <1>4, <2>2, <2>3
<1>10. RowsFit'
    <2>1. \A q \in Clients : RowOK(user', client'[q])
        BY <1>1, <1>3, <1>5, <1>9
    <2> QED BY <2>1 DEF RowsFit, RowOK, Fits
<1>11. \A q \in Clients, k \in Links : HoldsLink(q, k)' => HoldsLink(q, k)
    <2> SUFFICES ASSUME NEW q \in Clients, NEW k \in Links, HoldsLink(q, k)'
                 PROVE  HoldsLink(q, k)
        OBVIOUS
    <2>1. Holds(client'[q], k)
        BY DEF Holds, HoldsLink
    <2>2. q # p
        BY <1>3, <1>5, <2>1
    <2>3. client[q] \in ClientRows
        BY <1>0
    <2>4. CASE client'[q] = client[q]
        BY <2>1, <2>4 DEF Holds, HoldsLink
    <2>5. CASE client[q].pc = "create" /\ client'[q] = [client[q] EXCEPT !.stale = TRUE]
        BY <2>1, <2>3, <2>5 DEF Holds, ClientRows
    <2> QED BY <1>4, <2>2, <2>4, <2>5
<1>12. \A k \in Links : k # l => link'[k] = link[k]
    BY <1>0, <1>1
<1>13. \A q \in Clients : ~HoldsLink(q, l)
    BY <1>1 DEF SessionInv, Locks, Unused
<1>14. Locks'
    <2>1. (\A q, k \in Clients, i \in Links : HoldsLink(q, i) /\ HoldsLink(k, i) => q = k)'
        BY <1>11 DEF SessionInv, Locks
    <2>2. (\A q \in Clients, i \in Links : HoldsLink(q, i) => Unused(i))'
        BY <1>11, <1>12, <1>13 DEF SessionInv, Locks, Unused, Issued
    <2>3. ~(resets[l] > 0)
        BY <1>1 DEF SessionInv, Locks
    <2>4. (\A i \in Links : resets[i] > 0 => Issued(i) /\ link[i].used)'
        BY <1>1, <1>12, <2>3 DEF SessionInv, Locks, Issued
    <2> QED BY <2>1, <2>2, <2>4 DEF Locks
<1> QED BY <1>7, <1>8, <1>10, <1>14 DEF SessionInv

\* What a reset had locked is used up, and it lets go of it.
LEMMA CommitResetKeeps ==
    ASSUME SessionInv, NEW p \in Clients, CommitReset(p)
    PROVE  SessionInv'
<1> DEFINE Spent(l) == l = client[p].link \/ l \in client[p].rows
<1>0. /\ client[p] \in ClientRows /\ RowOK(user, client[p]) /\ SessionsTypeOK
      /\ client \in [Clients -> ClientRows] /\ link \in [Links -> LinkRows]
      /\ Quiet \in ClientRows /\ RowOK(user', Quiet) /\ \A l \in Links : ~Holds(Quiet, l)
    BY QuietIsOK DEF SessionInv, SessionsTypeOK, ClientRows, RowsFit
<1>1. /\ client' = [client EXCEPT ![p] = Quiet] /\ UNCHANGED <<tokens, twoLinks>>
      /\ SetPassword(client[p].of, client[p].new) /\ client[p].pc = "commit"
      /\ resets' = [resets EXCEPT ![client[p].link] = resets[client[p].link] + 1]
    BY DEF CommitReset, Leave
<1>2. client[p].of \in People /\ client[p].new \in Passwords /\ client[p].link \in Links
    BY <1>0, <1>1 DEF RowOK, Personal, Linked, SessionPCs, ClientRows
<1>3. Grows /\ user' \in [People -> UserRows]
    BY <1>0, <1>1, <1>2, SettingGrows
<1>4. client' \in [Clients -> ClientRows] /\ RowsFit'
    BY <1>0, <1>1, <1>3, OneMoves
<1>5. \A l \in Links : link'[l] = IF Spent(l) THEN [link[l] EXCEPT !.used = TRUE] ELSE link[l]
    BY DEF CommitReset
<1>6. link' \in [Links -> LinkRows]
    <2>1. \A l \in Links : [link[l] EXCEPT !.used = TRUE] \in LinkRows
        BY <1>0 DEF LinkRows
    <2> QED BY <1>0, <2>1 DEF CommitReset
<1>7. SessionsTypeOK'
    <2>1. resets' \in [Links -> Nat]
        <3>1. resets \in [Links -> Nat]
            BY <1>0 DEF SessionsTypeOK
        <3>2. resets[client[p].link] + 1 \in Nat
            BY <1>2, <3>1
        <3> QED BY <1>1, <3>1, <3>2
    <2>2. tokens' \subseteq Tokens /\ twoLinks' \subseteq People
        BY <1>0, <1>1 DEF SessionsTypeOK
    <2> QED BY <1>3, <1>4, <1>6, <2>1, <2>2 DEF SessionsTypeOK, ClientRows
<1>8. TokensFit'
    BY <1>1, <1>3, TokensStay
<1>9. \A q \in Clients, l \in Links : HoldsLink(q, l)' => q # p /\ HoldsLink(q, l)
    <2>1. \A l \in Links : ~HoldsLink(p, l)'
        BY <1>0, <1>1 DEF HoldsLink, Holds
    <2> QED BY <1>0, <1>1, <2>1 DEF HoldsLink
<1>10. \A l \in Links : Spent(l) => HoldsLink(p, l)
    BY <1>1 DEF HoldsLink
<1>11. \A q \in Clients, l \in Links : HoldsLink(q, l)' => ~Spent(l)
    BY <1>9, <1>10 DEF SessionInv, Locks
<1>12. \A l \in Links : (Issued(l)' <=> Issued(l)) /\ (link[l].used => link'[l].used)
    <2> SUFFICES ASSUME NEW l \in Links
                 PROVE  (Issued(l)' <=> Issued(l)) /\ (link[l].used => link'[l].used)
        OBVIOUS
    <2>1. link[l] \in LinkRows
        BY <1>0
    <2>2. CASE ~Spent(l)
        BY <1>5, <2>2 DEF Issued
    <2>3. CASE Spent(l)
        <3>1. link'[l] = [link[l] EXCEPT !.used = TRUE]
            BY <1>5, <2>3
        <3> QED BY <2>1, <3>1 DEF Issued, LinkRows
    <2> QED BY <2>2, <2>3
<1>13. Issued(client[p].link) /\ link'[client[p].link].used
    <2>1. HoldsLink(p, client[p].link)
        BY <1>2, <1>10
    <2>2. Issued(client[p].link)
        BY <1>2, <2>1 DEF SessionInv, Locks, Unused
    <2>3. link[client[p].link] \in LinkRows
        BY <1>0, <1>2
    <2>4. link'[client[p].link] = [link[client[p].link] EXCEPT !.used = TRUE]
        BY <1>2, <1>5
    <2>5. link'[client[p].link].used
        BY <2>3, <2>4 DEF LinkRows
    <2> QED BY <2>2, <2>5
<1>14. Locks'
    <2>1. (\A q, k \in Clients, l \in Links : HoldsLink(q, l) /\ HoldsLink(k, l) => q = k)'
        BY <1>9 DEF SessionInv, Locks
    <2>2. (\A q \in Clients, l \in Links : HoldsLink(q, l) => Unused(l))'
        BY <1>5, <1>9, <1>11 DEF SessionInv, Locks, Unused, Issued
    <2>3. (\A l \in Links : resets[l] > 0 => Issued(l) /\ link[l].used)'
        <3> SUFFICES ASSUME NEW l \in Links, resets'[l] > 0 PROVE Issued(l)' /\ link'[l].used
            OBVIOUS
        <3>1. CASE l = client[p].link
            BY <1>12, <1>13, <3>1
        <3>2. CASE l # client[p].link
            BY <1>1, <1>12, <3>2 DEF SessionInv, Locks
        <3> QED BY <3>1, <3>2
    <2> QED BY <2>1, <2>2, <2>3 DEF Locks
<1> QED BY <1>4, <1>7, <1>8, <1>14 DEF SessionInv

\* Time passes a link by: what it is used for stays.
LEMMA ExpireLinkKeeps ==
    ASSUME SessionInv, NEW l \in Links, ExpireLink(l)
    PROVE  SessionInv'
<1>0. link \in [Links -> LinkRows] /\ UNCHANGED <<user, tokens, client, resets, twoLinks>>
    BY DEF SessionInv, SessionsTypeOK, ExpireLink
<1>1. \A k \in Links : /\ link'[k] \in LinkRows
                       /\ link'[k].of = link[k].of /\ link'[k].used = link[k].used
    BY <1>0 DEF ExpireLink, LinkRows
<1>2. SessionsTypeOK'
    BY <1>0, <1>1 DEF SessionInv, SessionsTypeOK, ExpireLink
<1>3. TokensFit' /\ RowsFit'
    BY <1>0 DEF SessionInv, TokensFit, RowsFit, RowOK, Fits
<1>4. Locks'
    BY <1>0, <1>1 DEF SessionInv, Locks, HoldsLink, Unused, Issued
<1> QED BY <1>2, <1>3, <1>4 DEF SessionInv

\* Every step keeps the invariant.
LEMMA SessionStepKeeps == SessionInv /\ [SessionsNext]_sessionVars => SessionInv'
<1> SUFFICES ASSUME SessionInv, [SessionsNext]_sessionVars PROVE SessionInv'
    OBVIOUS
<1>1. ASSUME NEW p \in Clients, SessionStep(p) PROVE SessionInv'
    BY <1>1, EnteringKeeps, GoingOnKeeps, IssuingKeeps, WritePasswordKeeps, RetireLinksKeeps,
       CreateLinkKeeps, CommitResetKeeps DEF SessionStep
<1>2. CASE UNCHANGED sessionVars
    BY <1>2 DEF sessionVars, SessionInv, SessionsTypeOK, TokensFit, RowsFit, RowOK, Fits, Locks,
                HoldsLink, Unused, Issued
<1> QED BY <1>1, <1>2, SetStatusKeeps, ExpireLinkKeeps, ExpireTokenKeeps DEF SessionsNext

\* The invariant holds throughout.
LEMMA SessionInvAlways == SessionsSpec => []SessionInv
<1> QED BY SessionsBegin, SessionStepKeeps, PTL DEF SessionsSpec

-----------------------------------------------------------------------------
(***************************************************************************)
(* For any number of people and requests, and however often passwords are  *)
(* set: a token that still works was got with the password its user has    *)
(* now (auth.service.ts, passwordReset.service.ts).                        *)
(***************************************************************************)
THEOREM TokensKnowThePassword == SessionsSpec => []LiveTokensKnowPassword
<1>1. SessionInv => LiveTokensKnowPassword
    BY DEF SessionInv, TokensFit, Fits, LiveTokensKnowPassword
<1> QED BY <1>1, SessionInvAlways, PTL

\* Every variable keeps its type.
THEOREM SessionsTypes == SessionsSpec => []SessionsTypeOK
<1>1. SessionInv => SessionsTypeOK
    BY DEF SessionInv
<1> QED BY <1>1, SessionInvAlways, PTL

-----------------------------------------------------------------------------
(* Reset links implement one-time links.                                   *)

\* No link is there to begin with.
LEMMA LinksBegin == SessionsInit => Reset!LinkInit
    BY DEF SessionsInit, Reset!LinkInit, LinkState, Issued, NoRow

\* If every link stays as it was or stops working unused, links are retired.
LEMMA OnlyRetired ==
    ASSUME resets' = resets,
           \A l \in Links : \/ LinkState'[l] = LinkState[l]
                            \/ LinkState[l] = "open" /\ LinkState'[l] = "retired"
    PROVE  Reset!LinkNext
<1> DEFINE S == {l \in Links : LinkState[l] = "open" /\ LinkState'[l] = "retired"}
<1>1. S \in SUBSET {k \in Links : LinkState[k] = "open"}
    OBVIOUS
<1>2. LinkState' = [k \in Links |-> LinkState'[k]]
    BY DEF LinkState
<1>3. LinkState' = [k \in Links |-> IF k \in S THEN "retired" ELSE LinkState[k]]
    BY <1>2
<1> QED BY <1>1, <1>3 DEF Reset!LinkNext, Reset!Retire

\* Where no link's row changes, a link changes at most by its claim being given up.
LEMMA ClaimsComeAndGo ==
    ASSUME SessionInv, UNCHANGED <<link, resets>>,
           \A l \in Links : Claimed(l)' => Claimed(l) \/ Open(l)
    PROVE  Reset!LinkNext
<1>1. \A l \in Links : (Issued(l)' <=> Issued(l)) /\ (Open(l)' <=> Open(l))
    BY DEF Issued, Open, Unused
<1>2. \A l \in Links : \/ LinkState'[l] = LinkState[l]
                       \/ LinkState[l] = "open" /\ LinkState'[l] = "retired"
    BY <1>1 DEF LinkState
<1> QED BY <1>2, OnlyRetired

\* Steps that leave the links alone.
LEMMA LinksUntouched ==
    ASSUME SessionInv, NEW p \in Clients,
           \/ Login(p) \/ ComparePassword(p) \/ RefreshToken(p) \/ VerifyRefresh(p)
           \/ ChangePassword(p) \/ ReadOwnRow(p) \/ WritePassword(p) \/ ForgotPassword(p)
           \/ ResetPassword(p) \/ Claim(p) \/ TakePerson(p) \/ SpendOthers(p) \/ RollbackReset(p)
    PROVE  Reset!LinkNext
<1>0. client \in [Clients -> ClientRows]
    BY DEF SessionInv, SessionsTypeOK, ClientRows
<1>1. UNCHANGED <<link, resets>>
    BY DEF Login, ComparePassword, RefreshToken, VerifyRefresh, ChangePassword, ReadOwnRow,
           WritePassword, ForgotPassword, ResetPassword, Claim, TakePerson, SpendOthers,
           RollbackReset, RowsUnchanged
<1>2. \A q \in Clients : q # p => client'[q] = client[q]
    BY <1>0 DEF Login, ComparePassword, RefreshToken, VerifyRefresh, ChangePassword, ReadOwnRow,
           WritePassword, ForgotPassword, ResetPassword, Claim, TakePerson, SpendOthers,
           RollbackReset, Enter, Step, Leave, Read
<1>3. \/ client'[p].pc \notin {"setPassword", "spendOthers", "commit"}
      \/ client'[p].pc = "setPassword" /\ client'[p].link = client[p].link /\ Open(client[p].link)
      \/ /\ client[p].pc \in {"setPassword", "spendOthers"} /\ client'[p].link = client[p].link
    <2>1. CASE \/ Login(p) \/ RefreshToken(p) \/ ChangePassword(p) \/ ForgotPassword(p)
               \/ ResetPassword(p)
        <3>1. ASSUME Login(p) PROVE client'[p].pc = "compare"
            BY <1>0, <3>1 DEF Login, Enter, Quiet
        <3>2. ASSUME RefreshToken(p) PROVE client'[p].pc = "verify"
            BY <1>0, <3>2 DEF RefreshToken, Enter, Quiet
        <3>3. ASSUME ChangePassword(p) PROVE client'[p].pc = "readOwn"
            BY <1>0, <3>3 DEF ChangePassword, Enter, Quiet
        <3>4. ASSUME ForgotPassword(p) PROVE client'[p].pc = "retire"
            BY <1>0, <3>4 DEF ForgotPassword, Enter, Quiet
        <3>5. ASSUME ResetPassword(p) PROVE client'[p].pc = "claim"
            BY <1>0, <3>5 DEF ResetPassword, Enter, Quiet
        <3> QED BY <2>1, <3>1, <3>2, <3>3, <3>4, <3>5
    <2>2. CASE ComparePassword(p) \/ VerifyRefresh(p) \/ WritePassword(p) \/ RollbackReset(p)
        BY <1>0, <2>2 DEF ComparePassword, VerifyRefresh, WritePassword, RollbackReset, Leave, Quiet
    <2>3. CASE ReadOwnRow(p)
        BY <1>0, <2>3 DEF ReadOwnRow, Read, ClientRows
    <2>4. CASE Claim(p)
        BY <1>0, <2>4 DEF Claim, Claimable, Leave, Quiet, ClientRows
    <2>5. CASE TakePerson(p)
        BY <1>0, <2>5 DEF TakePerson, Step, ClientRows
    <2>6. CASE SpendOthers(p)
        BY <1>0, <2>6 DEF SpendOthers, ClientRows
    <2> QED BY <2>1, <2>2, <2>3, <2>4, <2>5, <2>6
<1>4. ASSUME NEW l \in Links, Claimed(l)' PROVE Claimed(l) \/ Open(l)
    <2>1. PICK q \in Clients : client'[q].link = l /\ HoldsLink(q, l)'
        BY <1>4 DEF Claimed
    <2>2. CASE q # p
        BY <1>2, <2>1, <2>2 DEF Claimed, HoldsLink
    <2>3. CASE q = p
        <3>1. client'[p].pc \in {"setPassword", "spendOthers", "commit"}
            BY <2>1, <2>3 DEF HoldsLink
        <3> QED BY <1>3, <2>1, <2>3, <3>1 DEF Claimed, HoldsLink
    <2> QED BY <2>2, <2>3
<1> QED BY <1>1, <1>4, ClaimsComeAndGo

\* What is outstanding for somebody is retired at once.
LEMMA RetiredAtOnce ==
    ASSUME SessionInv, NEW p \in Clients, RetireLinks(p)
    PROVE  Reset!LinkNext
<1> DEFINE mine == Outstanding(client[p].of)
<1>0. client \in [Clients -> ClientRows] /\ link \in [Links -> LinkRows]
    BY DEF SessionInv, SessionsTypeOK, ClientRows
<1>1. /\ \A l \in Links : link'[l] = IF l \in mine THEN [link[l] EXCEPT !.used = TRUE] ELSE link[l]
      /\ resets' = resets /\ client[p].pc = "retire"
      /\ \A l \in mine : LinkFree(p, l)
    BY DEF RetireLinks
<1>2. /\ client'[p].pc = "create"
      /\ \A q \in Clients : q # p => client'[q] = client[q]
    BY <1>0 DEF RetireLinks, Step, ClientRows
<1>3. \A l \in Links : Claimed(l)' <=> Claimed(l)
    BY <1>1, <1>2 DEF Claimed, HoldsLink
<1>4. ASSUME NEW l \in Links, l \in mine
      PROVE  \/ LinkState'[l] = LinkState[l]
             \/ LinkState[l] = "open" /\ LinkState'[l] = "retired"
    <2>1. Issued(l) /\ ~link[l].used
        BY <1>4 DEF Outstanding, Unused
    <2>2. ~(resets[l] > 0)
        BY <2>1 DEF SessionInv, Locks
    <2>3. ~Claimed(l)
        BY <1>1, <1>4 DEF Claimed, LinkFree, HoldsLink
    <2>4. Issued(l)' /\ ~Open(l)'
        BY <1>0, <1>1, <1>4, <2>1 DEF Issued, Open, Unused, LinkRows
    <2> QED BY <1>1, <1>3, <2>1, <2>2, <2>3, <2>4 DEF LinkState
<1>5. ASSUME NEW l \in Links, l \notin mine PROVE LinkState'[l] = LinkState[l]
    <2>1. (Issued(l)' <=> Issued(l)) /\ (Open(l)' <=> Open(l))
        BY <1>1, <1>5 DEF Issued, Open, Unused
    <2> QED BY <1>1, <1>3, <2>1 DEF LinkState
<1> QED BY <1>1, <1>4, <1>5, OnlyRetired

\* A link is issued once.
LEMMA IssuedOnce ==
    ASSUME SessionInv, NEW p \in Clients, CreateLink(p)
    PROVE  Reset!LinkNext
<1>0. /\ client \in [Clients -> ClientRows] /\ link \in [Links -> LinkRows]
      /\ resets \in [Links -> Nat] /\ RowOK(user, client[p]) /\ client[p] \in ClientRows
    BY DEF SessionInv, SessionsTypeOK, ClientRows, RowsFit
<1>1. PICK l \in Links :
        /\ client[p].pc = "create" /\ ~Issued(l)
        /\ link' = [link EXCEPT ![l] = [of |-> client[p].of, used |-> FALSE, expired |-> FALSE]]
        /\ client' = [q \in Clients |->
              IF q = p THEN Quiet
              ELSE IF client[q].pc = "create" /\ client[q].of = client[p].of
              THEN [client[q] EXCEPT !.stale = TRUE] ELSE client[q]]
        /\ resets' = resets
    BY DEF CreateLink
<1>2. client[p].of # NoPerson
    BY <1>0, <1>1, SessionsAssumption DEF RowOK, Personal, SessionPCs
<1>3. \A q \in Clients : q # p =>
          client'[q] = client[q] \/ (client[q].pc = "create" /\ client'[q].pc = "create")
    BY <1>0, <1>1 DEF ClientRows
<1>4. client'[p].pc = "quiet"
    BY <1>1 DEF Quiet
<1>5. \A k \in Links : Claimed(k)' <=> Claimed(k)
    BY <1>1, <1>3, <1>4 DEF Claimed, HoldsLink
<1>6. \A k \in Links : k # l => LinkState'[k] = LinkState[k]
    <2>1. \A k \in Links : k # l => link'[k] = link[k]
        BY <1>0, <1>1
    <2> QED BY <1>1, <1>5, <2>1 DEF LinkState, Issued, Open, Unused
<1>7. LinkState[l] = "none" /\ LinkState'[l] = "open"
    <2>1. ~(resets[l] > 0)
        BY <1>1 DEF SessionInv, Locks
    <2>2. link'[l] = [of |-> client[p].of, used |-> FALSE, expired |-> FALSE]
        BY <1>0, <1>1
    <2>3. Issued(l)' /\ Open(l)'
        BY <1>2, <2>2 DEF Issued, Open, Unused
    <2> QED BY <1>1, <2>1, <2>3 DEF LinkState
<1>8. LinkState' = [LinkState EXCEPT ![l] = "open"]
    BY <1>6, <1>7 DEF LinkState
<1> QED BY <1>1, <1>7, <1>8 DEF Reset!LinkNext, Reset!Issue

\* A reset spends its link and retires the others it has locked, in one step.
LEMMA SpentOnce ==
    ASSUME SessionInv, NEW p \in Clients, CommitReset(p)
    PROVE  Reset!LinkNext
<1> DEFINE others == client[p].rows
<1>0. /\ client \in [Clients -> ClientRows] /\ link \in [Links -> LinkRows]
      /\ resets \in [Links -> Nat] /\ RowOK(user, client[p]) /\ client[p] \in ClientRows
    BY DEF SessionInv, SessionsTypeOK, ClientRows, RowsFit
<1>1. PICK l \in Links : l = client[p].link
    BY <1>0 DEF CommitReset, RowOK, Linked
<1>2. /\ client[p].pc = "commit" /\ client' = [client EXCEPT ![p] = Quiet]
      /\ resets' = [resets EXCEPT ![l] = resets[l] + 1]
      /\ \A k \in Links : link'[k] = IF k = l \/ k \in others
                                     THEN [link[k] EXCEPT !.used = TRUE] ELSE link[k]
    BY <1>1 DEF CommitReset, Leave
<1>3. \A k \in Links : k = l \/ k \in others => HoldsLink(p, k)
    BY <1>1, <1>2 DEF HoldsLink
<1>4. \A k \in Links : k = l \/ k \in others => Unused(k) /\ ~(resets[k] > 0)
    BY <1>3 DEF SessionInv, Locks, Unused
<1>5. \A q \in Clients : q # p => client'[q] = client[q]
    BY <1>0, <1>2
<1>6. client'[p].pc = "quiet"
    BY <1>0, <1>2 DEF Quiet
<1>7. \A k \in Links : k # l => (Claimed(k)' <=> Claimed(k))
    BY <1>1, <1>2, <1>5, <1>6 DEF Claimed, HoldsLink
<1>8. \A k \in Links : k \in others /\ k # l => ~Claimed(k)
    BY <1>1, <1>3 DEF Claimed, SessionInv, Locks
<1>9. LinkState[l] = "open" /\ LinkState'[l] = "spent"
    <2>1. Claimed(l)
        BY <1>1, <1>3 DEF Claimed
    <2>2. Issued(l) /\ LinkState[l] = "open"
        BY <1>1, <1>4, <2>1 DEF LinkState, Unused
    <2>3. resets[l] \in Nat /\ resets'[l] = resets[l] + 1
        BY <1>0, <1>1, <1>2
    <2>4. resets'[l] > 0
        BY <2>3
    <2>5. link[l] \in LinkRows /\ link'[l] = [link[l] EXCEPT !.used = TRUE]
        BY <1>0, <1>1, <1>2
    <2>6. Issued(l)'
        BY <2>2, <2>5 DEF Issued, LinkRows
    <2> QED BY <1>1, <2>2, <2>4, <2>6 DEF LinkState
<1>10. ASSUME NEW k \in Links, k # l
       PROVE  \/ LinkState'[k] = LinkState[k]
              \/ LinkState[k] = "open" /\ LinkState'[k] = "retired"
    <2>1. resets'[k] = resets[k]
        BY <1>0, <1>2, <1>10
    <2>2. CASE k \in others
        <3>1. link[k] \in LinkRows /\ link'[k] = [link[k] EXCEPT !.used = TRUE]
            BY <1>0, <1>2, <2>2
        <3>2. Issued(k) /\ Issued(k)'
            BY <1>4, <2>2, <3>1 DEF Unused, Issued, LinkRows
        <3>3. ~Open(k)'
            BY <3>1 DEF Open, Unused, LinkRows
        <3>4. ~Claimed(k)'
            BY <1>7, <1>8, <1>10, <2>2
        <3> QED BY <1>4, <2>1, <2>2, <3>2, <3>3, <3>4 DEF LinkState
    <2>3. CASE k \notin others
        <3>1. link'[k] = link[k]
            BY <1>2, <1>10, <2>3
        <3>2. (Issued(k)' <=> Issued(k)) /\ (Open(k)' <=> Open(k))
            BY <3>1 DEF Issued, Open, Unused
        <3> QED BY <1>7, <1>10, <2>1, <3>2 DEF LinkState
    <2> QED BY <2>2, <2>3
<1>11. PICK S : S = {k \in Links \ {l} : LinkState[k] = "open" /\ LinkState'[k] = "retired"}
    OBVIOUS
<1>12. S \in SUBSET {k \in Links \ {l} : LinkState[k] = "open"}
    BY <1>11
<1>13. LinkState' = [k \in Links |-> LinkState'[k]]
    BY DEF LinkState
<1>14. LinkState' = [k \in Links |-> IF k = l THEN "spent"
                                     ELSE IF k \in S THEN "retired" ELSE LinkState[k]]
    BY <1>9, <1>10, <1>11, <1>13
<1>15. Reset!Spend(l)
    BY <1>2, <1>9, <1>12, <1>14 DEF Reset!Spend
<1> QED BY <1>1, <1>15 DEF Reset!LinkNext

\* A link that ends with its half hour is retired, unless it is claimed by then.
LEMMA ExpiredIsRetired ==
    ASSUME SessionInv, NEW l \in Links, ExpireLink(l)
    PROVE  Reset!LinkNext
<1>0. link \in [Links -> LinkRows] /\ client' = client /\ resets' = resets
    BY DEF SessionInv, SessionsTypeOK, ExpireLink
<1>1. \A k \in Links : /\ link'[k].of = link[k].of /\ link'[k].used = link[k].used
                       /\ k # l => link'[k] = link[k]
    BY <1>0 DEF ExpireLink, LinkRows
<1>2. link'[l].expired
    BY <1>0 DEF ExpireLink, LinkRows
<1>3. \A k \in Links : (Claimed(k)' <=> Claimed(k)) /\ (Issued(k)' <=> Issued(k))
    BY <1>0, <1>1 DEF Claimed, HoldsLink, Issued
<1>4. \A k \in Links : Open(k)' => Open(k)
    BY <1>1, <1>2 DEF Open, Unused, Issued
<1>5. \A k \in Links : \/ LinkState'[k] = LinkState[k]
                       \/ LinkState[k] = "open" /\ LinkState'[k] = "retired"
    BY <1>0, <1>3, <1>4 DEF LinkState
<1> QED BY <1>0, <1>5, OnlyRetired

(***************************************************************************)
(* Sessions implements OneTimeLink: whatever number of resets and requests *)
(* for links overlap, a link that was mailed sets a password once, and not *)
(* after it was retired (passwordReset.service.ts, the claim).             *)
(***************************************************************************)
THEOREM ResetLinksAreOneTime == SessionsSpec => ResetLinksWorkOnce
<1>1. SessionInv /\ [SessionsNext]_sessionVars => [Reset!LinkNext]_(Reset!linkVars)
    <2> SUFFICES ASSUME SessionInv, [SessionsNext]_sessionVars
                 PROVE  [Reset!LinkNext]_(Reset!linkVars)
        OBVIOUS
    <2>1. ASSUME NEW p \in Clients, SessionStep(p) PROVE Reset!LinkNext
        BY <2>1, LinksUntouched, RetiredAtOnce, IssuedOnce, SpentOnce DEF SessionStep
    <2>2. ASSUME UNCHANGED <<link, client, resets>> PROVE UNCHANGED Reset!linkVars
        BY <2>2 DEF Reset!linkVars, LinkState, Issued, Open, Unused, Claimed, HoldsLink
    <2>3. CASE \E u \in People : SetStatus(u)
        BY <2>2, <2>3 DEF SetStatus
    <2>4. CASE \E t \in tokens : ExpireToken(t)
        BY <2>2, <2>4 DEF ExpireToken
    <2>5. CASE UNCHANGED sessionVars
        BY <2>2, <2>5 DEF sessionVars
    <2> QED BY <2>1, <2>3, <2>4, <2>5, ExpiredIsRetired DEF SessionsNext
<1> QED BY <1>1, LinksBegin, SessionInvAlways, PTL DEF SessionsSpec, ResetLinksWorkOnce, Reset!LinkSpec

-----------------------------------------------------------------------------
(***************************************************************************)
(* Invites, for any number of invites, addresses and requests.  A request  *)
(* that nobody has overtaken still knows that the invite it read is        *)
(* unspent, or that no other is outstanding for its address; an address    *)
(* that a transaction has inserted has no account, and no other inserts it.*)
(***************************************************************************)

AskerRows == [pc : AskerPCs, table : Tables \cup {NoTable}, email : Emails \cup {NoEmail},
              invite : Invites \cup {NoInvite}, stale : BOOLEAN]

Accepting(r) == r.pc \in {"insertUser", "markUsed", "commit"}
Inserted(r)  == r.pc \in {"markUsed", "commit"}

AskerOK(r) ==
    /\ r.pc \in {"retire", "insert"} => r.table \in Tables /\ r.email \in Emails
    /\ r.pc = "revoke" => r.invite \in Invites /\ Sent(r.invite)
    /\ Accepting(r) => /\ r.email \in Emails
                       /\ r.table \in {"team", "platform"} => r.invite \in Invites
                       /\ r.invite # NoInvite => Sent(r.invite)
                       /\ r.invite # NoInvite /\ ~r.stale => Unspent(r.invite)
                       /\ r.stale => r.invite # NoInvite
    /\ r.pc = "insert" /\ ~r.stale => ToRetire(r.table, r.email) = {}

AskersOK == \A p \in Askers : AskerOK(asker[p])

AddressesApart ==
    /\ \A p, q \in Askers : Inserted(asker[p]) /\ Inserted(asker[q]) /\ asker[p].email = asker[q].email
                                => p = q
    /\ \A p \in Askers : Inserted(asker[p]) => ~Taken(asker[p].email)

\* Who came in by an invite has used it.
CameIn == \A a \in accounts : a.from # NoInvite => Sent(a.from) /\ invite[a.from].used

Addressed == \A i \in Invites : Sent(i) => invite[i].email \in Emails

\* OneOpenInviteUnlessRaced, of the invites that have expired as well.
OneUnspent ==
    \A i, j \in Invites :
        /\ i # j /\ Unspent(i) /\ Unspent(j)
        /\ invite[i].email = invite[j].email /\ invite[i].table = invite[j].table
        => i \in overtaken \/ j \in overtaken

InviteInv == /\ InvitesTypeOK /\ AskersOK /\ AddressesApart /\ CameIn /\ Addressed
             /\ OneUnspent /\ RevokedAdmitsNobodyUnlessRaced /\ OneAccountPerAddress

\* A request that waits is as every request begins.
LEMMA WaitingIsOK == Waiting \in AskerRows /\ ~Inserted(Waiting) /\ AskerOK(Waiting) /\ AskerOK(Waiting)'
BY DEF Waiting, AskerRows, AskerPCs, Inserted, AskerOK, Accepting

\* Nobody has an account, and no request is under way.
LEMMA InvitesBegin == InvitesInit => InviteInv
<1> SUFFICES ASSUME InvitesInit PROVE InviteInv
    OBVIOUS
<1>1. InvitesTypeOK
    BY WaitingIsOK DEF InvitesInit, InvitesTypeOK, AskerRows, NotSent, InviteRows, Tables
<1>2. AskersOK /\ AddressesApart
    BY WaitingIsOK DEF InvitesInit, AskersOK, AddressesApart
<1>3. CameIn /\ Addressed /\ RevokedAdmitsNobodyUnlessRaced /\ OneAccountPerAddress
    BY DEF InvitesInit, Sent, NotSent, Addressed, CameIn, RevokedAdmitsNobodyUnlessRaced, OneAccountPerAddress
<1>4. OneUnspent
    BY DEF InvitesInit, OneUnspent, Unspent, Sent, NotSent
<1> QED BY <1>1, <1>2, <1>3, <1>4 DEF InviteInv

\* A request that only goes on, inserting at most an address that is free.
LEMMA AskingKeeps ==
    ASSUME InviteInv, NEW p \in Askers, NEW r \in AskerRows, asker' = [asker EXCEPT ![p] = r],
           UNCHANGED <<invite, accounts, overtaken>>, AskerOK(r),
           Inserted(r) => /\ ~Taken(r.email)
                          /\ \A q \in Askers \ {p} : Inserted(asker[q]) => asker[q].email # r.email
    PROVE  InviteInv'
<1>1. /\ asker' \in [Askers -> AskerRows] /\ asker'[p] = r
      /\ \A q \in Askers \ {p} : asker'[q] = asker[q]
    BY DEF InviteInv, InvitesTypeOK, AskerRows
<1>2. InvitesTypeOK'
    BY <1>1 DEF InviteInv, InvitesTypeOK, AskerRows
<1>3. /\ \A i : (Sent(i)' <=> Sent(i)) /\ (Unspent(i)' <=> Unspent(i))
      /\ \A e : Taken(e)' <=> Taken(e)
      /\ \A t, e : ToRetire(t, e)' = ToRetire(t, e)
    BY DEF Sent, Unspent, Taken, ToRetire
<1>4. ASSUME NEW q \in Askers PROVE AskerOK(asker[q])'
    <2>1. PICK s : s = asker'[q]
        OBVIOUS
    <2>2. AskerOK(s)
        BY <1>1, <2>1 DEF InviteInv, AskersOK
    <2>3. AskerOK(s)'
        BY <1>3, <2>2 DEF AskerOK, Accepting
    <2> QED BY <2>1, <2>3 DEF AskerOK, Accepting, ToRetire, Sent, Unspent
<1>5. AddressesApart'
    BY <1>1, <1>3 DEF InviteInv, AddressesApart, Inserted
<1>6. CameIn' /\ Addressed' /\ OneUnspent' /\ RevokedAdmitsNobodyUnlessRaced' /\ OneAccountPerAddress'
    BY <1>3 DEF InviteInv, CameIn, Addressed, OneUnspent, RevokedAdmitsNobodyUnlessRaced,
                OneAccountPerAddress
<1> QED BY <1>2, <1>4, <1>5, <1>6 DEF InviteInv, AskersOK

\* What a request's record says.
LEMMA AskerFacts ==
    ASSUME InviteInv, NEW p \in Askers
    PROVE  asker[p] \in AskerRows /\ AskerOK(asker[p]) /\ asker \in [Askers -> AskerRows]
BY DEF InviteInv, InvitesTypeOK, AskersOK, AskerRows

\* Requests that begin.
LEMMA AskKeeps ==
    ASSUME InviteInv, NEW p \in Askers,
           \/ \E t \in Tables : StartInvite(p, t) \/ StartRevoke(p, t) \/ StartAccept(p, t)
           \/ Register(p)
    PROVE  InviteInv'
<1>0. Waiting \in AskerRows /\ invite \in [Invites -> InviteRows]
    BY WaitingIsOK DEF InviteInv, InvitesTypeOK
<1>1. ASSUME NEW t \in Tables, StartInvite(p, t) PROVE InviteInv'
    <2>1. PICK e \in Emails :
              Ask(p, [Waiting EXCEPT !.pc = "retire", !.table = t, !.email = e])
              /\ UNCHANGED <<invite, accounts, overtaken>>
        BY <1>1 DEF StartInvite
    <2>2. PICK r : r = [Waiting EXCEPT !.pc = "retire", !.table = t, !.email = e]
        OBVIOUS
    <2>3. r \in AskerRows /\ r.pc = "retire" /\ r.table = t /\ r.email = e
        BY <1>0, <2>2 DEF AskerRows, AskerPCs
    <2>4. AskerOK(r) /\ ~Inserted(r)
        BY <2>3 DEF AskerOK, Accepting, Inserted
    <2> QED BY <2>1, <2>2, <2>3, <2>4, AskingKeeps DEF Ask
<1>2. ASSUME NEW t \in Tables, StartRevoke(p, t) PROVE InviteInv'
    <2>1. PICK i \in Invites :
              /\ invite[i].table = t
              /\ Ask(p, [Waiting EXCEPT !.pc = "revoke", !.invite = i])
              /\ UNCHANGED <<invite, accounts, overtaken>>
        BY <1>2 DEF StartRevoke
    <2>2. PICK r : r = [Waiting EXCEPT !.pc = "revoke", !.invite = i]
        OBVIOUS
    <2>3. r \in AskerRows /\ r.pc = "revoke" /\ r.invite = i /\ Sent(i)
        BY <1>0, <2>1, <2>2 DEF AskerRows, AskerPCs, Sent, Tables, NoTable
    <2>4. AskerOK(r) /\ ~Inserted(r)
        BY <2>3 DEF AskerOK, Accepting, Inserted
    <2> QED BY <2>1, <2>2, <2>3, <2>4, AskingKeeps DEF Ask
<1>3. ASSUME NEW t \in Tables, StartAccept(p, t) PROVE InviteInv'
    <2>1. PICK i \in Invites :
              /\ invite[i].table = t /\ IsOpenInvite(i)
              /\ Ask(p, [Waiting EXCEPT !.pc = "insertUser", !.table = t, !.invite = i,
                                        !.email = invite[i].email])
              /\ UNCHANGED <<invite, accounts, overtaken>>
        BY <1>3 DEF StartAccept
    <2>2. PICK r : r = [Waiting EXCEPT !.pc = "insertUser", !.table = t, !.invite = i,
                                       !.email = invite[i].email]
        OBVIOUS
    <2>3. Unspent(i) /\ Sent(i) /\ invite[i] \in InviteRows
        BY <1>0, <2>1 DEF IsOpenInvite, Unspent
    <2>4. /\ r \in AskerRows /\ r.pc = "insertUser" /\ r.invite = i /\ r.email = invite[i].email
          /\ r.stale = FALSE
        BY <1>0, <2>2, <2>3 DEF AskerRows, AskerPCs, InviteRows, Waiting
    <2>5. invite[i].email \in Emails
        BY <2>3 DEF InviteInv, Addressed
    <2>6. AskerOK(r) /\ ~Inserted(r)
        BY <2>3, <2>4, <2>5 DEF AskerOK, Accepting, Inserted
    <2> QED BY <2>1, <2>2, <2>4, <2>6, AskingKeeps DEF Ask
<1>4. CASE Register(p)
    <2>1. PICK e \in Emails :
              Ask(p, [Waiting EXCEPT !.pc = "insertUser", !.email = e])
              /\ UNCHANGED <<invite, accounts, overtaken>>
        BY <1>4 DEF Register
    <2>2. PICK r : r = [Waiting EXCEPT !.pc = "insertUser", !.email = e]
        OBVIOUS
    <2>3. /\ r \in AskerRows /\ r.pc = "insertUser" /\ r.email = e /\ r.invite = NoInvite
          /\ r.table = NoTable /\ r.stale = FALSE
        BY <1>0, <2>2 DEF AskerRows, AskerPCs, Waiting
    <2>4. AskerOK(r) /\ ~Inserted(r)
        BY <2>3 DEF AskerOK, Accepting, Inserted, NoTable
    <2> QED BY <2>1, <2>2, <2>3, <2>4, AskingKeeps DEF Ask
<1> QED BY <1>1, <1>2, <1>3, <1>4

\* The address is inserted when nobody has it and nobody else inserts it.
LEMMA InsertingKeeps ==
    ASSUME InviteInv, NEW p \in Askers, InsertUser(p) \/ MarkUsed(p) \/ RollbackAccept(p)
    PROVE  InviteInv'
<1>0. /\ asker[p] \in AskerRows /\ AskerOK(asker[p]) /\ asker \in [Askers -> AskerRows]
      /\ UNCHANGED <<invite, accounts, overtaken>>
    BY AskerFacts DEF InsertUser, MarkUsed, RollbackAccept
<1>1. ASSUME Answer(p) PROVE InviteInv'
    BY <1>0, <1>1, WaitingIsOK, AskingKeeps DEF Answer
<1>2. ASSUME NEW pc \in {"markUsed", "commit"}, Proceed(p, pc), Accepting(asker[p]),
             /\ ~Taken(asker[p].email)
             /\ \A q \in Askers \ {p} : Inserted(asker[q]) => asker[q].email # asker[p].email
      PROVE  InviteInv'
    <2>1. PICK r : r = [asker[p] EXCEPT !.pc = pc]
        OBVIOUS
    <2>2. /\ r \in AskerRows /\ r.pc = pc /\ r.table = asker[p].table /\ r.email = asker[p].email
          /\ r.invite = asker[p].invite /\ r.stale = asker[p].stale
        BY <1>0, <2>1 DEF AskerRows, AskerPCs
    <2>3. AskerOK(r)
        BY <1>0, <1>2, <2>2 DEF AskerOK, Accepting
    <2> QED BY <1>0, <1>2, <2>1, <2>2, <2>3, AskingKeeps DEF Proceed
<1>3. CASE InsertUser(p)
    <2>1. \A q \in Askers \ {p} : Inserted(asker[q]) => asker[q].email # asker[p].email
        BY <1>3 DEF InsertUser, HoldsEmail, Inserted
    <2>2. Accepting(asker[p])
        BY <1>3 DEF InsertUser, Accepting
    <2>3. CASE Taken(asker[p].email)
        BY <1>1, <1>3, <2>3 DEF InsertUser
    <2>4. CASE ~Taken(asker[p].email)
        BY <1>2, <1>3, <2>1, <2>2, <2>4 DEF InsertUser
    <2> QED BY <2>3, <2>4
<1>4. CASE MarkUsed(p)
    <2>1. Accepting(asker[p]) /\ Inserted(asker[p]) /\ Proceed(p, "commit")
        BY <1>4 DEF MarkUsed, Accepting, Inserted
    <2>2. /\ ~Taken(asker[p].email)
          /\ \A q \in Askers \ {p} : Inserted(asker[q]) => asker[q].email # asker[p].email
        BY <2>1 DEF InviteInv, AddressesApart
    <2> QED BY <1>2, <2>1, <2>2
<1> QED BY <1>1, <1>3, <1>4 DEF RollbackAccept

\* When rows of invites are written: whoever read what has changed is stale.
LEMMA OthersStayOK ==
    ASSUME InviteInv, NEW p \in Askers, NEW r, asker'[p] = r, AskerOK(r)',
           \A i \in Invites : Sent(i) => Sent(i)',
           \A q \in Askers \ {p} :
               /\ asker'[q].pc = asker[q].pc /\ asker'[q].table = asker[q].table
               /\ asker'[q].email = asker[q].email /\ asker'[q].invite = asker[q].invite
               /\ asker[q].stale => asker'[q].stale
               /\ asker'[q].stale => asker[q].stale \/ asker[q].invite \in Invites \/ asker[q].pc = "insert"
               /\ \A i \in Invites : asker[q].invite = i /\ Unspent(i)
                                      => Unspent(i)' \/ asker'[q].stale
               /\ \A t \in Tables, e \in Emails :
                     /\ asker[q].pc = "insert" /\ asker[q].table = t /\ asker[q].email = e
                     /\ ToRetire(t, e) = {}
                     => ToRetire(t, e)' = {} \/ asker'[q].stale
    PROVE  AskersOK'
<1> SUFFICES ASSUME NEW q \in Askers PROVE AskerOK(asker[q])'
    BY DEF AskersOK
<1>1. CASE q = p
    BY <1>1 DEF AskerOK, Accepting
<1>2. CASE q # p
    <2>1. PICK s, t : s = asker[q] /\ t = asker'[q]
        OBVIOUS
    <2>2. AskerOK(s) /\ s \in AskerRows
        BY <2>1, AskerFacts
    <2>3. /\ t.pc = s.pc /\ t.table = s.table /\ t.email = s.email /\ t.invite = s.invite
          /\ s.stale => t.stale
          /\ t.stale => s.stale \/ s.invite \in Invites \/ s.pc = "insert"
          /\ s.invite \in Invites /\ Unspent(s.invite) => Unspent(s.invite)' \/ t.stale
          /\ s.pc = "insert" /\ ToRetire(s.table, s.email) = {}
                => ToRetire(s.table, s.email)' = {} \/ t.stale
        BY <1>2, <2>1, <2>2 DEF AskerOK
    <2>4. s.invite # NoInvite => s.invite \in Invites
        BY <2>2 DEF AskerRows
    <2>5. AskerOK(t)'
        BY <2>2, <2>3, <2>4, InvitesAssumption DEF AskerOK, Accepting
    <2> QED BY <2>1, <2>5 DEF AskerOK, Accepting
<1> QED BY <1>1, <1>2

\* Of an invite whose row is written nothing changes but used, revoked and expired, and
\* what is spent stays spent.
Spending == \A i \in Invites :
    /\ invite'[i].table = invite[i].table /\ invite'[i].email = invite[i].email
    /\ invite[i].used => invite'[i].used
    /\ invite[i].revoked => invite'[i].revoked

\* What spending invites keeps, whatever else the step does.
LEMMA SpendingKeeps ==
    ASSUME InviteInv, Spending, overtaken \subseteq overtaken'
    PROVE  /\ \A i \in Invites : Sent(i)' = Sent(i) /\ (Unspent(i)' => Unspent(i))
           /\ Addressed' /\ OneUnspent'
           /\ \A t \in Tables, e \in Emails : ToRetire(t, e)' \subseteq ToRetire(t, e)
<1>1. \A i \in Invites : Sent(i)' = Sent(i) /\ (Unspent(i)' => Unspent(i))
    BY DEF Spending, Sent, Unspent
<1>2. Addressed'
    BY <1>1 DEF InviteInv, Addressed, Spending
<1>3. OneUnspent'
    BY <1>1 DEF InviteInv, OneUnspent, Spending
<1>4. \A t \in Tables, e \in Emails : ToRetire(t, e)' \subseteq ToRetire(t, e)
    BY <1>1 DEF ToRetire, Spending
<1> QED BY <1>1, <1>2, <1>3, <1>4

\* Where p answers with r and overtakes who read what changed.
LEMMA OvertakeFacts ==
    ASSUME InviteInv, NEW p \in Askers, NEW r \in AskerRows, NEW changed \in SUBSET Invites,
           Overtake(p, r, changed)
    PROVE  /\ asker' \in [Askers -> AskerRows] /\ asker'[p] = r
           /\ \A q \in Askers \ {p} :
                 /\ asker'[q].pc = asker[q].pc /\ asker'[q].table = asker[q].table
                 /\ asker'[q].email = asker[q].email /\ asker'[q].invite = asker[q].invite
                 /\ asker[q].stale => asker'[q].stale
                 /\ asker'[q].stale => asker[q].stale \/ asker[q].invite \in Invites \/ asker[q].pc = "insert"
                 /\ asker[q].invite \in changed => asker'[q].stale
<1>1. asker \in [Askers -> AskerRows]
    BY DEF InviteInv, InvitesTypeOK, AskerRows
<1>2. asker'[p] = r
    BY DEF Overtake
<1>3. ASSUME NEW q \in Askers \ {p}
      PROVE  /\ asker'[q] \in AskerRows
             /\ asker'[q].pc = asker[q].pc /\ asker'[q].table = asker[q].table
             /\ asker'[q].email = asker[q].email /\ asker'[q].invite = asker[q].invite
             /\ asker[q].stale => asker'[q].stale
             /\ asker'[q].stale => asker[q].stale \/ asker[q].invite \in Invites \/ asker[q].pc = "insert"
             /\ asker[q].invite \in changed => asker'[q].stale
    <2>1. asker'[q] = IF asker[q].invite \in changed THEN [asker[q] EXCEPT !.stale = TRUE]
                                                     ELSE asker[q]
        BY DEF Overtake
    <2>2. asker[q] \in AskerRows
        BY <1>1
    <2> QED BY <2>1, <2>2 DEF AskerRows
<1>4. asker' \in [Askers -> AskerRows]
    BY <1>2, <1>3 DEF Overtake
<1> QED BY <1>2, <1>3, <1>4

\* Who holds an address holds it still, while nobody but who answers gets an account.
LEMMA AddressesStay ==
    ASSUME InviteInv, NEW p \in Askers, ~Inserted(asker[p])',
           \A q \in Askers \ {p} : asker'[q].pc = asker[q].pc /\ asker'[q].email = asker[q].email,
           \A a \in accounts' : \/ a \in accounts
                                \/ Inserted(asker[p]) /\ a.email = asker[p].email
    PROVE  AddressesApart'
<1>1. \A q \in Askers : Inserted(asker[q])' => q # p /\ Inserted(asker[q])
    BY DEF Inserted
<1>2. ASSUME NEW q \in Askers, Inserted(asker[q])' PROVE ~Taken(asker[q].email)'
    <2>1. PICK e : e = asker[q].email
        OBVIOUS
    <2>2. q # p /\ Inserted(asker[q]) /\ asker'[q].email = e
        BY <1>1, <1>2, <2>1
    <2>3. ~Taken(e) /\ ~(Inserted(asker[p]) /\ asker[p].email = e)
        BY <2>1, <2>2 DEF InviteInv, AddressesApart
    <2> QED BY <2>2, <2>3 DEF Taken
<1> QED BY <1>1, <1>2 DEF InviteInv, AddressesApart

\* An invite that is retired is unspent: nobody came in by it.
LEMMA RetireKeeps ==
    ASSUME InviteInv, NEW p \in Askers, RetireInvites(p)
    PROVE  InviteInv'
<1>1. PICK t, e : t = asker[p].table /\ e = asker[p].email
    OBVIOUS
<1>2. PICK old : old = ToRetire(t, e)
    OBVIOUS
<1>3. PICK r : r = [asker[p] EXCEPT !.pc = "insert"]
    OBVIOUS
<1>4. /\ asker[p] \in AskerRows /\ AskerOK(asker[p]) /\ asker[p].pc = "retire"
      /\ invite \in [Invites -> InviteRows]
    BY AskerFacts DEF RetireInvites, InviteInv, InvitesTypeOK
<1>5. /\ r \in AskerRows /\ r.pc = "insert" /\ r.table = t /\ r.email = e
      /\ t \in Tables /\ e \in Emails
    BY <1>1, <1>3, <1>4 DEF AskerRows, AskerPCs, AskerOK
<1>6. /\ invite' = [i \in Invites |-> [invite[i] EXCEPT !.revoked = @ \/ i \in old]]
      /\ Overtake(p, r, old) /\ accounts' = accounts /\ overtaken' = overtaken
    BY <1>1, <1>2, <1>3 DEF RetireInvites
<1>7. /\ invite' \in [Invites -> InviteRows]
      /\ \A i \in Invites : /\ invite'[i].table = invite[i].table
                             /\ invite'[i].email = invite[i].email
                             /\ invite'[i].used = invite[i].used
                             /\ invite'[i].revoked = (invite[i].revoked \/ i \in old)
    BY <1>4, <1>6 DEF InviteRows
<1>8. Spending
    BY <1>7 DEF Spending
<1>9. /\ asker' \in [Askers -> AskerRows] /\ asker'[p] = r
      /\ \A q \in Askers \ {p} :
            /\ asker'[q].pc = asker[q].pc /\ asker'[q].table = asker[q].table
            /\ asker'[q].email = asker[q].email /\ asker'[q].invite = asker[q].invite
            /\ asker[q].stale => asker'[q].stale
            /\ asker'[q].stale => asker[q].stale \/ asker[q].invite \in Invites \/ asker[q].pc = "insert"
            /\ asker[q].invite \in old => asker'[q].stale
    <2>1. old \subseteq Invites
        BY <1>2 DEF ToRetire
    <2> QED BY <1>5, <1>6, <2>1, OvertakeFacts
<1>10. InvitesTypeOK'
    BY <1>6, <1>7, <1>9 DEF InviteInv, InvitesTypeOK, AskerRows
<1>11. AskersOK'
    <2>1. ToRetire(t, e)' = {}
        BY <1>2, <1>7 DEF ToRetire, Unspent, Sent
    <2>2. AskerOK(r)'
        BY <1>5, <2>1 DEF AskerOK, Accepting
    <2>3. \A i \in Invites : Unspent(i) => Unspent(i)' \/ i \in old
        BY <1>7 DEF Unspent, Sent
    <2>4. \A i \in Invites : Sent(i) => Sent(i)'
        BY <1>6, <1>8, SpendingKeeps
    <2>5. \A k \in Tables, m \in Emails : ToRetire(k, m) = {} => ToRetire(k, m)' = {}
        BY <1>6, <1>8, SpendingKeeps
    <2> QED BY <1>9, <2>2, <2>3, <2>4, <2>5, OthersStayOK
<1>12. AddressesApart'
    BY <1>5, <1>6, <1>9, AddressesStay DEF Inserted
<1>13. Addressed' /\ OneUnspent' /\ \A i \in Invites : Sent(i)' = Sent(i)
    BY <1>6, <1>8, SpendingKeeps
<1>14. CameIn' /\ RevokedAdmitsNobodyUnlessRaced' /\ OneAccountPerAddress'
    <2>1. \A a \in accounts : a.from # NoInvite => a.from \in Invites
        BY DEF InviteInv, InvitesTypeOK, Accounts
    <2>2. \A i \in old : ~invite[i].used
        BY <1>2 DEF ToRetire, Unspent
    <2>3. CameIn'
        BY <1>6, <1>7, <1>13, <2>1 DEF InviteInv, CameIn
    <2>4. RevokedAdmitsNobodyUnlessRaced'
        <3>1. \A a \in accounts : a.from # NoInvite => a.from \notin old
            BY <2>2 DEF InviteInv, CameIn
        <3> QED BY <1>6, <1>7, <2>1, <3>1 DEF InviteInv, RevokedAdmitsNobodyUnlessRaced
    <2> QED BY <1>6, <2>3, <2>4 DEF InviteInv, OneAccountPerAddress
<1> QED BY <1>10, <1>11, <1>12, <1>13, <1>14 DEF InviteInv

\* An invite that is created while another is outstanding is overtaken.
LEMMA InsertKeeps ==
    ASSUME InviteInv, NEW p \in Askers, InsertInvite(p)
    PROVE  InviteInv'
<1>1. PICK r : r = asker[p]
    OBVIOUS
<1>2. PICK i \in Invites :
         /\ r.pc = "insert" /\ ~Sent(i)
         /\ invite' = [invite EXCEPT ![i] = [NotSent EXCEPT !.table = r.table, !.email = r.email]]
         /\ overtaken' = overtaken \cup {j \in {i} : r.stale}
         /\ asker' = [q \in Askers |->
               IF q = p THEN Waiting
               ELSE [asker[q] EXCEPT !.stale = @ \/ (/\ asker[q].pc = "insert"
                                                     /\ asker[q].email = r.email
                                                     /\ asker[q].table = r.table)]]
         /\ accounts' = accounts
    BY <1>1 DEF InsertInvite
<1>3. /\ r \in AskerRows /\ AskerOK(r) /\ asker \in [Askers -> AskerRows]
      /\ invite \in [Invites -> InviteRows] /\ r.table \in Tables /\ r.email \in Emails
    BY <1>1, <1>2, AskerFacts DEF InviteInv, InvitesTypeOK, AskerOK
<1>4. /\ invite' \in [Invites -> InviteRows]
      /\ \A j \in Invites \ {i} : invite'[j] = invite[j]
      /\ invite'[i].table = r.table /\ invite'[i].email = r.email
      /\ ~invite'[i].used /\ ~invite'[i].revoked
    BY <1>2, <1>3 DEF NotSent, InviteRows
<1>5. /\ asker'[p] = Waiting
      /\ \A q \in Askers \ {p} :
            /\ asker'[q] \in AskerRows
            /\ asker'[q].pc = asker[q].pc /\ asker'[q].table = asker[q].table
            /\ asker'[q].email = asker[q].email /\ asker'[q].invite = asker[q].invite
            /\ asker[q].stale => asker'[q].stale
            /\ asker'[q].stale => asker[q].stale \/ asker[q].invite \in Invites \/ asker[q].pc = "insert"
            /\ asker[q].pc = "insert" /\ asker[q].email = r.email /\ asker[q].table = r.table
                  => asker'[q].stale
    <2>1. asker'[p] = Waiting
        BY <1>2
    <2>2. ASSUME NEW q \in Askers \ {p}
          PROVE  asker'[q] = [asker[q] EXCEPT !.stale = @ \/ (/\ asker[q].pc = "insert"
                                                             /\ asker[q].email = r.email
                                                             /\ asker[q].table = r.table)]
        BY <1>2
    <2>3. ASSUME NEW q \in Askers \ {p}
          PROVE  /\ asker'[q] \in AskerRows
                 /\ asker'[q].pc = asker[q].pc /\ asker'[q].table = asker[q].table
                 /\ asker'[q].email = asker[q].email /\ asker'[q].invite = asker[q].invite
                 /\ asker[q].stale => asker'[q].stale
                 /\ asker'[q].stale => asker[q].stale \/ asker[q].invite \in Invites \/ asker[q].pc = "insert"
                 /\ asker[q].pc = "insert" /\ asker[q].email = r.email /\ asker[q].table = r.table
                       => asker'[q].stale
        <3>1. PICK s \in BOOLEAN : s = (asker[q].stale
                                        \/ (/\ asker[q].pc = "insert" /\ asker[q].email = r.email
                                            /\ asker[q].table = r.table))
            OBVIOUS
        <3>2. asker[q] \in AskerRows
            BY <1>3
        <3>3. asker'[q] = [asker[q] EXCEPT !.stale = s]
            BY <2>2, <3>1
        <3> QED BY <3>1, <3>2, <3>3 DEF AskerRows
    <2> QED BY <2>1, <2>3
<1>6. InvitesTypeOK'
    <2>1. asker' \in [Askers -> AskerRows]
        <3>1. \A q \in Askers : asker'[q] \in AskerRows
            BY <1>5, WaitingIsOK
        <3>2. asker' = [q \in Askers |-> asker'[q]]
            BY <1>2
        <3> QED BY <3>1, <3>2
    <2>2. accounts' \subseteq Accounts /\ overtaken' \subseteq Invites
        BY <1>2 DEF InviteInv, InvitesTypeOK
    <2> QED BY <1>4, <2>1, <2>2 DEF InvitesTypeOK, AskerRows
<1>7. /\ Sent(i)' /\ Unspent(i)' /\ ~Unspent(i)
      /\ \A j \in Invites \ {i} : (Sent(j)' <=> Sent(j)) /\ (Unspent(j)' <=> Unspent(j))
    BY <1>2, <1>3, <1>4 DEF Sent, Unspent, Tables, NoTable
<1>8. \A t \in Tables, e \in Emails :
         ToRetire(t, e)' = IF t = r.table /\ e = r.email THEN ToRetire(t, e) \cup {i} ELSE ToRetire(t, e)
    BY <1>4, <1>7 DEF ToRetire
<1>9. AskersOK'
    BY <1>5, <1>7, <1>8, WaitingIsOK, OthersStayOK
<1>10. AddressesApart'
    BY <1>2, <1>5, WaitingIsOK, AddressesStay DEF Inserted
<1>11. /\ \A a \in accounts : a.from # NoInvite => a.from \in Invites \ {i}
       /\ \A a \in accounts : a.from = NoInvite \/ a.from \in Invites
    BY <1>2 DEF InviteInv, InvitesTypeOK, Accounts, CameIn
<1>12. CameIn' /\ RevokedAdmitsNobodyUnlessRaced' /\ OneAccountPerAddress'
    BY <1>2, <1>4, <1>7, <1>11
       DEF InviteInv, CameIn, RevokedAdmitsNobodyUnlessRaced, OneAccountPerAddress
<1>13. Addressed'
    BY <1>3, <1>4, <1>7 DEF InviteInv, Addressed
<1>14. OneUnspent'
    <2>1. SUFFICES ASSUME NEW j \in Invites \ {i}, Unspent(j), invite[j].email = r.email,
                          invite[j].table = r.table
                   PROVE  i \in overtaken'
        BY <1>2, <1>4, <1>7 DEF InviteInv, OneUnspent
    <2>2. j \in ToRetire(r.table, r.email)
        BY <2>1 DEF ToRetire
    <2>3. r.stale
        BY <1>2, <1>3, <2>2 DEF AskerOK
    <2> QED BY <1>2, <2>3
<1> QED BY <1>6, <1>9, <1>10, <1>12, <1>13, <1>14 DEF InviteInv

\* Revoking what has been used meanwhile overtakes it.
LEMMA RevokeKeeps ==
    ASSUME InviteInv, NEW p \in Askers, MarkRevoked(p)
    PROVE  InviteInv'
<1>1. PICK i : i = asker[p].invite
    OBVIOUS
<1>2. /\ invite' = [invite EXCEPT ![i].revoked = TRUE]
      /\ overtaken' = overtaken \cup {j \in {i} : invite[i].used}
      /\ Overtake(p, Waiting, {i}) /\ accounts' = accounts
    BY <1>1 DEF MarkRevoked
<1>3. i \in Invites /\ Sent(i) /\ invite \in [Invites -> InviteRows]
    BY <1>1, AskerFacts DEF MarkRevoked, AskerOK, InviteInv, InvitesTypeOK
<1>4. /\ invite' \in [Invites -> InviteRows]
      /\ \A j \in Invites : /\ invite'[j].table = invite[j].table
                             /\ invite'[j].email = invite[j].email
                             /\ invite'[j].used = invite[j].used
                             /\ invite'[j].revoked = (invite[j].revoked \/ j = i)
    BY <1>2, <1>3 DEF InviteRows
<1>5. Spending
    BY <1>4 DEF Spending
<1>6. /\ asker' \in [Askers -> AskerRows] /\ asker'[p] = Waiting
      /\ \A q \in Askers \ {p} :
            /\ asker'[q].pc = asker[q].pc /\ asker'[q].table = asker[q].table
            /\ asker'[q].email = asker[q].email /\ asker'[q].invite = asker[q].invite
            /\ asker[q].stale => asker'[q].stale
            /\ asker'[q].stale => asker[q].stale \/ asker[q].invite \in Invites \/ asker[q].pc = "insert"
            /\ asker[q].invite \in {i} => asker'[q].stale
    <2>1. {i} \in SUBSET Invites /\ Waiting \in AskerRows
        BY <1>3, WaitingIsOK
    <2> QED BY <1>2, <2>1, OvertakeFacts
<1>7. InvitesTypeOK'
    BY <1>2, <1>3, <1>4, <1>6 DEF InviteInv, InvitesTypeOK, AskerRows
<1>8. /\ \A j \in Invites : Sent(j)' = Sent(j) /\ (Unspent(j)' => Unspent(j))
      /\ Addressed' /\ OneUnspent'
      /\ \A t \in Tables, e \in Emails : ToRetire(t, e)' \subseteq ToRetire(t, e)
    BY <1>2, <1>5, SpendingKeeps
<1>9. AskersOK'
    <2>1. \A j \in Invites : Unspent(j) => Unspent(j)' \/ j = i
        BY <1>4 DEF Unspent, Sent
    <2>2. \A t \in Tables, e \in Emails : ToRetire(t, e) = {} => ToRetire(t, e)' = {}
        BY <1>8
    <2>3. \A j \in Invites : Sent(j) => Sent(j)'
        BY <1>8
    <2>4. AskerOK(Waiting)'
        BY WaitingIsOK
    <2>5. \A q \in Askers \ {p} :
             /\ asker'[q].pc = asker[q].pc /\ asker'[q].table = asker[q].table
             /\ asker'[q].email = asker[q].email /\ asker'[q].invite = asker[q].invite
             /\ asker[q].stale => asker'[q].stale
             /\ asker'[q].stale => asker[q].stale \/ asker[q].invite \in Invites \/ asker[q].pc = "insert"
             /\ \A j \in Invites : asker[q].invite = j /\ Unspent(j) => Unspent(j)' \/ asker'[q].stale
        BY <1>6, <2>1
    <2> QED BY <1>6, <2>2, <2>3, <2>4, <2>5, OthersStayOK
<1>10. AddressesApart'
    BY <1>2, <1>6, WaitingIsOK, AddressesStay DEF Inserted
<1>11. CameIn' /\ RevokedAdmitsNobodyUnlessRaced' /\ OneAccountPerAddress'
    <2>1. \A a \in accounts : a.from # NoInvite => a.from \in Invites
        BY DEF InviteInv, InvitesTypeOK, Accounts
    <2> QED BY <1>2, <1>4, <1>8, <2>1
            DEF InviteInv, CameIn, RevokedAdmitsNobodyUnlessRaced, OneAccountPerAddress
<1> QED BY <1>7, <1>8, <1>9, <1>10, <1>11 DEF InviteInv

\* Nobody else has the address when an account is committed.
LEMMA CommitAcceptKeeps ==
    ASSUME InviteInv, NEW p \in Askers, CommitAccept(p)
    PROVE  InviteInv'
<1>1. PICK r : r = asker[p]
    OBVIOUS
<1>2. PICK new : new = [email |-> r.email, role |-> Joined(r.table).role,
                        status |-> Joined(r.table).status, from |-> r.invite]
    OBVIOUS
<1>3. /\ r.pc = "commit" /\ accounts' = accounts \cup {new}
      /\ invite' = [i \in Invites |-> [invite[i] EXCEPT !.used = @ \/ i = r.invite]]
      /\ overtaken' = overtaken \cup {i \in {r.invite} : r.stale}
      /\ Overtake(p, Waiting, {r.invite} \ {NoInvite})
    BY <1>1, <1>2 DEF CommitAccept
<1>4. /\ r \in AskerRows /\ AskerOK(r) /\ Accepting(r) /\ Inserted(r)
      /\ invite \in [Invites -> InviteRows]
    BY <1>1, <1>3, AskerFacts DEF InviteInv, InvitesTypeOK, Accepting, Inserted
<1>5. /\ r.email \in Emails /\ r.invite \in Invites \cup {NoInvite}
      /\ r.table \in {"team", "platform"} => r.invite \in Invites
      /\ r.invite # NoInvite => Sent(r.invite)
      /\ r.invite # NoInvite /\ ~r.stale => Unspent(r.invite)
      /\ r.stale => r.invite # NoInvite
    BY <1>4 DEF AskerOK, AskerRows
<1>6. new \in Accounts /\ new.email = r.email /\ new.from = r.invite
    <2>1. CASE r.table = "team"
        BY <1>2, <1>5, <2>1 DEF Joined, Accounts
    <2>2. CASE r.table = "platform"
        BY <1>2, <1>5, <2>2 DEF Joined, Accounts
    <2>3. CASE r.table \notin {"team", "platform"}
        BY <1>2, <1>5, <2>3 DEF Joined, Accounts
    <2> QED BY <2>1, <2>2, <2>3
<1>7. /\ invite' \in [Invites -> InviteRows]
      /\ \A j \in Invites : /\ invite'[j].table = invite[j].table
                             /\ invite'[j].email = invite[j].email
                             /\ invite'[j].used = (invite[j].used \/ j = r.invite)
                             /\ invite'[j].revoked = invite[j].revoked
    BY <1>3, <1>4 DEF InviteRows
<1>8. Spending
    BY <1>7 DEF Spending
<1>9. /\ asker' \in [Askers -> AskerRows] /\ asker'[p] = Waiting
      /\ \A q \in Askers \ {p} :
            /\ asker'[q].pc = asker[q].pc /\ asker'[q].table = asker[q].table
            /\ asker'[q].email = asker[q].email /\ asker'[q].invite = asker[q].invite
            /\ asker[q].stale => asker'[q].stale
            /\ asker'[q].stale => asker[q].stale \/ asker[q].invite \in Invites \/ asker[q].pc = "insert"
            /\ asker[q].invite \in {r.invite} \ {NoInvite} => asker'[q].stale
    <2>1. {r.invite} \ {NoInvite} \in SUBSET Invites /\ Waiting \in AskerRows
        BY <1>5, WaitingIsOK
    <2> QED BY <1>3, <2>1, OvertakeFacts
<1>10. InvitesTypeOK'
    <2>1. overtaken' \subseteq Invites
        BY <1>3, <1>5 DEF InviteInv, InvitesTypeOK
    <2>2. accounts' \subseteq Accounts
        BY <1>3, <1>6 DEF InviteInv, InvitesTypeOK
    <2> QED BY <1>7, <1>9, <2>1, <2>2 DEF InvitesTypeOK, AskerRows
<1>11. /\ \A j \in Invites : Sent(j)' = Sent(j) /\ (Unspent(j)' => Unspent(j))
       /\ Addressed' /\ OneUnspent'
       /\ \A t \in Tables, e \in Emails : ToRetire(t, e)' \subseteq ToRetire(t, e)
    BY <1>3, <1>8, SpendingKeeps
<1>12. AskersOK'
    <2>1. \A j \in Invites : Unspent(j) => Unspent(j)' \/ j \in {r.invite} \ {NoInvite}
        BY <1>7, InvitesAssumption DEF Unspent, Sent
    <2>2. \A t \in Tables, e \in Emails : ToRetire(t, e) = {} => ToRetire(t, e)' = {}
        BY <1>11
    <2>3. \A j \in Invites : Sent(j) => Sent(j)'
        BY <1>11
    <2>4. AskerOK(Waiting)'
        BY WaitingIsOK
    <2>5. \A q \in Askers \ {p} :
             /\ asker'[q].pc = asker[q].pc /\ asker'[q].table = asker[q].table
             /\ asker'[q].email = asker[q].email /\ asker'[q].invite = asker[q].invite
             /\ asker[q].stale => asker'[q].stale
             /\ asker'[q].stale => asker[q].stale \/ asker[q].invite \in Invites \/ asker[q].pc = "insert"
             /\ \A j \in Invites : asker[q].invite = j /\ Unspent(j) => Unspent(j)' \/ asker'[q].stale
        BY <1>9, <2>1
    <2> QED BY <1>9, <2>2, <2>3, <2>4, <2>5, OthersStayOK
<1>13. AddressesApart'
    <2>1. \A a \in accounts' : a \in accounts \/ (Inserted(asker[p]) /\ a.email = asker[p].email)
        BY <1>1, <1>3, <1>4, <1>6
    <2>2. ~Inserted(asker[p])'
        BY <1>9, WaitingIsOK DEF Inserted
    <2> QED BY <1>9, <2>1, <2>2, AddressesStay
<1>14. OneAccountPerAddress'
    <2>1. \A a \in accounts : a.email # r.email
        BY <1>1, <1>4 DEF InviteInv, AddressesApart, Taken
    <2> QED BY <1>3, <1>6, <2>1 DEF InviteInv, OneAccountPerAddress
<1>15. CameIn' /\ RevokedAdmitsNobodyUnlessRaced'
    <2>1. \A a \in accounts : a.from # NoInvite => a.from \in Invites
        BY DEF InviteInv, InvitesTypeOK, Accounts
    <2>2. ASSUME NEW a \in accounts', a.from # NoInvite
          PROVE  /\ Sent(a.from)' /\ invite'[a.from].used
                 /\ invite'[a.from].revoked => a.from \in overtaken'
        <3>1. CASE a \in accounts
            <4>1. a.from \in Invites /\ Sent(a.from) /\ invite[a.from].used
                BY <2>1, <2>2, <3>1 DEF InviteInv, CameIn
            <4>2. invite[a.from].revoked => a.from \in overtaken
                BY <2>2, <3>1 DEF InviteInv, RevokedAdmitsNobodyUnlessRaced
            <4> QED BY <1>3, <1>7, <1>11, <4>1, <4>2
        <3>2. CASE a = new
            <4>1. r.invite \in Invites /\ a.from = r.invite
                BY <1>5, <1>6, <2>2, <3>2
            <4>2. invite[r.invite].revoked => r.stale
                BY <1>5, <2>2, <4>1 DEF Unspent
            <4> QED BY <1>3, <1>5, <1>7, <1>11, <2>2, <4>1, <4>2
        <3> QED BY <1>3, <3>1, <3>2
    <2> QED BY <2>2 DEF CameIn, RevokedAdmitsNobodyUnlessRaced
<1> QED BY <1>10, <1>11, <1>12, <1>13, <1>14, <1>15 DEF InviteInv

\* An invite that expires is as unspent as it was.
LEMMA ExpireInviteKeeps ==
    ASSUME InviteInv, NEW i \in Invites, ExpireInvite(i)
    PROVE  InviteInv'
<1>1. /\ invite' = [invite EXCEPT ![i].expired = TRUE]
      /\ UNCHANGED <<accounts, asker, overtaken>>
    BY DEF ExpireInvite
<1>2. invite \in [Invites -> InviteRows]
    BY DEF InviteInv, InvitesTypeOK
<1>3. /\ invite' \in [Invites -> InviteRows]
      /\ \A j \in Invites : /\ invite'[j].table = invite[j].table
                             /\ invite'[j].email = invite[j].email
                             /\ invite'[j].used = invite[j].used
                             /\ invite'[j].revoked = invite[j].revoked
    BY <1>1, <1>2 DEF InviteRows
<1>4. \A j \in Invites : (Sent(j)' <=> Sent(j)) /\ (Unspent(j)' <=> Unspent(j))
    BY <1>3 DEF Sent, Unspent
<1>5. \A t, e : ToRetire(t, e)' = ToRetire(t, e)
    BY <1>3, <1>4 DEF ToRetire
<1>6. InvitesTypeOK'
    BY <1>1, <1>3 DEF InviteInv, InvitesTypeOK
<1>7. ASSUME NEW q \in Askers PROVE AskerOK(asker[q])'
    <2>1. PICK s : s = asker[q]
        OBVIOUS
    <2>2. AskerOK(s) /\ asker'[q] = s /\ s.invite \in Invites \cup {NoInvite}
        BY <1>1, <2>1, AskerFacts DEF AskerRows
    <2>3. AskerOK(s)'
        BY <1>4, <1>5, <2>2 DEF AskerOK, Accepting
    <2> QED BY <2>2, <2>3 DEF AskerOK, Accepting
<1>8. AddressesApart'
    BY <1>1 DEF InviteInv, AddressesApart, Inserted, Taken
<1>9. Addressed' /\ OneUnspent'
    BY <1>1, <1>3, <1>4 DEF InviteInv, Addressed, OneUnspent
<1>10. CameIn' /\ RevokedAdmitsNobodyUnlessRaced' /\ OneAccountPerAddress'
    <2>1. \A a \in accounts : a.from # NoInvite => a.from \in Invites
        BY DEF InviteInv, InvitesTypeOK, Accounts
    <2> QED BY <1>1, <1>3, <1>4, <2>1
            DEF InviteInv, CameIn, RevokedAdmitsNobodyUnlessRaced, OneAccountPerAddress
<1> QED BY <1>6, <1>7, <1>8, <1>9, <1>10 DEF InviteInv, AskersOK

\* Every step of the invites.
LEMMA InviteStepKeeps == InviteInv /\ [InvitesNext]_inviteVars => InviteInv'
<1> SUFFICES ASSUME InviteInv, [InvitesNext]_inviteVars PROVE InviteInv'
    OBVIOUS
<1>1. ASSUME NEW p \in Askers, InviteStep(p) PROVE InviteInv'
    <2>1. \/ \E t \in Tables : StartInvite(p, t) \/ StartRevoke(p, t) \/ StartAccept(p, t)
          \/ Register(p)
          \/ RetireInvites(p) \/ InsertInvite(p) \/ MarkRevoked(p)
          \/ InsertUser(p) \/ MarkUsed(p) \/ RollbackAccept(p) \/ CommitAccept(p)
        BY <1>1 DEF InviteStep, Tables, CreateTeamInvite, CreateAgencyInvite, CreatePlatformInvite,
                    RevokeTeamInvite, RevokeAgencyInvite, RevokePlatformInvite,
                    AcceptTeamInvite, AcceptAgencyInvite, AcceptPlatformInvite
    <2> QED BY <2>1, AskKeeps, RetireKeeps, InsertKeeps, RevokeKeeps, InsertingKeeps,
               CommitAcceptKeeps
<1>2. CASE \E i \in Invites : ExpireInvite(i)
    BY <1>2, ExpireInviteKeeps
<1>3. CASE UNCHANGED inviteVars
    BY <1>3 DEF inviteVars, InviteInv, InvitesTypeOK, AskersOK, AskerOK, Accepting, Sent, Unspent,
                ToRetire, AddressesApart, Inserted, Taken, CameIn, Addressed, OneUnspent,
                RevokedAdmitsNobodyUnlessRaced, OneAccountPerAddress
<1> QED BY <1>1, <1>2, <1>3 DEF InvitesNext

\* It holds in every state.
LEMMA InviteInvAlways == InvitesSpec => []InviteInv
<1> QED BY InvitesBegin, InviteStepKeeps, PTL DEF InvitesSpec

\* One address is one account, through every race of invites, registrations and revocations.
THEOREM AddressesAreUnique == InvitesSpec => []OneAccountPerAddress
<1>1. InviteInv => OneAccountPerAddress
    BY DEF InviteInv
<1> QED BY <1>1, InviteInvAlways, PTL

-----------------------------------------------------------------------------
(***************************************************************************)
(* How many links are outstanding.  A request about to create one that     *)
(* nobody has overtaken knows that none is outstanding for its person; and *)
(* a reset that has claimed a link is for the person the link is of.       *)
(***************************************************************************)

LinkOK(r) ==
    /\ r.pc \in {"setPassword", "spendOthers", "commit"} => link[r.link].of = r.of
    /\ r.pc = "create" /\ ~r.stale => Outstanding(r.of) = {}

LinksOK == \A p \in Clients : LinkOK(client[p])

\* OneOpenLinkUnlessRaced, of the links that have expired as well.
OneUnused ==
    \A k, l \in Links :
        k # l /\ Unused(k) /\ Unused(l) /\ link[k].of = link[l].of => link[k].of \in twoLinks

LinkInv == LinksOK /\ OneUnused

\* No link is there, and no request is under way.
LEMMA LinkBegin == SessionsInit => LinkInv
<1> SUFFICES ASSUME SessionsInit PROVE LinkInv
    OBVIOUS
<1>1. LinksOK
    BY DEF SessionsInit, LinksOK, LinkOK, Quiet
<1>2. OneUnused
    BY DEF SessionsInit, OneUnused, Unused, Issued, NoRow
<1> QED BY <1>1, <1>2 DEF LinkInv

\* Links that are spent or expire are no more outstanding than they were.
LEMMA LinksSpentKeep ==
    ASSUME SessionInv, LinkInv, twoLinks' = twoLinks,
           \A l \in Links : link'[l].of = link[l].of /\ (link[l].used => link'[l].used),
           \A q \in Clients : client'[q] = client[q] \/ LinkOK(client[q])'
    PROVE  LinkInv'
<1>1. \A l \in Links : Unused(l)' => Unused(l)
    BY DEF Unused, Issued
<1>2. \A u : Outstanding(u)' \subseteq Outstanding(u)
    BY <1>1 DEF Outstanding, LinksOf
<1>3. ASSUME NEW q \in Clients, client'[q] = client[q] PROVE LinkOK(client[q])'
    <2>1. PICK s : s = client[q]
        OBVIOUS
    <2>2. LinkOK(s) /\ client'[q] = s
        BY <1>3, <2>1 DEF LinkInv, LinksOK
    <2>3. s.pc \in {"setPassword", "spendOthers", "commit"} => s.link \in Links
        BY <2>1 DEF SessionInv, RowsFit, RowOK, Linked
    <2>4. LinkOK(s)'
        BY <1>2, <2>2, <2>3 DEF LinkOK
    <2> QED BY <2>2, <2>4 DEF LinkOK
<1>4. LinksOK'
    BY <1>3 DEF LinksOK
<1>5. OneUnused'
    BY <1>1 DEF LinkInv, OneUnused
<1> QED BY <1>4, <1>5 DEF LinkInv

\* The steps that neither create a link nor make up their mind to.
Harmless == SessionPCs \ {"setPassword", "spendOthers", "commit", "create"}

\* A request that only begins, reads, checks, or is done with.
LEMMA HarmlessKeeps ==
    ASSUME SessionInv, LinkInv, NEW p \in Clients, SessionStep(p),
           ~RetireLinks(p), ~CreateLink(p), ~Claim(p), ~TakePerson(p), ~SpendOthers(p),
           ~CommitReset(p)
    PROVE  LinkInv'
<1>0. client \in [Clients -> ClientRows]
    BY DEF SessionInv, SessionsTypeOK, ClientRows
<1>1. ASSUME NEW pc \in Harmless, NEW r, r.pc = pc, client' = [client EXCEPT ![p] = r],
             link' = link, twoLinks' = twoLinks
      PROVE  LinkInv'
    <2>1. \A q \in Clients : client'[q] = client[q] \/ client'[q].pc = pc
        BY <1>0, <1>1
    <2>2. \A q \in Clients : client'[q].pc = pc => LinkOK(client[q])'
        BY DEF LinkOK, Harmless
    <2> QED BY <1>1, <2>1, <2>2, LinksSpentKeep
<1>2. ASSUME Leave(p), link' = link, twoLinks' = twoLinks PROVE LinkInv'
    <2>1. Quiet.pc = "quiet" /\ "quiet" \in Harmless
        BY DEF Quiet, Harmless, SessionPCs
    <2> QED BY <1>1, <1>2, <2>1 DEF Leave
<1>3. CASE Login(p)
    <2>1. PICK u \in People, w \in Passwords :
              /\ Enter(p, [Quiet EXCEPT !.pc = "compare", !.op = "login", !.of = u, !.row = user[u],
                                        !.entered = w])
              /\ RowsUnchanged
        BY <1>3 DEF Login
    <2>2. PICK r : r = [Quiet EXCEPT !.pc = "compare", !.op = "login", !.of = u, !.row = user[u],
                                     !.entered = w]
        OBVIOUS
    <2>3. r.pc = "compare" /\ "compare" \in Harmless
        BY <2>2 DEF Quiet, Harmless, SessionPCs
    <2> QED BY <1>1, <2>1, <2>2, <2>3 DEF Enter, RowsUnchanged
<1>4. CASE RefreshToken(p)
    <2>1. PICK t \in tokens :
              /\ Enter(p, [Quiet EXCEPT !.pc = "verify", !.op = "refresh", !.of = t.of,
                                        !.row = user[t.of], !.token = t])
              /\ RowsUnchanged
        BY <1>4 DEF RefreshToken
    <2>2. PICK r : r = [Quiet EXCEPT !.pc = "verify", !.op = "refresh", !.of = t.of,
                                     !.row = user[t.of], !.token = t]
        OBVIOUS
    <2>3. r.pc = "verify" /\ "verify" \in Harmless
        BY <2>2 DEF Quiet, Harmless, SessionPCs
    <2> QED BY <1>1, <2>1, <2>2, <2>3 DEF Enter, RowsUnchanged
<1>5. CASE ChangePassword(p)
    <2>1. PICK t \in tokens, w \in Passwords, new \in Passwords :
              /\ Enter(p, [Quiet EXCEPT !.pc = "readOwn", !.op = "change", !.of = t.of,
                                        !.entered = w, !.new = new])
              /\ RowsUnchanged
        BY <1>5 DEF ChangePassword
    <2>2. PICK r : r = [Quiet EXCEPT !.pc = "readOwn", !.op = "change", !.of = t.of,
                                     !.entered = w, !.new = new]
        OBVIOUS
    <2>3. r.pc = "readOwn" /\ "readOwn" \in Harmless
        BY <2>2 DEF Quiet, Harmless, SessionPCs
    <2> QED BY <1>1, <2>1, <2>2, <2>3 DEF Enter, RowsUnchanged
<1>6. CASE ReadOwnRow(p)
    <2>1. PICK r : r = [client[p] EXCEPT !.pc = "write", !.row = user[client[p].of]]
        OBVIOUS
    <2>2. r.pc = "write" /\ "write" \in Harmless
        BY <1>0, <2>1 DEF ClientRows, Harmless, SessionPCs
    <2>3. client' = [client EXCEPT ![p] = r] /\ RowsUnchanged
        BY <1>0, <1>6, <2>1 DEF ReadOwnRow, Read
    <2> QED BY <1>1, <2>2, <2>3 DEF RowsUnchanged
<1>7. CASE ForgotPassword(p)
    <2>1. PICK u \in People :
              /\ Enter(p, [Quiet EXCEPT !.pc = "retire", !.op = "forgot", !.of = u])
              /\ RowsUnchanged
        BY <1>7 DEF ForgotPassword
    <2>2. PICK r : r = [Quiet EXCEPT !.pc = "retire", !.op = "forgot", !.of = u]
        OBVIOUS
    <2>3. r.pc = "retire" /\ "retire" \in Harmless
        BY <2>2 DEF Quiet, Harmless, SessionPCs
    <2> QED BY <1>1, <2>1, <2>2, <2>3 DEF Enter, RowsUnchanged
<1>8. CASE ResetPassword(p)
    <2>1. PICK l \in Links, new \in Passwords :
              /\ Enter(p, [Quiet EXCEPT !.pc = "claim", !.op = "reset", !.link = l, !.new = new])
              /\ RowsUnchanged
        BY <1>8 DEF ResetPassword
    <2>2. PICK r : r = [Quiet EXCEPT !.pc = "claim", !.op = "reset", !.link = l, !.new = new]
        OBVIOUS
    <2>3. r.pc = "claim" /\ "claim" \in Harmless
        BY <2>2 DEF Quiet, Harmless, SessionPCs
    <2> QED BY <1>1, <2>1, <2>2, <2>3 DEF Enter, RowsUnchanged
<1>9. CASE ComparePassword(p) \/ VerifyRefresh(p) \/ WritePassword(p) \/ RollbackReset(p)
    BY <1>2, <1>9 DEF ComparePassword, VerifyRefresh, WritePassword, RollbackReset, RowsUnchanged
<1> QED BY <1>3, <1>4, <1>5, <1>6, <1>7, <1>8, <1>9 DEF SessionStep

\* A reset claims a link for the person it is of, and keeps to both.
LEMMA ResettingKeeps ==
    ASSUME SessionInv, LinkInv, NEW p \in Clients, Claim(p) \/ TakePerson(p) \/ SpendOthers(p)
    PROVE  LinkInv'
<1>0. /\ client \in [Clients -> ClientRows] /\ client[p] \in ClientRows
      /\ link' = link /\ twoLinks' = twoLinks /\ LinkOK(client[p])
    BY DEF SessionInv, SessionsTypeOK, ClientRows, Claim, TakePerson, SpendOthers, RowsUnchanged,
           LinkInv, LinksOK
<1>1. \A q \in Clients \ {p} : client'[q] = client[q]
    BY <1>0 DEF Claim, TakePerson, SpendOthers, Step, Leave
<1>2. CASE Claim(p)
    <2>1. PICK l : l = client[p].link
        OBVIOUS
    <2>2. ASSUME Leave(p) PROVE LinkOK(client[p])'
        <3>1. client'[p].pc = "quiet"
            BY <1>0, <2>2 DEF Leave, Quiet
        <3> QED BY <3>1 DEF LinkOK
    <2>3. ASSUME client' = [client EXCEPT ![p].pc = "setPassword", ![p].of = link[l].of]
          PROVE  LinkOK(client[p])'
        <3>1. client'[p].pc = "setPassword" /\ client'[p].link = l /\ client'[p].of = link[l].of
            BY <1>0, <2>1, <2>3 DEF ClientRows
        <3> QED BY <1>0, <3>1 DEF LinkOK
    <2>4. Leave(p) \/ client' = [client EXCEPT ![p].pc = "setPassword", ![p].of = link[l].of]
        BY <1>2, <2>1 DEF Claim
    <2> QED BY <1>0, <1>1, <2>2, <2>3, <2>4, LinksSpentKeep
<1>3. CASE TakePerson(p) \/ SpendOthers(p)
    <2>1. /\ client'[p].pc \in {"spendOthers", "commit"} /\ client'[p].link = client[p].link
          /\ client'[p].of = client[p].of
          /\ client[p].pc \in {"setPassword", "spendOthers"}
        BY <1>0, <1>3 DEF TakePerson, SpendOthers, Step, ClientRows
    <2>2. LinkOK(client[p])'
        BY <1>0, <2>1 DEF LinkOK
    <2> QED BY <1>0, <1>1, <2>2, LinksSpentKeep
<1> QED BY <1>2, <1>3

\* Retiring leaves nothing outstanding; committing a reset spends.
LEMMA SpendingLinksKeeps ==
    ASSUME SessionInv, LinkInv, NEW p \in Clients, RetireLinks(p) \/ CommitReset(p)
    PROVE  LinkInv'
<1>0. /\ client \in [Clients -> ClientRows] /\ client[p] \in ClientRows
      /\ twoLinks' = twoLinks /\ link \in [Links -> LinkRows]
    BY DEF SessionInv, SessionsTypeOK, ClientRows, RetireLinks, CommitReset
<1>1. \A q \in Clients \ {p} : client'[q] = client[q]
    BY <1>0 DEF RetireLinks, CommitReset, Step, Leave
<1>2. CASE RetireLinks(p)
    <2>1. PICK u : u = client[p].of
        OBVIOUS
    <2>2. PICK mine : mine = Outstanding(u)
        OBVIOUS
    <2>3. /\ link' = [l \in Links |-> IF l \in mine THEN [link[l] EXCEPT !.used = TRUE] ELSE link[l]]
          /\ Step(p, "create")
        BY <1>2, <2>1, <2>2 DEF RetireLinks
    <2>4. \A l \in Links : /\ link'[l].of = link[l].of
                            /\ link'[l].used = (link[l].used \/ l \in mine)
        BY <1>0, <2>3 DEF LinkRows
    <2>5. Outstanding(u)' = {}
        BY <2>2, <2>4 DEF Outstanding, LinksOf, Unused, Issued
    <2>6. client'[p].of = u /\ client'[p].pc = "create"
        BY <1>0, <2>1, <2>3 DEF Step, ClientRows
    <2>7. LinkOK(client[p])'
        BY <2>5, <2>6 DEF LinkOK
    <2> QED BY <1>0, <1>1, <2>4, <2>7, LinksSpentKeep
<1>3. CASE CommitReset(p)
    <2>1. \A l \in Links : link'[l].of = link[l].of /\ (link[l].used => link'[l].used)
        BY <1>0, <1>3 DEF CommitReset, LinkRows
    <2>2. client'[p].pc = "quiet"
        BY <1>0, <1>3 DEF CommitReset, Leave, Quiet
    <2>3. LinkOK(client[p])'
        BY <2>2 DEF LinkOK
    <2> QED BY <1>0, <1>1, <2>1, <2>3, LinksSpentKeep
<1> QED BY <1>2, <1>3

\* Creating a link while another is outstanding is what twoLinks counts.
LEMMA CreatingKeeps ==
    ASSUME SessionInv, LinkInv, NEW p \in Clients, CreateLink(p)
    PROVE  LinkInv'
<1>1. PICK c : c = client[p]
    OBVIOUS
<1>2. PICK l \in Links :
        /\ c.pc = "create" /\ ~Issued(l)
        /\ link' = [link EXCEPT ![l] = [of |-> c.of, used |-> FALSE, expired |-> FALSE]]
        /\ twoLinks' = IF c.stale THEN twoLinks \cup {c.of} ELSE twoLinks
        /\ client' = [q \in Clients |->
              IF q = p THEN Quiet
              ELSE IF client[q].pc = "create" /\ client[q].of = c.of
              THEN [client[q] EXCEPT !.stale = TRUE] ELSE client[q]]
    BY <1>1 DEF CreateLink
<1>3. /\ client \in [Clients -> ClientRows] /\ link \in [Links -> LinkRows] /\ LinkOK(c)
    BY <1>1 DEF SessionInv, SessionsTypeOK, ClientRows, LinkInv, LinksOK
<1>4. /\ \A k \in Links \ {l} : link'[k] = link[k]
      /\ link'[l].of = c.of
      /\ \A k \in Links \ {l} : Unused(k)' <=> Unused(k)
    BY <1>2, <1>3 DEF Unused, Issued
<1>5. \A u : u # c.of => Outstanding(u)' \subseteq Outstanding(u)
    BY <1>4 DEF Outstanding, LinksOf
<1>6. ASSUME NEW q \in Clients PROVE LinkOK(client[q])'
    <2>1. PICK s : s = client[q]
        OBVIOUS
    <2>2. CASE q = p
        <3>1. client'[q].pc = "quiet"
            BY <1>2, <2>2 DEF Quiet
        <3> QED BY <3>1 DEF LinkOK
    <2>3. CASE q # p /\ s.pc = "create" /\ s.of = c.of
        <3>1. client'[q] = [client[q] EXCEPT !.stale = TRUE]
            BY <1>2, <2>1, <2>3
        <3>2. client'[q].pc = "create" /\ client'[q].stale
            BY <1>3, <2>1, <2>3, <3>1 DEF ClientRows
        <3> QED BY <3>2 DEF LinkOK
    <2>4. CASE q # p /\ ~(s.pc = "create" /\ s.of = c.of)
        <3>1. client'[q] = s /\ LinkOK(s)
            BY <1>2, <2>1, <2>4 DEF LinkInv, LinksOK
        <3>2. s.pc = "create" /\ ~s.stale => Outstanding(s.of)' = {}
            BY <1>5, <2>4, <3>1 DEF LinkOK
        <3>3. ASSUME s.pc \in {"setPassword", "spendOthers", "commit"}
              PROVE  s.link \in Links \ {l} /\ link[s.link].of = s.of
            <4>1. s.link \in Links
                BY <2>1, <3>3 DEF SessionInv, RowsFit, RowOK, Linked
            <4>2. Unused(s.link)
                BY <2>1, <3>3, <4>1 DEF SessionInv, Locks, HoldsLink
            <4> QED BY <1>2, <3>1, <3>3, <4>1, <4>2 DEF Unused, LinkOK
        <3>4. LinkOK(s)'
            BY <1>4, <3>2, <3>3 DEF LinkOK
        <3> QED BY <3>1, <3>4 DEF LinkOK
    <2> QED BY <2>2, <2>3, <2>4
<1>7. OneUnused'
    <2>1. SUFFICES ASSUME NEW k \in Links \ {l}, Unused(k), link[k].of = c.of
                   PROVE  c.of \in twoLinks'
        BY <1>2, <1>4 DEF LinkInv, OneUnused
    <2>2. k \in Outstanding(c.of)
        BY <2>1 DEF Outstanding, LinksOf
    <2>3. c.stale
        BY <1>2, <1>3, <2>2 DEF LinkOK
    <2> QED BY <1>2, <2>3
<1> QED BY <1>6, <1>7 DEF LinkInv, LinksOK

\* Every step of the sessions.
LEMMA LinkStepKeeps == SessionInv /\ LinkInv /\ [SessionsNext]_sessionVars => LinkInv'
<1> SUFFICES ASSUME SessionInv, LinkInv, [SessionsNext]_sessionVars PROVE LinkInv'
    OBVIOUS
<1>1. ASSUME NEW p \in Clients, SessionStep(p) PROVE LinkInv'
    BY <1>1, HarmlessKeeps, ResettingKeeps, SpendingLinksKeeps, CreatingKeeps
<1>2. ASSUME NEW l \in Links, ExpireLink(l) PROVE LinkInv'
    <2>1. \A k \in Links : link'[k].of = link[k].of /\ link'[k].used = link[k].used
        BY <1>2 DEF ExpireLink, SessionInv, SessionsTypeOK, LinkRows
    <2> QED BY <1>2, <2>1, LinksSpentKeep DEF ExpireLink
<1>3. ASSUME UNCHANGED <<link, client, twoLinks>> PROVE LinkInv'
    BY <1>3, LinksSpentKeep
<1> QED BY <1>1, <1>2, <1>3 DEF SessionsNext, SetStatus, ExpireToken, sessionVars

\* With one unused link a person there is one open link a person, and no circle of resets.
LEMMA LinksSuffice ==
    ASSUME SessionInv, LinkInv
    PROVE  OneOpenLinkUnlessRaced /\ ResetsNeverBlockUnlessRaced
<1>1. ASSUME NEW u \in People \ twoLinks PROVE Cardinality({l \in LinksOf(u) : Open(l)}) <= 1
    <2>1. PICK S : S = {l \in LinksOf(u) : Open(l)}
        OBVIOUS
    <2>2. \A k, l \in S : k = l
        BY <1>1, <2>1 DEF LinksOf, Open, LinkInv, OneUnused
    <2>3. CASE S = {}
        BY <2>1, <2>3, FS_EmptySet
    <2>4. CASE S # {}
        <3>1. PICK l : S = {l}
            BY <2>2, <2>4
        <3>2. Cardinality({l}) = 1
            BY FS_Singleton
        <3> QED BY <2>1, <3>1, <3>2
    <2> QED BY <2>3, <2>4
<1>2. ASSUME NEW p \in Clients, NEW q \in Clients, p # q, WaitsForLink(p, q), WaitsForPerson(q, p)
      PROVE  client[p].of \in twoLinks
    <2>1. PICK l \in LinksOf(client[p].of) : Unused(l) /\ HoldsLink(q, l)
        BY <1>2 DEF WaitsForLink
    <2>2. PICK k : k = client[p].link
        OBVIOUS
    <2>3. client[p].pc = "spendOthers" /\ k \in Links /\ link[k].of = client[p].of
        BY <1>2, <2>2 DEF WaitsForLink, SessionInv, RowsFit, RowOK, Linked, LinkInv, LinksOK, LinkOK
    <2>4. HoldsLink(p, k) /\ l \in Links /\ link[l].of = client[p].of
        BY <2>1, <2>2, <2>3 DEF HoldsLink, LinksOf
    <2>5. Unused(k) /\ k # l
        BY <1>2, <2>1, <2>3, <2>4 DEF SessionInv, Locks
    <2> QED BY <2>1, <2>3, <2>4, <2>5 DEF LinkInv, OneUnused
<1> QED BY <1>1, <1>2 DEF OneOpenLinkUnlessRaced, ResetsNeverBlockUnlessRaced

-----------------------------------------------------------------------------
(***************************************************************************)
(* Both together: no person has two live links and no address two live     *)
(* invites, nobody joins by a revoked invite, and no two resets wait for   *)
(* each other, but where requests overlapped as the ghosts record.         *)
(***************************************************************************)
THEOREM LinksHold == AccessSpec => []LinksHoldUnlessRaced
<1> DEFINE Inv == SessionInv /\ LinkInv /\ InviteInv
<1>1. AccessInit => Inv
    BY SessionsBegin, LinkBegin, InvitesBegin DEF AccessInit
<1>2. Inv /\ [AccessNext]_accessVars => Inv'
    <2> SUFFICES ASSUME Inv, [AccessNext]_accessVars PROVE Inv'
        OBVIOUS
    <2>1. [SessionsNext]_sessionVars /\ [InvitesNext]_inviteVars
        BY DEF AccessNext, accessVars
    <2> QED BY <2>1, SessionStepKeeps, LinkStepKeeps, InviteStepKeeps
<1>3. Inv => LinksHoldUnlessRaced
    <2> SUFFICES ASSUME Inv PROVE LinksHoldUnlessRaced
        OBVIOUS
    <2>1. OneOpenInviteUnlessRaced
        BY DEF InviteInv, OneUnspent, OneOpenInviteUnlessRaced, IsOpenInvite
    <2>2. RevokedAdmitsNobodyUnlessRaced
        BY DEF InviteInv
    <2> QED BY <2>1, <2>2, LinksSuffice DEF LinksHoldUnlessRaced
<1> QED BY <1>1, <1>2, <1>3, PTL DEF AccessSpec

-----------------------------------------------------------------------------
(* Team: its inductive invariant, as conditions on the record of a request. *)

\* HoldsSeats and HoldsAdmins, of the record of a request.
HasSeats(r) == r.op \in {"create", "approve"} /\ r.pc \in {"countSeats", "updateRow", "commit"}
HasAdmin(r, u) ==
    u \in r.rows /\ r.pc \in {"readTarget", "countAdmins", "updateRow", "commit"}

\* The request takes an admin's rights away.
Takes(r) ==
    /\ r.op \in {"update", "delete"}
    /\ colleague[r.target].role = "admin"
    /\ r.role = "member" \/ r.status = "suspended"

\* What a request is doing fits where it stands.
Shape(r) ==
    /\ r.pc = "idle" => r = Idle
    /\ r.op = "none" => r.pc = "idle"
    /\ r.op # "none" => r.target \in Users
    /\ r.op \in {"reject", "delete"} => r.status = "suspended"
    /\ r.op = "approve" => r.role = "keep" /\ r.status = "active"
    /\ r.op = "create" => r.role \in Roles
    /\ r.rows # {} => r.op \in {"update", "delete"}
    /\ r.pc \in {"lockSeats", "countSeats"} => r.op \in {"create", "approve"}
    /\ r.pc \in {"findAdmins", "lockAdmins", "readTarget", "countAdmins"}
          => r.op \in {"update", "delete"}

\* The row a request is about is still what the request read, unless the
\* request has gone stale.
Knows(r) ==
    /\ r.op = "create" => colleague[r.target].state = "none"
    /\ r.op \notin {"none", "create"} => colleague[r.target].state = "there"
    /\ ~r.stale /\ r.op \in {"approve", "reject"} => Pending(r.target)
    /\ ~r.stale /\ r.op \in {"update", "delete"} => Member(r.target)

\* Whoever takes an admin's rights away has that admin's row among those it
\* locks, and another admin is left when it has counted.
Guards(r) ==
    ~r.stale /\ Takes(r) =>
        /\ r.pc # "findAdmins" => r.target \in r.rows
        /\ ~raced /\ r.pc \in {"updateRow", "commit"} => Admins \ {r.target} # {}

\* Whoever has counted the seats still has one for its target.
HasRoom(r) ==
    r.op \in {"create", "approve"} /\ r.pc \in {"updateRow", "commit"}
        => Cardinality((seated \cap Members) \ {r.target}) < MaxSeats

\* A taker past findAdmins.
Locking(r) == ~r.stale /\ Takes(r) /\ r.pc # "findAdmins"

\* What two requests never do at once.  Of two that take an admin's rights away,
\* the later to look for admins found the other's target among them.
Apart(r, s) ==
    /\ r.op = "create" \/ s.op = "create" => r.target # s.target
    /\ ~(HasSeats(r) /\ HasSeats(s))
    /\ \A u \in Users : ~(HasAdmin(r, u) /\ HasAdmin(s, u))
    /\ Locking(r) /\ Locking(s) => r.target \in s.rows \/ s.target \in r.rows

Sound(r) == Shape(r) /\ Knows(r) /\ Guards(r) /\ HasRoom(r)

TeamInv ==
    /\ TypeOK
    /\ SeatsNeverOversold
    /\ TeamHoldsUnlessRaced
    /\ \A u \in seated : colleague[u].state = "there"
    /\ \A p \in Requests : Sound(req[p])
    /\ \A p, q \in Requests : p # q => Apart(req[p], req[q])

-----------------------------------------------------------------------------
(* Idle requests, and requests that only move on.                          *)

\* An idle request holds nothing and knows nothing.
LEMMA IdleFits ==
    /\ Idle \in Request /\ Sound(Idle)
    /\ \A r : (r.op = "create" => r.target \in Users) => Apart(Idle, r)
<1>1. NoUser \notin Users
  BY TeamAssumption
<1>2. QED
  BY <1>1 DEF Idle, Request, PCs, Ops, Sound, Shape, Knows, Guards, HasRoom, Takes, Apart,
              HasSeats, HasAdmin, Locking

\* What two requests never do at once does not depend on their order.
LEMMA ApartSymmetric == ASSUME NEW r, NEW s, Apart(r, s) PROVE Apart(s, r)
BY DEF Apart

\* What is said of a request's record depends on the rows alone.
LEMMA Unmoved ==
    ASSUME Unwritten
    PROVE  /\ \A r : Sound(r) => Sound(r)'
           /\ \A r, s : Apart(r, s) => Apart(r, s)'
<1>1. \A r : Takes(r)' = Takes(r)
  BY DEF Unwritten, Takes
<1>2. Members' = Members /\ Admins' = Admins
  BY DEF Unwritten, Members, Admins, Member
<1>3. \A r : Knows(r) => Knows(r)'
  BY DEF Unwritten, Knows, Pending, Member
<1>4. \A r : Guards(r) => Guards(r)'
  BY <1>1, <1>2 DEF Unwritten, Guards
<1>5. \A r : HasRoom(r) => HasRoom(r)'
  BY <1>2 DEF Unwritten, HasRoom
<1>6. \A r : Shape(r) => Shape(r)'
  BY DEF Shape
<1>7. \A r, s : Apart(r, s) => Apart(r, s)'
  BY <1>1 DEF Apart, Locking, HasSeats, HasAdmin
<1>8. QED
  BY <1>3, <1>4, <1>5, <1>6, <1>7 DEF Sound

\* A request that only moves on, with a record that fits beside the others'.
LEMMA LocalStep ==
    ASSUME TeamInv, NEW p \in Requests, NEW r \in Request,
           req' = [req EXCEPT ![p] = r], Unwritten, Sound(r),
           \A q \in Requests \ {p} : Apart(r, req[q])
    PROVE  TeamInv'
<1>1. /\ req' \in [Requests -> Request] /\ req'[p] = r
      /\ \A q \in Requests \ {p} : req'[q] = req[q]
  BY DEF TeamInv, TypeOK
<1>2. colleague' = colleague /\ seated' = seated /\ raced' = raced
  BY DEF Unwritten
<1>3. TypeOK'
  BY <1>1, <1>2 DEF TeamInv, TypeOK
<1>4. Members' = Members /\ Admins' = Admins
  BY <1>2 DEF Members, Admins, Member
<1>5. SeatsNeverOversold' /\ TeamHoldsUnlessRaced'
  BY <1>2, <1>4 DEF TeamInv, SeatsNeverOversold, TeamHoldsUnlessRaced, AdminRemainsUnlessRaced,
                    DeletedNeverActiveUnlessRaced, DeletedNeverActive
<1>6. ASSUME NEW q \in Requests PROVE Sound(req[q])'
  <2>1. PICK s : s = req'[q]
    OBVIOUS
  <2>2. Sound(s)
    BY <1>1, <2>1 DEF TeamInv
  <2>3. Sound(s)'
    BY <2>2, Unmoved
  <2>4. QED
    BY <2>1, <2>3 DEF Sound, Shape, Knows, Guards, HasRoom, Takes
<1>7. ASSUME NEW q \in Requests, NEW o \in Requests, q # o PROVE Apart(req[q], req[o])'
  <2>1. PICK s, t : s = req'[q] /\ t = req'[o]
    OBVIOUS
  <2>2. Apart(s, t)
    BY <1>1, <1>7, <2>1, ApartSymmetric DEF TeamInv
  <2>3. Apart(s, t)'
    BY <2>2, Unmoved
  <2>4. QED
    BY <2>1, <2>3 DEF Apart, Locking, Takes, HasSeats, HasAdmin
<1>8. (\A u \in seated : colleague[u].state = "there")'
  BY <1>2 DEF TeamInv
<1>9. QED
  BY <1>3, <1>5, <1>6, <1>7, <1>8 DEF TeamInv

\* A request that ends without writing.
LEMMA EndTeamInv ==
    ASSUME TeamInv, NEW p \in Requests, End(p), Unwritten
    PROVE  TeamInv'
<1>1. \A q \in Requests : req[q].op = "create" => req[q].target \in Users
  BY DEF TeamInv, Sound, Shape
<1>2. Idle \in Request /\ Sound(Idle) /\ \A q \in Requests \ {p} : Apart(Idle, req[q])
  BY <1>1, IdleFits
<1>3. QED
  BY <1>2, LocalStep DEF End

-----------------------------------------------------------------------------
(* The requests.                                                           *)

\* What a request's record says in a state the invariant holds in.
LEMMA RequestFacts ==
    ASSUME TeamInv, NEW p \in Requests
    PROVE  /\ req[p] \in Request /\ Sound(req[p])
           /\ Shape(req[p]) /\ Knows(req[p]) /\ Guards(req[p]) /\ HasRoom(req[p])
           /\ \A q \in Requests \ {p} : Apart(req[p], req[q])
BY DEF TeamInv, TypeOK, Sound

\* A request that starts holds nothing yet.
LEMMA StartTeamInv ==
    ASSUME TeamInv, NEW p \in Requests,
           CreateUser(p) \/ ApproveMember(p) \/ RejectMember(p) \/ UpdateUser(p) \/ DeleteUser(p)
    PROVE  TeamInv'
<1>1. CASE CreateUser(p)
  <2>1. PICK u \in Users, role \in Roles :
           /\ Fresh(u)
           /\ Begin(p, [Idle EXCEPT !.pc = "lockSeats", !.op = "create", !.target = u,
                                    !.role = role])
    BY <1>1 DEF CreateUser
  <2>2. PICK r : r = [Idle EXCEPT !.pc = "lockSeats", !.op = "create", !.target = u, !.role = role]
    OBVIOUS
  <2>3. /\ r \in Request /\ r.pc = "lockSeats" /\ r.op = "create" /\ r.target = u /\ r.role = role
        /\ r.rows = {}
    BY <2>2 DEF Idle, Request, PCs, Ops
  <2>4. Sound(r)
    BY <2>1, <2>3 DEF Sound, Shape, Knows, Guards, HasRoom, Takes, Fresh
  <2>5. \A q \in Requests \ {p} : Apart(r, req[q])
    BY <2>1, <2>3 DEF Apart, Fresh, HasSeats, HasAdmin, Locking, Takes
  <2>6. req' = [req EXCEPT ![p] = r] /\ Unwritten
    BY <2>1, <2>2 DEF Begin
  <2>7. QED
    BY <2>3, <2>4, <2>5, <2>6, LocalStep
<1>2. ASSUME NEW u \in Users, Member(u), NEW r \in Request,
             req' = [req EXCEPT ![p] = r], Unwritten, r.target = u, r.rows = {}, Sound(r),
             r.op \notin {"none", "create"}, r.pc \notin {"countSeats", "commit"}, ~Locking(r),
             r.op = "approve" => r.pc = "lockSeats"
      PROVE  TeamInv'
  <2>1. ASSUME NEW q \in Requests \ {p} PROVE Apart(r, req[q])
    <3>1. req[q].op = "create" => req[q].target # u
      BY <1>2, RequestFacts DEF Knows, Member
    <3>2. QED
      BY <1>2, <3>1 DEF Apart, HasSeats, HasAdmin
  <2>2. QED
    BY <1>2, <2>1, LocalStep
<1>3. CASE ApproveMember(p)
  <2>1. PICK u \in Users :
           /\ Pending(u)
           /\ Begin(p, [Idle EXCEPT !.pc = "lockSeats", !.op = "approve", !.target = u,
                                    !.status = "active"])
    BY <1>3 DEF ApproveMember
  <2>2. PICK r : r = [Idle EXCEPT !.pc = "lockSeats", !.op = "approve", !.target = u,
                                  !.status = "active"]
    OBVIOUS
  <2>3. /\ r \in Request /\ r.pc = "lockSeats" /\ r.op = "approve" /\ r.target = u
        /\ r.role = "keep" /\ r.status = "active" /\ r.rows = {}
    BY <2>2 DEF Idle, Request, PCs, Ops
  <2>4. Sound(r) /\ ~Locking(r)
    BY <2>1, <2>3 DEF Sound, Shape, Knows, Guards, HasRoom, Takes, Locking, Pending, Member
  <2>5. QED
    BY <1>2, <2>1, <2>2, <2>3, <2>4 DEF Begin, Pending
<1>4. CASE RejectMember(p)
  <2>1. PICK u \in Users :
           /\ Pending(u)
           /\ Begin(p, [Idle EXCEPT !.pc = "updateRow", !.op = "reject", !.target = u,
                                    !.status = "suspended"])
    BY <1>4 DEF RejectMember
  <2>2. PICK r : r = [Idle EXCEPT !.pc = "updateRow", !.op = "reject", !.target = u,
                                  !.status = "suspended"]
    OBVIOUS
  <2>3. /\ r \in Request /\ r.pc = "updateRow" /\ r.op = "reject" /\ r.target = u
        /\ r.status = "suspended" /\ r.rows = {}
    BY <2>2 DEF Idle, Request, PCs, Ops
  <2>4. Sound(r) /\ ~Locking(r)
    BY <2>1, <2>3 DEF Sound, Shape, Knows, Guards, HasRoom, Takes, Locking, Pending, Member
  <2>5. QED
    BY <1>2, <2>1, <2>2, <2>3, <2>4 DEF Begin, Pending
<1>5. CASE UpdateUser(p)
  <2>1. PICK u \in Users, edit \in UserEdits :
           /\ Member(u)
           /\ Begin(p, [Idle EXCEPT !.op = "update", !.target = u,
                                    !.role = edit.role, !.status = edit.status,
                                    !.pc = IF LosingAdmin(u, edit.role, edit.status)
                                           THEN "findAdmins" ELSE "updateRow"])
    BY <1>5 DEF UpdateUser
  <2>2. PICK r : r = [Idle EXCEPT !.op = "update", !.target = u,
                                  !.role = edit.role, !.status = edit.status,
                                  !.pc = IF LosingAdmin(u, edit.role, edit.status)
                                         THEN "findAdmins" ELSE "updateRow"]
    OBVIOUS
  <2>3. edit.role \in Roles \cup {"keep"} /\ edit.status \in {"keep", "active", "suspended"}
    BY TeamAssumption
  <2>4. /\ r \in Request /\ r.op = "update" /\ r.target = u /\ r.role = edit.role
        /\ r.status = edit.status /\ r.rows = {}
        /\ r.pc = IF LosingAdmin(u, edit.role, edit.status) THEN "findAdmins" ELSE "updateRow"
    BY <2>2, <2>3 DEF Idle, Request, PCs, Ops
  <2>5. r.pc \in {"findAdmins", "updateRow"} /\ (r.pc = "updateRow" => ~Takes(r))
    BY <2>4 DEF Takes, LosingAdmin
  <2>6. Sound(r) /\ ~Locking(r)
    BY <2>1, <2>4, <2>5 DEF Sound, Shape, Knows, Guards, HasRoom, Locking, Member
  <2>7. QED
    BY <1>2, <2>1, <2>2, <2>4, <2>5, <2>6 DEF Begin
<1>6. CASE DeleteUser(p)
  <2>1. PICK u \in Users :
           /\ Member(u)
           /\ Begin(p, [Idle EXCEPT !.pc = "findAdmins", !.op = "delete", !.target = u,
                                    !.status = "suspended"])
    BY <1>6 DEF DeleteUser
  <2>2. PICK r : r = [Idle EXCEPT !.pc = "findAdmins", !.op = "delete", !.target = u,
                                  !.status = "suspended"]
    OBVIOUS
  <2>3. /\ r \in Request /\ r.pc = "findAdmins" /\ r.op = "delete" /\ r.target = u
        /\ r.status = "suspended" /\ r.rows = {}
    BY <2>2 DEF Idle, Request, PCs, Ops
  <2>4. Sound(r) /\ ~Locking(r)
    BY <2>1, <2>3 DEF Sound, Shape, Knows, Guards, HasRoom, Locking, Member
  <2>5. QED
    BY <1>2, <2>1, <2>2, <2>3, <2>4 DEF Begin
<1>7. QED
  BY <1>1, <1>3, <1>4, <1>5, <1>6

\* The members other than a request's target leave it a seat, or it ends.
LEMMA SeatStepsTeamInv ==
    ASSUME TeamInv, NEW p \in Requests, LockSeats(p) \/ CountSeats(p)
    PROVE  TeamInv'
<1>1. /\ req[p] \in Request /\ Shape(req[p]) /\ Knows(req[p]) /\ Unwritten
      /\ req[p].op \in {"create", "approve"}
      /\ \A q \in Requests \ {p} : Apart(req[p], req[q])
  BY RequestFacts DEF Shape, LockSeats, CountSeats
<1>2. CASE LockSeats(p)
  <2>1. PICK r : r = [req[p] EXCEPT !.pc = "countSeats"]
    OBVIOUS
  <2>2. /\ r \in Request /\ r.pc = "countSeats" /\ r.op = req[p].op /\ r.target = req[p].target
        /\ r.role = req[p].role /\ r.status = req[p].status /\ r.rows = req[p].rows
        /\ r.stale = req[p].stale
    BY <1>1, <2>1 DEF Request, PCs
  <2>3. Sound(r)
    BY <1>1, <2>2 DEF Sound, Shape, Knows, Guards, HasRoom, Takes
  <2>4. ASSUME NEW q \in Requests \ {p} PROVE Apart(r, req[q])
    <3>1. ~HasSeats(req[q])
      BY <1>2 DEF LockSeats, HoldsSeats, HasSeats
    <3>2. QED
      BY <1>1, <2>2, <3>1 DEF Apart, HasAdmin, Locking, Takes
  <2>5. QED
    BY <1>1, <1>2, <2>1, <2>2, <2>3, <2>4, LocalStep DEF LockSeats, Goto
<1>3. CASE CountSeats(p) /\ SeatsUsed(p) >= MaxSeats
  BY <1>1, <1>3, EndTeamInv DEF CountSeats
<1>4. CASE CountSeats(p) /\ ~(SeatsUsed(p) >= MaxSeats)
  <2>1. PICK r : r = [req[p] EXCEPT !.pc = "updateRow"]
    OBVIOUS
  <2>2. /\ r \in Request /\ r.pc = "updateRow" /\ r.op = req[p].op /\ r.target = req[p].target
        /\ r.role = req[p].role /\ r.status = req[p].status /\ r.rows = req[p].rows
        /\ r.stale = req[p].stale
    BY <1>1, <2>1 DEF Request, PCs
  <2>3. HasRoom(r)
    <3> DEFINE S == (seated \cap Members) \ {r.target}
               M == Members \ {r.target}
    <3>1. IsFiniteSet(M) /\ S \subseteq M
      BY TeamAssumption, FS_Subset DEF Members
    <3>2. Cardinality(S) \in Nat /\ Cardinality(M) \in Nat /\ Cardinality(S) <= Cardinality(M)
      BY <3>1, FS_Subset, FS_CardinalityType
    <3>3. Cardinality(M) < MaxSeats
      BY <1>4, <2>2, <3>2, TeamAssumption DEF SeatsUsed
    <3>4. Cardinality(S) < MaxSeats
      BY <3>2, <3>3, TeamAssumption
    <3>5. QED
      BY <3>4 DEF HasRoom
  <2>4. Sound(r)
    BY <1>1, <2>2, <2>3 DEF Sound, Shape, Knows, Guards, Takes
  <2>5. ASSUME NEW q \in Requests \ {p} PROVE Apart(r, req[q])
    <3>1. HasSeats(req[p])
      BY <1>1, <1>4 DEF CountSeats, HasSeats
    <3>2. req[p].pc = "countSeats"
      BY <1>4 DEF CountSeats
    <3>3. \A u \in Users : ~HasAdmin(r, u)
      BY <1>1, <2>2 DEF Shape, HasAdmin
    <3>4. QED
      BY <1>1, <2>2, <3>1, <3>2, <3>3 DEF Apart, Locking, Takes
  <2>6. req' = [req EXCEPT ![p] = r]
    BY <1>4, <2>1 DEF CountSeats, Goto
  <2>7. QED
    BY <1>1, <2>2, <2>4, <2>5, <2>6, LocalStep
<1>5. QED
  BY <1>2, <1>3, <1>4

\* Who is found is everybody whose rights another request may be taking away, and
\* no two requests lock a row.
LEMMA AdminLocksTeamInv ==
    ASSUME TeamInv, NEW p \in Requests, FindAdmins(p) \/ LockAdmins(p)
    PROVE  TeamInv'
<1>1. /\ req[p] \in Request /\ Shape(req[p]) /\ Knows(req[p]) /\ Guards(req[p]) /\ Unwritten
      /\ req[p].op \in {"update", "delete"} /\ req[p].pc \in {"findAdmins", "lockAdmins"}
      /\ \A q \in Requests \ {p} : Apart(req[p], req[q])
  BY RequestFacts DEF Shape, FindAdmins, LockAdmins
<1>2. AdminRows \subseteq Users
  BY DEF AdminRows
<1>3. ASSUME NEW s, Knows(s), Shape(s), Takes(s) PROVE s.target \in AdminRows
  BY <1>3 DEF Knows, Takes, AdminRows, Shape
<1>4. CASE FindAdmins(p)
  <2>1. PICK r : r = [req[p] EXCEPT !.pc = "lockAdmins", !.rows = AdminRows]
    OBVIOUS
  <2>2. /\ r \in Request /\ r.pc = "lockAdmins" /\ r.op = req[p].op /\ r.target = req[p].target
        /\ r.role = req[p].role /\ r.status = req[p].status /\ r.rows = AdminRows
        /\ r.stale = req[p].stale
    BY <1>1, <1>2, <2>1 DEF Request, PCs
  <2>3. Shape(r) /\ Knows(r) /\ HasRoom(r)
    BY <1>1, <2>2 DEF Shape, Knows, HasRoom
  <2>4. Guards(r)
    BY <1>3, <2>2, <2>3 DEF Guards
  <2>5. ASSUME NEW q \in Requests \ {p} PROVE Apart(r, req[q])
    <3>1. Locking(req[q]) => req[q].target \in AdminRows
      BY <1>3, RequestFacts DEF Locking
    <3>2. QED
      BY <1>1, <2>2, <3>1 DEF Apart, HasSeats, HasAdmin
  <2>6. req' = [req EXCEPT ![p] = r]
    BY <1>4, <2>1 DEF FindAdmins
  <2>7. QED
    BY <1>1, <2>2, <2>3, <2>4, <2>5, <2>6, LocalStep DEF Sound
<1>5. CASE LockAdmins(p)
  <2>1. PICK r : r = [req[p] EXCEPT !.pc = "readTarget", !.rows = @ \cap AdminRows]
    OBVIOUS
  <2>2. /\ r \in Request /\ r.pc = "readTarget" /\ r.op = req[p].op /\ r.target = req[p].target
        /\ r.role = req[p].role /\ r.status = req[p].status
        /\ r.rows = req[p].rows \cap AdminRows /\ r.stale = req[p].stale
    BY <1>1, <2>1 DEF Request, PCs
  <2>3. Shape(r) /\ Knows(r) /\ HasRoom(r)
    BY <1>1, <2>2 DEF Shape, Knows, HasRoom
  <2>4. req[p].pc = "lockAdmins" /\ Takes(r) = Takes(req[p])
    BY <1>5, <2>2 DEF LockAdmins, Takes
  <2>5. Guards(r)
    BY <1>1, <1>3, <2>2, <2>3, <2>4 DEF Guards
  <2>6. ASSUME NEW q \in Requests \ {p} PROVE Apart(r, req[q])
    <3>1. Locking(req[q]) => req[q].target \in AdminRows
      BY <1>3, RequestFacts DEF Locking
    <3>2. Locking(r) => r.target \in AdminRows /\ Locking(req[p])
      BY <1>3, <2>2, <2>3, <2>4 DEF Locking
    <3>3. \A u \in Users : ~(HasAdmin(r, u) /\ HasAdmin(req[q], u))
      <4>1. \A u \in req[p].rows : ~HoldsAdmins(q, u)
        BY <1>5 DEF LockAdmins, Free, HoldsUser
      <4>2. QED
        BY <2>2, <4>1 DEF HasAdmin, HoldsAdmins
    <3>4. Apart(req[p], req[q])
      BY <1>1
    <3>5. Locking(r) /\ Locking(req[q]) => r.target \in req[q].rows \/ req[q].target \in r.rows
      BY <2>2, <3>1, <3>2, <3>4 DEF Apart
    <3>6. QED
      BY <1>1, <2>2, <3>3, <3>4, <3>5 DEF Apart, HasSeats
  <2>7. req' = [req EXCEPT ![p] = r]
    BY <1>5, <2>1 DEF LockAdmins
  <2>8. QED
    BY <1>1, <2>2, <2>3, <2>5, <2>6, <2>7, LocalStep DEF Sound
<1>6. QED
  BY <1>4, <1>5

\* Who takes an admin's rights away goes on only when another admin is left.
LEMMA AdminCountTeamInv ==
    ASSUME TeamInv, NEW p \in Requests, ReadTarget(p) \/ CountAdmins(p) \/ UpdateRow(p)
    PROVE  TeamInv'
<1>1. /\ req[p] \in Request /\ Shape(req[p]) /\ Knows(req[p]) /\ Guards(req[p])
      /\ HasRoom(req[p]) /\ Unwritten
      /\ req[p].pc \in {"readTarget", "countAdmins", "updateRow"}
      /\ \A q \in Requests \ {p} : Apart(req[p], req[q])
  BY RequestFacts DEF ReadTarget, CountAdmins, UpdateRow
<1>2. ASSUME NEW pc \in {"countAdmins", "updateRow", "commit"}, Goto(p, pc),
             \/ req[p].op \in {"update", "delete"} /\ req[p].pc # "updateRow"
             \/ req[p].pc = "updateRow" /\ pc = "commit",
             pc # "countAdmins" /\ ~req[p].stale /\ ~raced /\ Takes(req[p])
                => Admins \ {req[p].target} # {}
      PROVE  TeamInv'
  <2>1. PICK r : r = [req[p] EXCEPT !.pc = pc]
    OBVIOUS
  <2>2. /\ r \in Request /\ r.pc = pc /\ r.op = req[p].op /\ r.target = req[p].target
        /\ r.role = req[p].role /\ r.status = req[p].status /\ r.rows = req[p].rows
        /\ r.stale = req[p].stale
    BY <1>1, <2>1 DEF Request, PCs
  <2>3. Takes(r) = Takes(req[p])
    BY <2>2 DEF Takes
  <2>4. Shape(r)
    BY <1>1, <1>2, <2>2 DEF Shape
  <2>5. Knows(r)
    BY <1>1, <2>2 DEF Knows
  <2>6. HasRoom(r)
    BY <1>1, <1>2, <2>2 DEF HasRoom
  <2>7. Guards(r)
    BY <1>1, <1>2, <2>2, <2>3 DEF Guards
  <2>8. ASSUME NEW q \in Requests \ {p} PROVE Apart(r, req[q])
    <3>1. Apart(req[p], req[q])
      BY <1>1
    <3>2. HasSeats(r) = HasSeats(req[p])
      BY <1>2, <2>2 DEF HasSeats
    <3>3. \A u \in Users : HasAdmin(r, u) = HasAdmin(req[p], u)
      BY <1>1, <1>2, <2>2 DEF HasAdmin
    <3>4. Locking(r) = Locking(req[p])
      BY <1>1, <1>2, <2>2, <2>3 DEF Locking
    <3>5. QED
      BY <2>2, <3>1, <3>2, <3>3, <3>4 DEF Apart
  <2>9. QED
    BY <1>1, <1>2, <2>1, <2>2, <2>4, <2>5, <2>6, <2>7, <2>8, LocalStep DEF Sound, Goto
<1>3. CASE ReadTarget(p)
  <2>1. req[p].pc = "readTarget" /\ req[p].op \in {"update", "delete"}
    BY <1>1, <1>3 DEF ReadTarget, Shape
  <2>2. CASE Member(req[p].target) /\ colleague[req[p].target].role = "admin"
    BY <1>2, <1>3, <2>1, <2>2 DEF ReadTarget
  <2>3. CASE ~(Member(req[p].target) /\ colleague[req[p].target].role = "admin")
    <3>1. req[p].stale \/ ~Takes(req[p])
      BY <1>1, <2>1, <2>3 DEF Knows, Takes
    <3>2. QED
      BY <1>2, <1>3, <2>1, <2>3, <3>1 DEF ReadTarget
  <2>4. QED
    BY <2>2, <2>3
<1>4. CASE CountAdmins(p)
  <2>1. req[p].pc = "countAdmins" /\ req[p].op \in {"update", "delete"}
    BY <1>1, <1>4 DEF CountAdmins, Shape
  <2>2. CASE Cardinality(Admins) <= 1
    BY <1>1, <1>4, <2>2, EndTeamInv DEF CountAdmins
  <2>3. CASE ~(Cardinality(Admins) <= 1)
    <3>1. Admins \ {req[p].target} # {}
      <4>1. SUFFICES ASSUME Admins \subseteq {req[p].target} PROVE FALSE
        OBVIOUS
      <4>2. IsFiniteSet({req[p].target}) /\ Cardinality({req[p].target}) = 1
        BY FS_Singleton
      <4>3. Cardinality(Admins) <= 1
        BY <4>1, <4>2, FS_Subset
      <4>4. QED
        BY <2>3, <4>3
    <3>2. QED
      BY <1>2, <1>4, <2>1, <2>3, <3>1 DEF CountAdmins
  <2>4. QED
    BY <2>2, <2>3
<1>5. CASE UpdateRow(p)
  <2>1. req[p].pc = "updateRow"
    BY <1>5 DEF UpdateRow
  <2>2. ~req[p].stale /\ ~raced /\ Takes(req[p]) => Admins \ {req[p].target} # {}
    BY <1>1, <2>1 DEF Guards
  <2>3. QED
    BY <1>2, <1>5, <2>1, <2>2 DEF UpdateRow
<1>6. QED
  BY <1>3, <1>4, <1>5

\* Who joins from an invite is pending, takes no seat, and nobody asked about them.
LEMMA AcceptTeamInv ==
    ASSUME TeamInv, NEW u \in Users, AcceptInvite(u)
    PROVE  TeamInv'
<1>1. /\ colleague \in [Users -> UserRow] /\ colleague[u].state = "none"
      /\ \A p \in Requests : req[p].target # u
      /\ req' = req /\ seated' = seated /\ raced' = raced
  BY DEF TeamInv, TypeOK, AcceptInvite, Fresh
<1>2. /\ colleague' \in [Users -> UserRow]
      /\ \A v \in Users \ {u} : colleague'[v] = colleague[v]
      /\ colleague'[u] = [state |-> "there", role |-> "member", status |-> "pending", deleted |-> FALSE]
  BY <1>1 DEF AcceptInvite, UserRow, Roles
<1>3. u \notin seated
  BY <1>1 DEF TeamInv
<1>4. TypeOK'
  BY <1>1, <1>2 DEF TeamInv, TypeOK
<1>5. /\ seated' \cap Members' = seated \cap Members
      /\ Admins' = Admins
  <2>1. \A v \in Users \ {u} : Member(v)' = Member(v)
    BY <1>2 DEF Member
  <2>2. seated \subseteq Users
    BY DEF TeamInv, TypeOK
  <2>3. seated' \cap Members' = seated \cap Members
    BY <1>1, <1>3, <2>1, <2>2 DEF Members
  <2>4. u \notin Admins /\ ~(u \in Admins)'
    BY <1>1, <1>2 DEF Admins, Members, Member
  <2>5. Admins' = Admins
    BY <1>2, <2>1, <2>4 DEF Admins, Members
  <2>6. QED
    BY <2>3, <2>5
<1>6. SeatsNeverOversold' /\ TeamHoldsUnlessRaced'
  <2>1. SeatsNeverOversold'
    BY <1>5 DEF TeamInv, SeatsNeverOversold
  <2>2. AdminRemainsUnlessRaced'
    BY <1>1, <1>5 DEF TeamInv, TeamHoldsUnlessRaced, AdminRemainsUnlessRaced
  <2>3. DeletedNeverActiveUnlessRaced'
    BY <1>1, <1>2 DEF TeamInv, TeamHoldsUnlessRaced, DeletedNeverActiveUnlessRaced, DeletedNeverActive
  <2>4. QED
    BY <2>1, <2>2, <2>3 DEF TeamHoldsUnlessRaced
<1>7. (\A v \in seated : colleague[v].state = "there")'
  BY <1>1, <1>2, <1>3 DEF TeamInv, TypeOK
<1>8. ASSUME NEW s, s.target # u, s.op # "none" => s.target \in Users, Sound(s)
      PROVE  Sound(s)' /\ Takes(s)' = Takes(s)
  <2>1. s.op # "none" => colleague'[s.target] = colleague[s.target]
    BY <1>2, <1>8
  <2>2. Takes(s)' = Takes(s)
    BY <2>1 DEF Takes
  <2>3. Knows(s)'
    BY <1>8, <2>1 DEF Sound, Knows, Pending, Member
  <2>4. Guards(s)' /\ HasRoom(s)' /\ Shape(s)'
    BY <1>1, <1>5, <1>8, <2>2 DEF Sound, Guards, HasRoom, Shape
  <2>5. QED
    BY <2>2, <2>3, <2>4 DEF Sound
<1>9. ASSUME NEW q \in Requests PROVE Sound(req[q])' /\ Takes(req[q])' = Takes(req[q])
  <2>1. PICK s : s = req[q]
    OBVIOUS
  <2>2. Sound(s)' /\ Takes(s)' = Takes(s)
    BY <1>1, <1>8, <2>1, RequestFacts DEF Shape
  <2>3. QED
    BY <1>1, <2>1, <2>2 DEF Sound, Shape, Knows, Guards, HasRoom, Takes
<1>10. ASSUME NEW q \in Requests, NEW o \in Requests, q # o PROVE Apart(req[q], req[o])'
  <2>1. Apart(req[q], req[o])
    BY <1>10 DEF TeamInv
  <2>2. Takes(req[q])' = Takes(req[q]) /\ Takes(req[o])' = Takes(req[o])
    BY <1>9
  <2>3. QED
    BY <1>1, <2>1, <2>2 DEF Apart, Locking, HasSeats, HasAdmin
<1>11. QED
  BY <1>4, <1>6, <1>7, <1>9, <1>10 DEF TeamInv

-----------------------------------------------------------------------------
(* Commits.                                                                *)

\* What a request writes.
LEMMA CommitRow ==
    ASSUME TeamInv, NEW p \in Requests, req[p].pc = "commit"
    PROVE  LET t == req[p].target  op == req[p].op  row == colleague[t]  new == Written(p) IN
           /\ t \in Users /\ op \in {"create", "approve", "reject", "update", "delete"}
           /\ row \in UserRow /\ new \in UserRow /\ new.state = "there"
           /\ op = "create" => row.state = "none" /\ ~new.deleted
           /\ op # "create" => row.state = "there"
           /\ op \in {"reject", "delete"} => new.deleted /\ new.status = "suspended"
           /\ op \in {"approve", "update"} =>
                 /\ new.deleted = row.deleted
                 /\ new.role = Named(row.role, req[p].role)
                 /\ new.status = Named(row.status, req[p].status)
<1> DEFINE t == req[p].target
           op == req[p].op
           row == colleague[t]
           new == Written(p)
<1>1. /\ req[p] \in Request /\ Shape(req[p]) /\ Knows(req[p])
      /\ colleague \in [Users -> UserRow]
  BY RequestFacts DEF TeamInv, TypeOK
<1>2. op \in {"create", "approve", "reject", "update", "delete"} /\ t \in Users
  BY <1>1 DEF Request, Ops, Shape
<1>3. /\ row \in UserRow /\ (op = "create" => row.state = "none")
      /\ op # "create" => row.state = "there"
  BY <1>1, <1>2 DEF Knows
<1>4. /\ req[p].role \in {"admin", "member", "keep"}
      /\ req[p].status \in {"keep", "active", "suspended"}
  BY <1>1 DEF Request, Roles
<1>5. CASE op = "create"
  <2>1. new = [state |-> "there", role |-> req[p].role, status |-> "active", deleted |-> FALSE]
    BY <1>5 DEF Written
  <2>2. req[p].role \in Roles
    BY <1>1, <1>5 DEF Shape
  <2>3. QED
    BY <1>2, <1>3, <1>5, <2>1, <2>2 DEF UserRow
<1>6. CASE op \in {"approve", "update"}
  <2>1. new = [row EXCEPT !.role = Named(@, req[p].role), !.status = Named(@, req[p].status)]
    BY <1>6 DEF Written
  <2>2. /\ Named(row.role, req[p].role) \in Roles
        /\ Named(row.status, req[p].status) \in {"pending", "active", "suspended"}
    BY <1>3, <1>4 DEF Named, UserRow, Roles
  <2>3. /\ new \in UserRow /\ new.state = row.state /\ new.deleted = row.deleted
        /\ new.role = Named(row.role, req[p].role)
        /\ new.status = Named(row.status, req[p].status)
    BY <1>3, <2>1, <2>2 DEF UserRow
  <2>4. QED
    BY <1>2, <1>3, <1>6, <2>3
<1>7. CASE op \in {"reject", "delete"}
  <2>1. new = [row EXCEPT !.status = req[p].status, !.deleted = TRUE]
    BY <1>7 DEF Written
  <2>2. req[p].status = "suspended"
    BY <1>1, <1>7 DEF Shape
  <2>3. new \in UserRow /\ new.state = row.state /\ new.deleted /\ new.status = "suspended"
    BY <1>3, <2>1, <2>2 DEF UserRow
  <2>4. QED
    BY <1>2, <1>3, <1>7, <2>3
<1>8. QED
  BY <1>2, <1>5, <1>6, <1>7

\* A commit changes one row, and makes the requests on it stale.
LEMMA CommitFrame ==
    ASSUME TeamInv, NEW p \in Requests, Commit(p), NEW t, t = req[p].target
    PROVE  /\ t \in Users /\ colleague' \in [Users -> UserRow]
           /\ colleague'[t] = Written(p) /\ colleague'[t].state = "there"
           /\ \A u \in Users \ {t} : colleague'[u] = colleague[u]
           /\ \A u \in Users \ {t} : (u \in Members)' = (u \in Members)
           /\ req'[p] = Idle
           /\ \A q \in Requests \ {p} :
                 req'[q] = IF req[q].target = t THEN [req[q] EXCEPT !.stale = TRUE] ELSE req[q]
<1>1. req[p].pc = "commit" /\ colleague \in [Users -> UserRow]
  BY DEF Commit, TeamInv, TypeOK
<1>2. t \in Users /\ Written(p) \in UserRow /\ Written(p).state = "there"
  BY <1>1, CommitRow
<1>3. colleague' = [colleague EXCEPT ![t] = Written(p)] /\ EndAndOvertake(p)
  BY DEF Commit
<1>4. /\ colleague' \in [Users -> UserRow] /\ colleague'[t] = Written(p)
      /\ \A u \in Users \ {t} : colleague'[u] = colleague[u]
  BY <1>1, <1>2, <1>3
<1>5. \A u \in Users \ {t} : (u \in Members)' = (u \in Members)
  BY <1>4 DEF Members, Member
<1>6. QED
  BY <1>2, <1>3, <1>4, <1>5 DEF EndAndOvertake

\* Nobody becomes a member but by createUser, and who was let in had room.
LEMMA CommitSeats ==
    ASSUME TeamInv, NEW p \in Requests, Commit(p), NEW t, t = req[p].target
    PROVE  /\ seated' \subseteq seated \cup {t} /\ seated' \subseteq Users
           /\ req[p].op \notin {"create", "approve"} => (seated \cap Members)' \subseteq seated \cap Members
           /\ SeatsNeverOversold'
<1>1. /\ t \in Users /\ \A u \in Users \ {t} : (u \in Members)' = (u \in Members)
      /\ colleague'[t] = Written(p)
  BY CommitFrame
<1>2. req[p].pc = "commit"
  BY DEF Commit
<1>3. seated' = IF req[p].op \in {"create", "approve"} THEN seated \cup {t} ELSE seated
  BY DEF Commit
<1>4. seated \subseteq Users
  BY DEF TeamInv, TypeOK
<1>5. ASSUME req[p].op \notin {"create", "approve"}
      PROVE  (seated \cap Members)' \subseteq seated \cap Members
  <2>1. Written(p).deleted \/ (Written(p).deleted = colleague[t].deleted /\ colleague[t].state = "there")
    BY <1>2, <1>5, CommitRow
  <2>2. (t \in Members)' => t \in Members
    BY <1>1, <2>1 DEF Members, Member
  <2>3. QED
    BY <1>1, <1>3, <1>4, <1>5, <2>2
<1>6. IsFiniteSet(seated \cap Members)
  BY <1>4, TeamAssumption, FS_Subset
<1>7. CASE req[p].op \notin {"create", "approve"}
  <2>1. Cardinality((seated \cap Members)') <= Cardinality(seated \cap Members)
    BY <1>5, <1>6, <1>7, FS_Subset
  <2>2. IsFiniteSet((seated \cap Members)')
    BY <1>5, <1>6, <1>7, FS_Subset
  <2>3. Cardinality(seated \cap Members) \in Nat /\ Cardinality((seated \cap Members)') \in Nat
    BY <1>6, <2>2, FS_CardinalityType
  <2>4. SeatsNeverOversold'
    BY <2>1, <2>3, TeamAssumption DEF TeamInv, SeatsNeverOversold
  <2>5. QED
    BY <1>3, <1>4, <1>5, <1>7, <2>4
<1>8. CASE req[p].op \in {"create", "approve"}
  <2>1. PICK S : S = (seated \cap Members) \ {t}
    OBVIOUS
  <2>2. Cardinality(S) < MaxSeats
    BY <1>2, <1>8, <2>1, RequestFacts DEF HasRoom
  <2>3. IsFiniteSet(S) /\ t \notin S
    BY <1>6, <2>1, FS_Subset
  <2>4. Cardinality(S \cup {t}) = Cardinality(S) + 1 /\ IsFiniteSet(S \cup {t})
    BY <2>3, FS_AddElement
  <2>5. (seated \cap Members)' \subseteq S \cup {t}
    BY <1>1, <1>3, <1>4, <1>8, <2>1
  <2>6. /\ Cardinality((seated \cap Members)') <= Cardinality(S \cup {t})
        /\ IsFiniteSet((seated \cap Members)')
    BY <2>4, <2>5, FS_Subset
  <2>7. Cardinality((seated \cap Members)') \in Nat /\ Cardinality(S) \in Nat
    BY <2>3, <2>6, FS_CardinalityType
  <2>8. Cardinality((seated \cap Members)') <= MaxSeats
    BY <2>2, <2>4, <2>6, <2>7, TeamAssumption
  <2>9. SeatsNeverOversold'
    BY <2>8 DEF SeatsNeverOversold
  <2>10. QED
    BY <1>1, <1>3, <1>4, <1>8, <2>9
<1>9. QED
  BY <1>7, <1>8

\* A request that is not stale costs the company no admin but its target.
LEMMA CommitAdmins ==
    ASSUME TeamInv, NEW p \in Requests, Commit(p), NEW t, t = req[p].target, ~req[p].stale
    PROVE  /\ Admins \ {t} \subseteq Admins'
           /\ ~Takes(req[p]) => Admins \subseteq Admins'
<1>1. /\ t \in Users /\ \A u \in Users \ {t} : colleague'[u] = colleague[u]
      /\ colleague'[t] = Written(p) /\ colleague'[t].state = "there"
  BY CommitFrame
<1>2. Admins \ {t} \subseteq Admins'
  BY <1>1 DEF Admins, Members, Member
<1>3. ASSUME ~Takes(req[p]), t \in Admins PROVE (t \in Admins)'
  <2>1. /\ colleague[t].role = "admin" /\ colleague[t].status = "active" /\ colleague[t].state = "there"
        /\ ~colleague[t].deleted
    BY <1>3 DEF Admins, Members, Member
  <2>2. req[p].pc = "commit" /\ Shape(req[p]) /\ Knows(req[p]) /\ req[p] \in Request
    BY RequestFacts DEF Commit
  <2>3. req[p].op \in {"create", "approve", "reject", "update", "delete"}
    BY <2>2, CommitRow
  <2>4. req[p].op \notin {"create", "approve", "reject"}
    BY <2>1, <2>2 DEF Knows, Pending
  <2>5. req[p].role # "member" /\ req[p].status # "suspended"
    BY <1>3, <2>1, <2>3, <2>4 DEF Takes
  <2>6. req[p].op = "update"
    BY <2>2, <2>3, <2>4, <2>5 DEF Shape
  <2>7. /\ Written(p).deleted = colleague[t].deleted
        /\ Written(p).role = Named(colleague[t].role, req[p].role)
        /\ Written(p).status = Named(colleague[t].status, req[p].status)
    BY <2>2, <2>6, CommitRow
  <2>8. req[p].role \in {"admin", "keep"} /\ req[p].status \in {"active", "keep"}
    BY <2>2, <2>5 DEF Request, Roles
  <2>9. Written(p).role = "admin" /\ Written(p).status = "active" /\ ~Written(p).deleted
    BY <2>1, <2>7, <2>8 DEF Named
  <2>10. QED
    BY <1>1, <2>9 DEF Admins, Members, Member
<1>4. QED
  BY <1>2, <1>3

\* The other requests keep what they know, and go stale on the row that was written.
LEMMA CommitOthers ==
    ASSUME TeamInv, NEW p \in Requests, Commit(p), NEW q \in Requests \ {p}, NEW s, s = req'[q]
    PROVE  /\ s \in Request /\ Sound(s)'
           /\ s.op = req[q].op /\ s.pc = req[q].pc /\ s.target = req[q].target
           /\ s.rows = req[q].rows /\ (Locking(s)' => Locking(req[q]))
<1>1. PICK t : t = req[p].target
  OBVIOUS
<1>2. /\ t \in Users /\ \A u \in Users \ {t} : colleague'[u] = colleague[u]
      /\ colleague'[t].state = "there"
      /\ s = IF req[q].target = t THEN [req[q] EXCEPT !.stale = TRUE] ELSE req[q]
  BY <1>1, CommitFrame
<1>3. PICK r : r = req[q]
  OBVIOUS
<1>4. /\ r \in Request /\ Shape(r) /\ Knows(r) /\ Guards(r) /\ HasRoom(r)
      /\ Apart(r, req[p])
  BY <1>3, RequestFacts
<1>5. /\ s \in Request /\ s.op = r.op /\ s.pc = r.pc /\ s.target = r.target /\ s.role = r.role
      /\ s.status = r.status /\ s.rows = r.rows
      /\ r.target = t => s.stale
      /\ r.target # t => s = r
  BY <1>2, <1>3, <1>4 DEF Request
<1>6. req[p].pc = "commit" /\ req[p].op \in {"create", "approve", "reject", "update", "delete"}
  BY CommitRow DEF Commit
<1>7. Shape(s)
  <2>1. r.target = t => r.pc # "idle"
    BY <1>2, <1>4, TeamAssumption DEF Shape, Idle
  <2>2. QED
    BY <1>4, <1>5, <2>1 DEF Shape
<1>8. r.target # t => (Takes(s)' <=> Takes(r))
  <2>1. SUFFICES ASSUME r.target # t, r.op # "none" PROVE colleague'[r.target] = colleague[r.target]
    BY <1>5 DEF Takes
  <2>2. QED
    BY <1>2, <1>4, <2>1 DEF Shape
<1>9. Knows(s)'
  <2>1. CASE r.target = t
    BY <1>1, <1>2, <1>4, <1>5, <1>6, <2>1 DEF Knows, Apart
  <2>2. CASE r.target # t
    <3>1. r.op # "none" => colleague'[r.target] = colleague[r.target]
      BY <1>2, <1>4, <2>2 DEF Shape
    <3>2. QED
      BY <1>4, <1>5, <2>2, <3>1 DEF Knows, Pending, Member
  <2>3. QED
    BY <2>1, <2>2
<1>10. HasRoom(s)'
  <2>1. SUFFICES ASSUME r.op \in {"create", "approve"}, r.pc \in {"updateRow", "commit"}
                 PROVE  Cardinality((seated \cap Members)' \ {r.target}) < MaxSeats
    BY <1>5 DEF HasRoom
  <2>2. req[p].op \notin {"create", "approve"}
    BY <1>4, <1>6, <2>1 DEF Apart, HasSeats
  <2>3. (seated \cap Members)' \subseteq seated \cap Members
    BY <1>1, <2>2, CommitSeats
  <2>4. PICK S, R : S = (seated \cap Members) \ {r.target} /\ R = (seated \cap Members)' \ {r.target}
    OBVIOUS
  <2>5. Cardinality(S) < MaxSeats
    BY <1>4, <2>1, <2>4 DEF HasRoom
  <2>6. IsFiniteSet(S) /\ R \subseteq S
    BY <2>3, <2>4, TeamAssumption, FS_Subset DEF Members
  <2>7. Cardinality(R) <= Cardinality(S) /\ Cardinality(R) \in Nat /\ Cardinality(S) \in Nat
    BY <2>6, FS_Subset, FS_CardinalityType
  <2>8. Cardinality(R) < MaxSeats
    BY <2>5, <2>7, TeamAssumption
  <2>9. QED
    BY <2>4, <2>8
<1>11. Guards(s)'
  <2>1. SUFFICES ASSUME ~s.stale, Takes(s)'
                 PROVE  /\ s.pc # "findAdmins" => s.target \in s.rows
                        /\ ~raced' /\ s.pc \in {"updateRow", "commit"} => Admins' \ {s.target} # {}
    BY DEF Guards
  <2>2. s = r /\ Takes(r) /\ ~r.stale
    BY <1>5, <1>8, <2>1
  <2>3. s.pc # "findAdmins" => s.target \in s.rows
    BY <1>4, <2>2 DEF Guards
  <2>4. ASSUME ~raced', r.pc \in {"updateRow", "commit"} PROVE Admins' \ {r.target} # {}
    <3>1. ~raced /\ ~req[p].stale
      BY <2>4 DEF Commit
    <3>2. Admins \ {r.target} # {}
      BY <1>4, <2>2, <2>4, <3>1 DEF Guards
    <3>3. ~Takes(req[p])
      <4>1. SUFFICES ASSUME Takes(req[p]) PROVE FALSE
        OBVIOUS
      <4>2. t \in req[p].rows /\ r.target \in r.rows
        BY <1>1, <1>4, <1>6, <2>2, <2>4, <3>1, <4>1, RequestFacts DEF Guards
      <4>3. Locking(req[p]) /\ Locking(r)
        BY <1>6, <2>2, <2>4, <3>1, <4>1 DEF Locking
      <4>4. r.target \in req[p].rows \/ t \in r.rows
        BY <1>1, <1>4, <4>3 DEF Apart
      <4>5. PICK u \in Users : u \in r.rows /\ u \in req[p].rows
        BY <1>2, <1>4, <4>2, <4>4 DEF Request
      <4>6. HasAdmin(r, u) /\ HasAdmin(req[p], u)
        BY <1>6, <2>4, <4>5 DEF HasAdmin
      <4>7. QED
        BY <1>4, <4>6 DEF Apart
    <3>4. Admins \subseteq Admins'
      BY <1>1, <3>1, <3>3, CommitAdmins
    <3>5. QED
      BY <3>2, <3>4
  <2>5. QED
    BY <2>2, <2>3, <2>4
<1>12. Locking(s)' => Locking(r)
  BY <1>5, <1>8 DEF Locking
<1>13. Shape(s)'
  BY <1>7 DEF Shape
<1>14. QED
  BY <1>3, <1>5, <1>9, <1>10, <1>11, <1>12, <1>13 DEF Sound

\* A commit keeps the invariant.
LEMMA CommitTeamInv ==
    ASSUME TeamInv, NEW p \in Requests, Commit(p)
    PROVE  TeamInv'
<1>1. PICK t : t = req[p].target
  OBVIOUS
<1>2. /\ t \in Users /\ colleague' \in [Users -> UserRow]
      /\ colleague'[t] = Written(p) /\ colleague'[t].state = "there"
      /\ \A u \in Users \ {t} : colleague'[u] = colleague[u]
      /\ req'[p] = Idle
  BY <1>1, CommitFrame
<1>3. seated' \subseteq seated \cup {t} /\ seated' \subseteq Users /\ SeatsNeverOversold'
  BY <1>1, CommitSeats
<1>4. raced' = (raced \/ req[p].stale) /\ raced \in BOOLEAN /\ req[p].pc = "commit"
      /\ req[p] \in Request
  BY DEF Commit, TeamInv, TypeOK
<1>5. TypeOK'
  <2>1. \A q \in Requests : req'[q] \in Request
    BY <1>2, IdleFits, CommitOthers
  <2>2. req' = [q \in Requests |-> req'[q]]
    BY DEF Commit, EndAndOvertake
  <2>3. req' \in [Requests -> Request]
    BY <2>1, <2>2
  <2>4. raced' \in BOOLEAN
    BY <1>4 DEF Request
  <2>5. QED
    BY <1>2, <1>3, <2>3, <2>4 DEF TypeOK
<1>6. AdminRemainsUnlessRaced'
  <2>1. SUFFICES ASSUME ~raced' PROVE Admins' # {}
    BY DEF AdminRemainsUnlessRaced
  <2>2. ~raced /\ ~req[p].stale
    BY <1>4, <2>1
  <2>3. CASE Takes(req[p])
    <3>1. Admins \ {t} # {}
      BY <1>1, <1>4, <2>2, <2>3, RequestFacts DEF Guards
    <3>2. QED
      BY <1>1, <2>2, <3>1, CommitAdmins
  <2>4. CASE ~Takes(req[p])
    <3>1. Admins # {}
      BY <2>2 DEF TeamInv, TeamHoldsUnlessRaced, AdminRemainsUnlessRaced
    <3>2. QED
      BY <1>1, <2>2, <2>4, <3>1, CommitAdmins
  <2>5. QED
    BY <2>3, <2>4
<1>7. DeletedNeverActiveUnlessRaced'
  <2>1. SUFFICES ASSUME ~raced', NEW u \in Users, colleague'[u].deleted PROVE colleague'[u].status # "active"
    BY DEF DeletedNeverActiveUnlessRaced, DeletedNeverActive
  <2>2. ~raced /\ ~req[p].stale
    BY <1>4, <2>1
  <2>3. CASE u # t
    BY <1>2, <2>1, <2>2, <2>3
       DEF TeamInv, TeamHoldsUnlessRaced, DeletedNeverActiveUnlessRaced, DeletedNeverActive
  <2>4. CASE u = t
    <3>1. req[p].op \in {"approve", "update"} => ~colleague[t].deleted
      BY <1>1, <2>2, RequestFacts DEF Knows, Pending, Member
    <3>2. req[p].op \in {"reject", "delete"}
      BY <1>1, <1>2, <1>4, <2>1, <2>4, <3>1, CommitRow
    <3>3. QED
      BY <1>1, <1>2, <1>4, <2>4, <3>2, CommitRow
  <2>5. QED
    BY <2>3, <2>4
<1>8. (\A u \in seated : colleague[u].state = "there")'
  BY <1>2, <1>3 DEF TeamInv
<1>9. ASSUME NEW q \in Requests PROVE Sound(req[q])'
  <2>1. PICK s : s = req'[q]
    OBVIOUS
  <2>2. CASE q = p
    <3>1. Sound(Idle)'
      BY DEF Idle, Sound, Shape, Knows, Guards, HasRoom, Takes
    <3>2. QED
      BY <1>2, <2>2, <3>1 DEF Sound, Shape, Knows, Guards, HasRoom, Takes
  <2>3. CASE q # p
    <3>1. Sound(s)'
      BY <2>1, <2>3, CommitOthers
    <3>2. QED
      BY <2>1, <3>1 DEF Sound, Shape, Knows, Guards, HasRoom, Takes
  <2>4. QED
    BY <2>2, <2>3
<1>10. ASSUME NEW q \in Requests \ {p} PROVE Apart(req[q], req[p])' /\ Apart(req[p], req[q])'
  <2>1. PICK s : s = req'[q]
    OBVIOUS
  <2>2. s.op = "create" => s.target \in Users
    BY <2>1, CommitOthers, RequestFacts DEF Shape
  <2>3. QED
    BY <1>2, <2>1, <2>2, TeamAssumption DEF Apart, HasSeats, HasAdmin, Locking, Takes, Idle
<1>11. ASSUME NEW q \in Requests \ {p}, NEW o \in Requests \ {p}, q # o
       PROVE  Apart(req[q], req[o])'
  <2>1. PICK r, s : r = req'[q] /\ s = req'[o]
    OBVIOUS
  <2>2. Apart(req[q], req[o])
    BY <1>11 DEF TeamInv
  <2>3. Apart(r, s)'
    <3>1. /\ r.op = req[q].op /\ r.pc = req[q].pc /\ r.target = req[q].target
          /\ r.rows = req[q].rows /\ (Locking(r)' => Locking(req[q]))
      BY <2>1, CommitOthers
    <3>2. /\ s.op = req[o].op /\ s.pc = req[o].pc /\ s.target = req[o].target
          /\ s.rows = req[o].rows /\ (Locking(s)' => Locking(req[o]))
      BY <2>1, CommitOthers
    <3>3. QED
      BY <2>2, <3>1, <3>2 DEF Apart, HasSeats, HasAdmin
  <2>4. QED
    BY <2>1, <2>3 DEF Apart, HasSeats, HasAdmin, Locking, Takes
<1>12. ASSUME NEW q \in Requests, NEW o \in Requests, q # o PROVE Apart(req[q], req[o])'
  BY <1>10, <1>11, <1>12
<1>13. TeamHoldsUnlessRaced'
  BY <1>6, <1>7 DEF TeamHoldsUnlessRaced
<1>14. QED
  BY <1>3, <1>5, <1>8, <1>9, <1>12, <1>13 DEF TeamInv

\* Before any request the founder is the company's one admin.
LEMMA InitTeamInv == Init => TeamInv
<1> SUFFICES ASSUME Init PROVE TeamInv
  OBVIOUS
<1>1. /\ \A p \in Requests : req[p] = Idle
      /\ req = [p \in Requests |-> Idle]
      /\ seated = {Founder} /\ raced = FALSE
      /\ colleague = [u \in Users |->
                    IF u = Founder
                    THEN [state |-> "there", role |-> "admin", status |-> "active",
                          deleted |-> FALSE]
                    ELSE NotYet]
  BY DEF Init
<1>2. Founder \in Users
  BY TeamAssumption
<1>3. TypeOK
  BY <1>1, <1>2, IdleFits DEF TypeOK, UserRow, NotYet, Roles
<1>4. SeatsNeverOversold
  <2>1. seated \cap Members \subseteq {Founder}
    BY <1>1
  <2>2. Cardinality({Founder}) = 1 /\ IsFiniteSet({Founder})
    BY FS_Singleton
  <2>3. /\ Cardinality(seated \cap Members) <= 1
        /\ Cardinality(seated \cap Members) \in Nat
    BY <2>1, <2>2, FS_Subset, FS_CardinalityType
  <2>4. QED
    BY <2>3, TeamAssumption DEF SeatsNeverOversold
<1>5. AdminRemainsUnlessRaced
  <2>1. colleague[Founder] = [state |-> "there", role |-> "admin", status |-> "active",
                         deleted |-> FALSE]
    BY <1>1, <1>2
  <2>2. Founder \in Admins
    BY <1>2, <2>1 DEF Admins, Members, Member
  <2>3. QED
    BY <2>2 DEF AdminRemainsUnlessRaced
<1>6. DeletedNeverActiveUnlessRaced
  BY <1>1 DEF DeletedNeverActiveUnlessRaced, DeletedNeverActive, NotYet
<1>7. \A p \in Requests : Sound(req[p])
  BY <1>1, IdleFits
<1>8. \A p, q \in Requests : Apart(req[p], req[q])
  <2>1. Apart(Idle, Idle)
    BY DEF Apart, Idle, HasSeats, HasAdmin, Locking, Takes
  <2>2. QED
    BY <1>1, <2>1
<1>9. QED
  BY <1>1, <1>2, <1>3, <1>4, <1>5, <1>6, <1>7, <1>8 DEF TeamInv, TeamHoldsUnlessRaced

\* Every step keeps the invariant, and so does a stutter.
LEMMA NextTeamInv == TeamInv /\ [Next]_vars => TeamInv'
<1> SUFFICES ASSUME TeamInv, [Next]_vars PROVE TeamInv'
  OBVIOUS
<1>1. CASE UNCHANGED vars
  <2>1. Unwritten /\ req' = req
    BY <1>1 DEF vars, Unwritten
  <2>2. CASE Requests = {}
    <3>1. Members' = Members /\ Admins' = Admins
      BY <2>1 DEF Unwritten, Members, Admins, Member
    <3>2. QED
      BY <2>1, <2>2, <3>1
         DEF Unwritten, TeamInv, TypeOK, SeatsNeverOversold, TeamHoldsUnlessRaced,
             AdminRemainsUnlessRaced, DeletedNeverActiveUnlessRaced, DeletedNeverActive
  <2>3. ASSUME NEW p \in Requests PROVE TeamInv'
    <3>1. PICK r : r = req[p]
      OBVIOUS
    <3>2. r \in Request /\ Sound(r) /\ \A q \in Requests \ {p} : Apart(r, req[q])
      BY <3>1, RequestFacts
    <3>3. req' = [req EXCEPT ![p] = r]
      BY <2>1, <3>1 DEF TeamInv, TypeOK
    <3>4. QED
      BY <2>1, <3>2, <3>3, LocalStep
  <2>4. QED
    BY <2>2, <2>3
<1>2. ASSUME NEW p \in Requests, Rollback(p) PROVE TeamInv'
  BY <1>2, EndTeamInv DEF Rollback
<1>3. QED
  BY <1>1, <1>2, AcceptTeamInv, StartTeamInv, SeatStepsTeamInv, AdminLocksTeamInv, AdminCountTeamInv, CommitTeamInv
     DEF Next

-----------------------------------------------------------------------------
(* What follows for every behaviour.                                       *)

\* The inductive invariant holds in every behaviour of a company's people.
THEOREM TeamInvariant == Spec => []TeamInv
BY InitTeamInv, NextTeamInv, PTL DEF Spec

\* Every variable keeps its type.
THEOREM TeamTypes == Spec => []TypeOK
<1>1. TeamInv => TypeOK
  BY DEF TeamInv
<1>2. QED
  BY <1>1, TeamInvariant, PTL

\* "Two admins cannot both take the last free seat" (assertSeatAvailable), for
\* every number of requests, people and seats.
THEOREM SeatsAreNeverOversold == Spec => []SeatsNeverOversold
<1>1. TeamInv => SeatsNeverOversold
  BY DEF TeamInv
<1>2. QED
  BY <1>1, TeamInvariant, PTL

\* A company keeps an admin and nobody who was deleted can come in, until a request
\* writes a row that changed since it read it (assertNotLastAdmin, deleteUser).
THEOREM TeamHolds == Spec => []TeamHoldsUnlessRaced
<1>1. TeamInv => TeamHoldsUnlessRaced
  BY DEF TeamInv
<1>2. QED
  BY <1>1, TeamInvariant, PTL

=============================================================================
