------------------------------- MODULE Vault -------------------------------
(***************************************************************************)
(* What is kept on a project or a client: credentials (vault/vault.        *)
(* service.ts) with their access log, and links (projectLink, clientLink). *)
(* What a request may touch is checked when it reads, against a scope it   *)
(* resolved once; the write goes to the row by its id alone.               *)
(* What decides the scope, the permissions, comes first.                   *)
(***************************************************************************)
EXTENDS FiniteSets, Sequences, Naturals

-----------------------------------------------------------------------------
(***************************************************************************)
(* What a permission can say (shared/permissionCatalogue.ts), what each    *)
(* role of an agency starts with, and the answer a request gets            *)
(* (shared/resolveScope.ts).  A square is a module and an action.          *)
(***************************************************************************)

Scopes == {"all", "assigned", "own", "none"}
CompanyRoles == {"admin", "sales", "project_manager", "operations"}
CRUD == {"view", "create", "edit", "delete"}

\* MODULE_ACTIONS: the squares there are.
Squares ==
    ({"clients", "leads", "invoices", "services", "team", "accounts", "vault"} \X CRUD)
      \cup ({"projects", "tasks"} \X (CRUD \cup {"assign"}))
      \cup ({"attendance", "leave", "time"} \X (CRUD \ {"delete"}))
      \cup ({"chat"} \X {"view", "create"}) \cup {<<"reports", "view">>}

Talk   == {"chat"} \X {"view", "create"}
OwnDay == Talk \cup ({"attendance", "leave"} \X {"view", "create"})
               \cup ({"time"} \X {"view", "create", "edit"})

AdminGrants == [all |-> Squares \ Talk, assigned |-> {}, own |-> Talk]

SalesGrants ==
    [all |-> ({"clients", "leads", "invoices", "services", "vault"} \X {"view", "create", "edit"})
               \cup ({"projects"} \X {"view", "create"}) \cup ({"tasks", "team"} \X {"view"}),
     assigned |-> {},
     own |-> OwnDay \cup {<<"reports", "view">>, <<"tasks", "edit">>}]

ManagerGrants ==
    [all |-> ({"clients", "services", "team", "reports"} \X {"view"})
               \cup ({"projects"} \X {"view", "create", "edit", "assign"})
               \cup ({"tasks"} \X (CRUD \cup {"assign"}))
               \cup ({"vault", "attendance"} \X {"view", "create", "edit"})
               \cup ({"leave", "time"} \X {"view", "edit"}),
     assigned |-> {},
     own |-> Talk \cup ({"leave", "time"} \X {"create"})]

\* Mutant of OperationsGrants: the view of tasks is left out.
BlindGrants ==
    [all |-> {"services", "team"} \X {"view"},
     assigned |-> {"clients", "projects", "vault"} \X {"view"},
     own |-> OwnDay \cup {<<"tasks", "edit">>}]

OperationsGrants ==
    [all |-> {"services", "team"} \X {"view"},
     assigned |-> {"clients", "projects", "vault"} \X {"view"},
     own |-> OwnDay \cup ({"tasks"} \X {"view", "edit"})]

\* ROLE_DEFAULTS
Grants(role) ==
    CASE role = "admin" -> AdminGrants
      [] role = "sales" -> SalesGrants
      [] role = "project_manager" -> ManagerGrants
      [] OTHER -> OperationsGrants

\* A square the defaults do not mention is none: silence should never read as permission.
DefaultScope(role, square) ==
    LET g == Grants(role) IN
    CASE square \in g.all -> "all" [] square \in g.assigned -> "assigned"
      [] square \in g.own -> "own" [] OTHER -> "none"

\* defaultPermissionRows
SeededRows == {<<role, square, DefaultScope(role, square)>> : role \in CompanyRoles, square \in Squares}

\* An override wins, an absent one inherits; a scope the code no longer has is no answer.
ResolveScope(row, override, role, square) ==
    CASE override \in Scopes -> override
      [] row \in Scopes -> row
      [] OTHER -> DefaultScope(role, square)

\* requireScope: anything but none lets them act.
MayAct(scope) == scope # "none"

-----------------------------------------------------------------------------
ReachOf(scope) == CASE scope = "all" -> 3 [] scope = "assigned" -> 2 [] scope = "own" -> 1 [] OTHER -> 0

(***************************************************************************)
(* What a role starts with hangs together: nobody acts on more than they   *)
(* see, nobody but an admin reaches what no other role may, and every      *)
(* square has one row.                                                     *)
(***************************************************************************)
SeededGridHangsTogether ==
    /\ \A role \in CompanyRoles, sq \in Squares :
          ReachOf(DefaultScope(role, sq)) <= ReachOf(DefaultScope(role, <<sq[1], "view">>))
    /\ \A role \in CompanyRoles, sq \in Squares :
          ReachOf(DefaultScope(role, sq)) <= ReachOf(DefaultScope("admin", sq))
    /\ \A r, s \in SeededRows : r[1] = s[1] /\ r[2] = s[2] => r = s

-----------------------------------------------------------------------------

CONSTANTS Colleagues, Nobody,
          Hands,               \* requests under way
          Places, NoPlace,     \* projects, or clients
          Things, NoThing,     \* rows of credentials or links
          MaxTold,             \* bound on the log of a row
          MaxMoves             \* bound on changes of membership and scope

ASSUME VaultAssumption ==
    /\ Nobody \notin Colleagues /\ NoPlace \notin Places /\ NoThing \notin Things
    /\ MaxTold \in Nat /\ MaxMoves \in Nat

VARIABLES kind,        \* what is kept here
          thing,       \* thing[k]: a row
          told,        \* told[k]: the access log of k
          on,          \* on[p]: the projects p is a member of, or the clients of those
          mine,        \* mine[p]: the clients p owns
          reach,       \* reach[p]: what the grid answers p for viewing these
          hand,        \* hand[h]: what request h has checked and is about to write
          moves,
          shown,       \* ghost: how often the password of k was handed out
          astray,      \* ghost: somebody wrote what was not theirs to write
          overtaken    \* ghost: whether a request had been overtaken when it wrote

vaultVars == <<kind, thing, told, on, mine, reach, hand, moves, shown, astray, overtaken>>

-----------------------------------------------------------------------------
Kinds == {"credential", "project_link", "client_link"}
ThingRows == [is : {"new", "kept", "deleted"}, at : Places \cup {NoPlace}]
Free == [op |-> "none", who |-> Nobody, scope |-> "none", what |-> NoThing, to |-> NoPlace,
         moves |-> FALSE, stale |-> FALSE]

VaultInit ==
    /\ kind \in Kinds
    /\ thing = [k \in Things |-> [is |-> "new", at |-> NoPlace]]
    /\ told = [k \in Things |-> <<>>] /\ shown = [k \in Things |-> 0]
    /\ on \in [Colleagues -> SUBSET Places]
    /\ mine \in [Colleagues -> IF kind = "client_link" THEN SUBSET Places ELSE {{}}]
    /\ reach \in [Colleagues -> IF kind = "client_link" THEN {"all", "assigned", "own"}
                                ELSE {"all", "assigned"}]
    /\ hand = [h \in Hands |-> Free]
    /\ moves = 0 /\ astray = FALSE /\ overtaken = FALSE

\* The projects you are on; a client is also narrowed to the ones you own.
PlacesOf(p, scope) ==
    CASE scope = "all" -> Places \cup {NoPlace}
      [] scope = "none" -> {}
      [] kind = "client_link" /\ scope = "own" -> mine[p]
      [] OTHER -> on[p]

\* visibilityScope, linkScope
Sees(p, scope, k) == thing[k].is = "kept" /\ thing[k].at \in PlacesOf(p, scope)

Take(h, r) ==
    /\ hand[h] = Free /\ hand' = [hand EXCEPT ![h] = r]
    /\ UNCHANGED <<kind, thing, told, on, mine, reach, moves, shown, astray, overtaken>>

Asking(op, p, k) == [Free EXCEPT !.op = op, !.who = p, !.scope = reach[p], !.what = k]

\* revealCredential
RevealCredential(h, p, k) ==
    /\ kind = "credential" /\ MayAct(reach[p]) /\ Sees(p, reach[p], k)
    /\ Take(h, Asking("reveal", p, k))

\* createCredential: the place only has to be the agency's.
CreateCredential(h, p, k) ==
    /\ kind = "credential" /\ thing[k].is = "new"
    /\ \E to \in Places \cup {NoPlace} : Take(h, [Asking("create", p, k) EXCEPT !.to = to])

\* Mutant of MayCarry: the place is not looked at.
MayCarryAnywhere(p, scope, to) == TRUE

\* Under a narrowed scope, only onto a project they are on.
MayCarry(p, scope, to) == scope = "all" \/ to \in on[p]

\* updateCredential
UpdateCredential(h, p, k) ==
    /\ kind = "credential" /\ Sees(p, reach[p], k)
    /\ \/ Take(h, Asking("update", p, k))
       \/ \E to \in Places \cup {NoPlace} :
             /\ MayCarry(p, reach[p], to)
             /\ Take(h, [Asking("update", p, k) EXCEPT !.to = to, !.moves = TRUE])

\* deleteCredential: an admin's, whatever the scope.
DeleteCredential(h, p, k) ==
    kind = "credential" /\ thing[k].is = "kept" /\ Take(h, Asking("delete", p, k))

MakeLink(h, p, k) ==
    /\ thing[k].is = "new"
    /\ \E to \in Places \cap PlacesOf(p, reach[p]) :
          Take(h, [Asking("create", p, k) EXCEPT !.to = to])
ChangeLink(h, p, k, op) == Sees(p, reach[p], k) /\ Take(h, Asking(op, p, k))

CreateProjectLink(h, p, k) == kind = "project_link" /\ MakeLink(h, p, k)
UpdateProjectLink(h, p, k) == kind = "project_link" /\ ChangeLink(h, p, k, "update")
RemoveProjectLink(h, p, k) == kind = "project_link" /\ ChangeLink(h, p, k, "delete")

CreateClientLink(h, p, k) == kind = "client_link" /\ MakeLink(h, p, k)
UpdateClientLink(h, p, k) == kind = "client_link" /\ ChangeLink(h, p, k, "update")
RemoveClientLink(h, p, k) == kind = "client_link" /\ ChangeLink(h, p, k, "delete")

\* writeAccessLog, in the transaction of what it tells
TellTale(k, op) == IF kind = "credential" THEN Append(told[k], op) ELSE told[k]

Overtake(h) == [g \in Hands |-> IF g = h THEN Free
                                ELSE [hand[g] EXCEPT !.stale = hand[g] # Free]]

NewThing(r) ==
    [is |-> IF r.op = "delete" THEN "deleted" ELSE IF r.op = "create" THEN "kept" ELSE thing[r.what].is,
     at |-> IF r.op = "create" \/ r.moves THEN r.to ELSE thing[r.what].at]

WriteThing(h) ==
    LET r == hand[h] k == r.what IN
    /\ r.op # "none" /\ Len(told[k]) < MaxTold
    /\ r.op = "create" => thing[k].is = "new"
    /\ thing' = [thing EXCEPT ![k] = NewThing(r)]
    /\ told' = [told EXCEPT ![k] = TellTale(k, r.op)]
    /\ shown' = IF r.op = "reveal" THEN [shown EXCEPT ![k] = @ + 1] ELSE shown
    /\ astray' = (astray \/ (/\ r.op \in {"reveal", "update"}
                             /\ {thing[k].at, NewThing(r).at} \ PlacesOf(r.who, reach[r.who]) # {}))
    /\ overtaken' = (overtaken \/ r.stale)
    /\ hand' = Overtake(h)
    /\ UNCHANGED <<kind, on, mine, reach, moves>>

\* Somebody joins or leaves a project, or the grid is changed for them.
Regrade(p) ==
    /\ moves < MaxMoves /\ moves' = moves + 1
    /\ \/ \E ps \in SUBSET Places : on' = [on EXCEPT ![p] = ps] /\ UNCHANGED reach
       \/ \E s \in Scopes : reach' = [reach EXCEPT ![p] = s] /\ UNCHANGED on
    /\ hand' = Overtake(Nobody)
    /\ UNCHANGED <<kind, thing, told, mine, shown, astray, overtaken>>

\* What each router leads to.
VaultRoutes(h, p, k) ==
    \/ RevealCredential(h, p, k) \/ CreateCredential(h, p, k) \/ UpdateCredential(h, p, k)
    \/ DeleteCredential(h, p, k)
ProjectLinkRoutes(h, p, k) ==
    CreateProjectLink(h, p, k) \/ UpdateProjectLink(h, p, k) \/ RemoveProjectLink(h, p, k)
ClientLinkRoutes(h, p, k) ==
    CreateClientLink(h, p, k) \/ UpdateClientLink(h, p, k) \/ RemoveClientLink(h, p, k)

VaultNext ==
    \/ \E h \in Hands, p \in Colleagues, k \in Things :
          VaultRoutes(h, p, k) \/ ProjectLinkRoutes(h, p, k) \/ ClientLinkRoutes(h, p, k)
    \/ \E h \in Hands : WriteThing(h)
    \/ \E p \in Colleagues : Regrade(p)

VaultSpec == VaultInit /\ [][VaultNext]_vaultVars

-----------------------------------------------------------------------------
VaultTypeOK ==
    /\ kind \in Kinds /\ thing \in [Things -> ThingRows]
    /\ \A k \in Things : Len(told[k]) <= MaxTold
    /\ on \in [Colleagues -> SUBSET Places] /\ mine \in [Colleagues -> SUBSET Places]
    /\ reach \in [Colleagues -> Scopes]
    /\ hand \in [Hands -> [op : {"none", "reveal", "create", "update", "delete"},
                           who : Colleagues \cup {Nobody}, scope : Scopes,
                           what : Things \cup {NoThing}, to : Places \cup {NoPlace},
                           moves : BOOLEAN, stale : BOOLEAN]]
    /\ moves \in 0 .. MaxMoves

Tells(k, op) == Cardinality({i \in DOMAIN told[k] : told[k][i] = op})

(***************************************************************************)
(* "Who saw this before it was removed" has an answer (vault.service.ts):  *)
(* a row of the log for every password handed out, always; and unless two  *)
(* requests overlapped the log begins with the creation, and the deletion  *)
(* closes it.                                                              *)
(***************************************************************************)
LogAnswersUnlessRaced ==
    \A k \in Things : kind = "credential" =>
        /\ Tells(k, "reveal") = shown[k]
        /\ (told[k] # <<>>) = (thing[k].is # "new")
        /\ told[k] # <<>> => told[k][1] = "create"
        /\ ~overtaken => \A i \in DOMAIN told[k] : told[k][i] = "delete" => i = Len(told[k])

\* A person narrowed to some projects acts on those, and carries nothing off them.
ReachKeptUnlessRaced == astray => overtaken
=============================================================================
