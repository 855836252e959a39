------------------------------- MODULE Lists -------------------------------
(***************************************************************************)
(* The lists an agency curates for itself (service, serviceCategory,       *)
(* serviceTemplate, department, leadSource, expenseCategory) and the       *)
(* records filed under their entries.  Every request reads, then writes;   *)
(* the indexes and foreign keys of the database are all that holds at the  *)
(* write.  A behaviour is about one of the lists.  What an entry says      *)
(* besides its name (description, price, order, whether it is offered)     *)
(* is read by no guard and is left out.                                    *)
(* A package's lines, written all at once, come after the lists.           *)
(***************************************************************************)
EXTENDS Naturals, FiniteSets

CONSTANTS Clerks,              \* requests under way
          Entries, NoEntry,    \* rows of the list
          Names,               \* names, case folded
          Records, NoRecord    \* rows of other tables that name an entry

ASSUME ListsAssumption == NoEntry \notin Entries /\ NoRecord \notin Records /\ Names # {}

VARIABLES list,        \* which of the lists this is
          entry,       \* entry[e]: a row of the list
          record,      \* record[r]: the entry it is filed under, and whether it is still there
          clerk,       \* clerk[c]: what request c has read and is about to write
          erased,      \* ghost: the records that lost their entry because it was removed
          misnamed,    \* ghost: entries whose name was asked about before another was written
          mislaid      \* ghost: records a removal took from which were filed after it had counted

ghosts    == <<erased, misnamed, mislaid>>
listsVars == <<list, entry, record, clerk, ghosts>>

-----------------------------------------------------------------------------
AllLists ==
    {"service", "service_category", "package", "department", "lead_source", "expense_category"}
Forms == {"as typed", "otherwise cased"}
EntryRows == [is : {"new", "listed", "gone"}, name : Names, form : Forms]
Errands == [op : {"idle", "create", "rename", "remove", "file"}, on : Entries \cup {NoEntry},
             rec : Records \cup {NoRecord}, name : Names, form : Forms, stale : BOOLEAN]

AnyName == CHOOSE n \in Names : TRUE
NewEntry == [is |-> "new", name |-> AnyName, form |-> "as typed"]
NoErrand == [op |-> "idle", on |-> NoEntry, rec |-> NoRecord, name |-> AnyName, form |-> "as typed",
         stale |-> FALSE]

ListsInit ==
    /\ list \in AllLists
    /\ entry = [e \in Entries |-> NewEntry]
    /\ record = [r \in Records |-> [on |-> NoEntry, live |-> TRUE]]
    /\ clerk = [c \in Clerks |-> NoErrand]
    /\ erased = {} /\ misnamed = {} /\ mislaid = {}

Listed == {e \in Entries : entry[e].is = "listed"}
FiledUnder(e) == {r \in Records : record[r].on = e}

\* Names are compared whatever their case, except by the expense categories.
Same(o, n, f) == entry[o].name = n /\ (list = "expense_category" => entry[o].form = f)

\* assertUniqueName.  A list asks before a name is changed; expense categories do not.
UniqueName(e, n, f) == \A o \in Listed \ {e} : ~Same(o, n, f)

Intend(c, r) ==
    /\ clerk[c] = NoErrand /\ clerk' = [clerk EXCEPT ![c] = r]
    /\ UNCHANGED <<list, entry, record, ghosts>>

ProposeName(c, op, e, asks) ==
    \E n \in Names, f \in Forms :
       /\ asks => UniqueName(e, n, f)
       /\ Intend(c, [NoErrand EXCEPT !.op = op, !.on = e, !.name = n, !.form = f])

Create(c, e) == entry[e].is = "new" /\ ProposeName(c, "create", e, TRUE)
Rename(c, e, asks) == e \in Listed /\ ProposeName(c, "rename", e, asks)
Remove(c, e, counted) ==
    e \in Listed /\ counted = {} /\ Intend(c, [NoErrand EXCEPT !.op = "remove", !.on = e])
File(c, r, e) ==
    /\ e \in Listed /\ record[r].live
    /\ Intend(c, [NoErrand EXCEPT !.op = "file", !.on = e, !.rec = r])

-----------------------------------------------------------------------------
\* What the agency sells.  Lines, projects and packages that name one keep it.
CreateService(c, e) == list = "service" /\ Create(c, e)
UpdateService(c, e) == list = "service" /\ Rename(c, e, TRUE)
RemoveService(c, e) == list = "service" /\ Remove(c, e, FiledUnder(e))
FileUnderService(c, r, e) == list = "service" /\ File(c, r, e)

\* Services survive their category: nothing is counted.
CreateCategory(c, e) == list = "service_category" /\ Create(c, e)
UpdateCategory(c, e) == list = "service_category" /\ Rename(c, e, TRUE)
RemoveCategory(c, e) == list = "service_category" /\ Remove(c, e, {})
FileService(c, r, e) == list = "service_category" /\ File(c, r, e)

\* Nothing points at a package: an invoice keeps its own lines.
CreatePackage(c, e) == list = "package" /\ Create(c, e)
RenamePackage(c, e) == list = "package" /\ Rename(c, e, TRUE)
RemovePackage(c, e) == list = "package" /\ Remove(c, e, {})

\* Mutant of LiveUnder: everybody is looked at as if they had left.
NobodyUnder(e) == {}

\* Only people who are still there are counted.
LiveUnder(e) == {r \in FiledUnder(e) : record[r].live}

CreateDepartment(c, e) == list = "department" /\ Create(c, e)
UpdateDepartment(c, e) == list = "department" /\ Rename(c, e, TRUE)
RemoveDepartment(c, e) == list = "department" /\ Remove(c, e, LiveUnder(e))
FilePerson(c, r, e) == list = "department" /\ File(c, r, e)

CreateSource(c, e) == list = "lead_source" /\ Create(c, e)
UpdateSource(c, e) == list = "lead_source" /\ Rename(c, e, TRUE)
RemoveSource(c, e) == list = "lead_source" /\ Remove(c, e, FiledUnder(e))
FileLead(c, r, e) == list = "lead_source" /\ File(c, r, e)

CreateExpenseCategory(c, e) == list = "expense_category" /\ Create(c, e)
UpdateExpenseCategory(c, e) == list = "expense_category" /\ Rename(c, e, FALSE)
DeleteExpenseCategory(c, e) == list = "expense_category" /\ Remove(c, e, LiveUnder(e))
FileExpense(c, r, e) == list = "expense_category" /\ File(c, r, e)

-----------------------------------------------------------------------------
\* What the database does of its own accord.
IndexAllows(e, n, f) == \A o \in Listed \ {e} : ~(entry[o].name = n /\ entry[o].form = f)
Restricts == list \in {"service", "expense_category"}
KeyAllows(e) == Restricts => FiledUnder(e) = {}

\* A row deleted or written under the request is an error, and the request ends.
Refused(c) ==
    LET r == clerk[c] IN
    CASE r.op = "create" -> entry[r.on].is # "new" \/ ~IndexAllows(r.on, r.name, r.form)
      [] r.op = "rename" -> r.on \notin Listed \/ ~IndexAllows(r.on, r.name, r.form)
      [] r.op = "remove" -> r.on \notin Listed \/ ~KeyAllows(r.on)
      [] OTHER -> r.on \notin Listed

GiveUp(c) ==
    /\ clerk[c] # NoErrand /\ Refused(c)
    /\ clerk' = [clerk EXCEPT ![c] = NoErrand]
    /\ UNCHANGED <<list, entry, record, ghosts>>

\* Request q asked about the names, or counted what is filed under its entry, before r wrote.
Overtakes(r, q) ==
    \/ r.op \in {"create", "rename"} /\ q.op \in {"create", "rename"}
    \/ r.op = "file" /\ q.op = "remove" /\ q.on = r.on

Done(c) ==
    /\ clerk' = [d \in Clerks |->
                    IF d = c THEN NoErrand
                    ELSE [clerk[d] EXCEPT !.stale = @ \/ Overtakes(clerk[c], clerk[d])]]
    /\ UNCHANGED list

WriteName(c) ==
    LET r == clerk[c] IN
    /\ r.op \in {"create", "rename"} /\ ~Refused(c)
    /\ entry' = [entry EXCEPT ![r.on] = [is |-> "listed", name |-> r.name, form |-> r.form]]
    /\ misnamed' = IF r.stale THEN misnamed \cup {r.on} ELSE misnamed \ {r.on}
    /\ Done(c) /\ UNCHANGED <<record, erased, mislaid>>

\* Every other foreign key is SetNull.
WriteRemoval(c) ==
    LET r == clerk[c] IN
    /\ r.op = "remove" /\ ~Refused(c)
    /\ entry' = [entry EXCEPT ![r.on].is = "gone"]
    /\ record' = [x \in Records |->
                    IF x \in FiledUnder(r.on) THEN [record[x] EXCEPT !.on = NoEntry] ELSE record[x]]
    /\ erased' = erased \cup FiledUnder(r.on)
    /\ mislaid' = IF r.stale THEN mislaid \cup FiledUnder(r.on) ELSE mislaid
    /\ Done(c) /\ UNCHANGED misnamed

WriteFiling(c) ==
    LET r == clerk[c] IN
    /\ r.op = "file" /\ ~Refused(c)
    /\ record' = [record EXCEPT ![r.rec].on = r.on]
    /\ erased' = erased \ {r.rec} /\ mislaid' = mislaid \ {r.rec}
    /\ Done(c) /\ UNCHANGED <<entry, misnamed>>

\* The record is deleted; its row stays.
Retire(r) ==
    /\ record[r].live /\ record' = [record EXCEPT ![r].live = FALSE]
    /\ UNCHANGED <<list, entry, clerk, ghosts>>

\* What each router leads to.
ServiceRoutes(c, e) ==
    \/ CreateService(c, e) \/ UpdateService(c, e) \/ RemoveService(c, e)
    \/ CreateCategory(c, e) \/ UpdateCategory(c, e) \/ RemoveCategory(c, e)
    \/ CreatePackage(c, e) \/ RenamePackage(c, e) \/ RemovePackage(c, e)
DepartmentRoutes(c, e) == CreateDepartment(c, e) \/ UpdateDepartment(c, e) \/ RemoveDepartment(c, e)
LeadSourceRoutes(c, e) == CreateSource(c, e) \/ UpdateSource(c, e) \/ RemoveSource(c, e)
ExpenseCategoryRoutes(c, e) ==
    CreateExpenseCategory(c, e) \/ UpdateExpenseCategory(c, e) \/ DeleteExpenseCategory(c, e)
FilingRoutes(c, r, e) ==
    \/ FileUnderService(c, r, e) \/ FileService(c, r, e) \/ FilePerson(c, r, e)
    \/ FileLead(c, r, e) \/ FileExpense(c, r, e)

ListsNext ==
    \/ \E c \in Clerks, e \in Entries :
          \/ ServiceRoutes(c, e) \/ DepartmentRoutes(c, e)
          \/ LeadSourceRoutes(c, e) \/ ExpenseCategoryRoutes(c, e)
          \/ \E r \in Records : FilingRoutes(c, r, e)
    \/ \E c \in Clerks : GiveUp(c) \/ WriteName(c) \/ WriteRemoval(c) \/ WriteFiling(c)
    \/ \E r \in Records : Retire(r)

ListsSpec == ListsInit /\ [][ListsNext]_listsVars

-----------------------------------------------------------------------------
ListsTypeOK ==
    /\ list \in AllLists
    /\ entry \in [Entries -> EntryRows]
    /\ record \in [Records -> [on : Entries \cup {NoEntry}, live : BOOLEAN]]
    /\ clerk \in [Clerks -> Errands]
    /\ erased \subseteq Records /\ misnamed \subseteq Entries /\ mislaid \subseteq Records

\* The index: no name twice as it is typed, whoever raced whom.
IndexHolds ==
    \A d, e \in Listed : d # e => <<entry[d].name, entry[d].form>> # <<entry[e].name, entry[e].form>>

\* "Upwork" and "upwork" are one marketplace and not two, unless one was named by a request that
\* had asked before the other was written; expense categories may differ in case.
NamedOnce ==
    \A d, e \in Listed :
       d # e /\ Same(d, entry[e].name, entry[e].form) => {d, e} \cap misnamed # {}

\* What is filed under an entry keeps it where the key restricts, whoever raced whom.
KeyHolds == Restricts => erased = {}

\* Where a removal counts first, it never rewrites the history of a record that is still there,
\* unless that was filed after the count.
HistoryKept ==
    list \in {"service", "department", "lead_source", "expense_category"} =>
        \A r \in erased \ mislaid : ~record[r].live

(***************************************************************************)
(* Nothing is on a list twice, and of the lists whose removals count, no   *)
(* record loses the entry it is filed under; the index and the restricting *)
(* keys hold at every race, and of the rest only that is excused which the *)
(* overtaken request itself named or took from.  Service categories are    *)
(* not of these lists: "retired rather than deleted once services point at *)
(* it" says service.prisma:3-5 of them, but remove (serviceCategory:126)   *)
(* counts the services and does not look, and they lose their category to  *)
(* any removal.                                                            *)
(***************************************************************************)
ListsHoldUnlessRaced == IndexHolds /\ KeyHolds /\ NamedOnce /\ HistoryKept

-----------------------------------------------------------------------------
(***************************************************************************)
(* The lines of one package (service/serviceTemplate.service.ts).  An edit *)
(* deletes every line and writes the ones it was given, in a transaction   *)
(* that locks nothing beforehand.  Under READ COMMITTED the delete sees    *)
(* the lines of the moment it starts: it waits for those another edit is   *)
(* deleting, finds them gone, and never sees what that edit wrote.         *)
(***************************************************************************)

CONSTANTS Editors, Services,
          MaxEdits           \* bound on the edits

ASSUME PackagesAssumption == MaxEdits \in Nat

VARIABLES lines,        \* the rows: which service, and the edit that wrote it
          removed,      \* whether the package was deleted
          editor,       \* editor[c]: what request c is doing
          edits,        \* the edits so far
          wanted,       \* ghost: what the last edit asked for
          crossed       \* ghost: whether the last edit had been overtaken when it wrote

packagesVars == <<lines, removed, editor, edits, wanted, crossed>>

-----------------------------------------------------------------------------
LineRows == [service : Services, by : 0 .. MaxEdits]
AtRest == [at |-> "rest", asked |-> {}, seen |-> {}, stale |-> FALSE]
ServicesOn(ls) == {l.service : l \in ls}

\* A bundle with no lines is a name, not an offer.  One with a service twice breaks the index.
Offers == (SUBSET Services) \ {{}}

PackagesInit ==
    /\ wanted \in Offers
    /\ lines = {[service |-> s, by |-> 0] : s \in wanted}
    /\ removed = FALSE /\ edits = 0 /\ crossed = FALSE
    /\ editor = [c \in Editors |-> AtRest]

\* assertOwnServices
AskEdit(c) ==
    /\ editor[c] = AtRest /\ ~removed /\ edits < MaxEdits
    /\ \E asked \in Offers :
          editor' = [editor EXCEPT ![c] = [AtRest EXCEPT !.at = "asked", !.asked = asked]]
    /\ UNCHANGED <<lines, removed, edits, wanted, crossed>>

\* Mutant of Snapshot: the new lines are written beside the old ones.
NoLines == {}

\* The delete begins: these are the rows it will delete.
Snapshot == lines

StartClearing(c) ==
    /\ editor[c].at = "asked"
    /\ editor' = [editor EXCEPT ![c].at = "clearing", ![c].seen = Snapshot]
    /\ UNCHANGED <<lines, removed, edits, wanted, crossed>>

LockedFor(c) == UNION {editor[d].seen : d \in {e \in Editors \ {c} : editor[e].at = "cleared"}}

\* It waits for rows another edit has deleted; those are gone once that edit commits.
Clear(c) ==
    /\ editor[c].at = "clearing" /\ editor[c].seen \cap LockedFor(c) = {}
    /\ editor' = [editor EXCEPT ![c].at = "cleared", ![c].seen = @ \cap lines]
    /\ UNCHANGED <<lines, removed, edits, wanted, crossed>>

\* @@unique([template_id, service_id])
IndexAllowsLines(c) == editor[c].asked \cap ServicesOn(lines \ editor[c].seen) = {}

SaveEdit(c) ==
    /\ editor[c].at = "cleared" /\ ~removed /\ IndexAllowsLines(c) /\ edits < MaxEdits
    /\ lines' = (lines \ editor[c].seen)
                  \cup {[service |-> s, by |-> edits + 1] : s \in editor[c].asked}
    /\ edits' = edits + 1
    /\ wanted' = editor[c].asked
    /\ crossed' = editor[c].stale
    /\ editor' = [d \in Editors |-> IF d = c THEN AtRest
                                    ELSE [editor[d] EXCEPT !.stale = editor[d] # AtRest]]
    /\ UNCHANGED removed

\* The transaction is rolled back.
EditFails(c) ==
    /\ editor[c].at = "cleared" /\ (removed \/ ~IndexAllowsLines(c) \/ edits = MaxEdits)
    /\ editor' = [editor EXCEPT ![c] = AtRest]
    /\ UNCHANGED <<lines, removed, edits, wanted, crossed>>

\* Its lines go with it: the delete waits for the edits that hold any.
DropPackage ==
    /\ ~removed /\ \A c \in Editors : editor[c].at = "cleared" => editor[c].seen = {}
    /\ removed' = TRUE /\ lines' = {}
    /\ UNCHANGED <<editor, edits, wanted, crossed>>

PackagesNext ==
    \/ \E c \in Editors :
          AskEdit(c) \/ StartClearing(c) \/ Clear(c) \/ SaveEdit(c) \/ EditFails(c)
    \/ DropPackage

PackagesSpec == PackagesInit /\ [][PackagesNext]_packagesVars

-----------------------------------------------------------------------------
PackagesTypeOK ==
    /\ lines \subseteq LineRows /\ removed \in BOOLEAN /\ edits \in 0 .. MaxEdits
    /\ editor \in [Editors -> [at : {"rest", "asked", "clearing", "cleared"},
                               asked : SUBSET Services, seen : SUBSET LineRows, stale : BOOLEAN]]
    /\ wanted \in Offers /\ crossed \in BOOLEAN

(***************************************************************************)
(* A package always has a line and no service twice, whoever raced whom;   *)
(* and it is what the last edit asked for unless another was saved between *)
(* its check and its write, when it may be the lines of both.              *)
(***************************************************************************)
PackageIsAsAskedUnlessRaced ==
    ~removed =>
        /\ lines # {}
        /\ \A k, l \in lines : k.service = l.service => k = l
        /\ ~crossed => ServicesOn(lines) = wanted
=============================================================================
