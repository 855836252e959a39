----------------------------- MODULE DeskProofs -----------------------------
(***************************************************************************)
(* What an agency keeps at its desk, whatever the numbers of requests and  *)
(* rows: its lists, the lines of its packages, its targets, its vault and  *)
(* what its roles start with.  Each part has an invariant of its own, and  *)
(* a section takes them together, for the behaviours that MCDesk explores  *)
(* part by part.  The last sections are of Loan, a specification of its    *)
(* own: the types, that the ledger matches what is paid, that a paid row   *)
(* stays until its payment is reversed, and that until a request is        *)
(* overtaken a loan's status says what is left of it.                      *)
(***************************************************************************)
EXTENDS MCDesk, Loan, FiniteSetTheorems, SequenceTheorems, TLAPS

-----------------------------------------------------------------------------
(***************************************************************************)
(* The lists.  A request that was not overtaken still finds the name it    *)
(* gives free, and nobody whom the removal it decided on would rob.        *)
(***************************************************************************)

\* What a request carries.
Carries(r) ==
    /\ r.op # "idle" => r.on \in Entries
    /\ r.op = "file" => r.rec \in Records /\ list # "package"

\* What it found, and still finds unless it was overtaken.
StillFinds(r) ==
    ~r.stale =>
        /\ r.op \in {"create", "rename"} /\ list # "expense_category" =>
              UniqueName(r.on, r.name, r.form)
        /\ r.op = "remove" /\ list # "service_category" => LiveUnder(r.on) = {}

ListsInv ==
    /\ ListsTypeOK
    /\ IndexHolds /\ KeyHolds /\ NamedOnce /\ HistoryKept
    /\ list = "package" => \A r \in Records : record[r].on = NoEntry
    /\ \A c \in Clerks : Carries(clerk[c]) /\ StillFinds(clerk[c])

\* Nothing is on a list yet.
LEMMA ListsBegin == ListsInit => ListsInv
<1> SUFFICES ASSUME ListsInit PROVE ListsInv
  OBVIOUS
<1> USE ListsAssumption DEF ListsInit
<1>1. AnyName \in Names
  BY DEF AnyName
<1>2. NewEntry \in EntryRows /\ NoErrand \in Errands
  BY <1>1 DEF NewEntry, NoErrand, EntryRows, Errands, Forms
<1>3. ListsTypeOK
  BY <1>2 DEF ListsTypeOK
<1>4. Listed = {}
  BY DEF Listed, NewEntry
<1>5. IndexHolds /\ KeyHolds /\ NamedOnce /\ HistoryKept
  BY <1>4 DEF IndexHolds, KeyHolds, NamedOnce, HistoryKept
<1>6. \A c \in Clerks : Carries(clerk[c]) /\ StillFinds(clerk[c])
  BY DEF Carries, StillFinds, NoErrand
<1> QED BY <1>3, <1>5, <1>6 DEF ListsInv

\* A request begins with what it has just found.
LEMMA IntendKeeps ==
    ASSUME ListsInv, NEW c \in Clerks, NEW r \in Errands, Carries(r), StillFinds(r), Intend(c, r)
    PROVE  ListsInv'
<1>1. /\ clerk' = [clerk EXCEPT ![c] = r]
      /\ UNCHANGED <<list, entry, record, ghosts>>
  BY DEF Intend
<1>2. ListsTypeOK'
  BY <1>1 DEF ListsInv, ListsTypeOK, ghosts
<1>3. /\ IndexHolds' /\ KeyHolds' /\ NamedOnce' /\ HistoryKept'
      /\ list' = "package" => \A x \in Records : record'[x].on = NoEntry
  BY <1>1 DEF ghosts, ListsInv, IndexHolds, KeyHolds, NamedOnce, HistoryKept, Restricts, Listed, Same
<1>4. ASSUME NEW d \in Clerks PROVE (Carries(clerk[d]) /\ StillFinds(clerk[d]))'
  <2>1. clerk'[d] = IF d = c THEN r ELSE clerk[d]
    BY <1>1 DEF ListsInv, ListsTypeOK
  <2> QED BY <1>1, <2>1 DEF ListsInv, Carries, StillFinds, UniqueName, Listed, Same, LiveUnder,
                            FiledUnder
<1> QED BY <1>2, <1>3, <1>4 DEF ListsInv

\* Whoever proposes a name asks whether it is free, but for expense categories.
LEMMA ProposeKeeps ==
    ASSUME ListsInv, NEW c \in Clerks, NEW e \in Entries, NEW op \in {"create", "rename"},
           NEW asks \in BOOLEAN, asks \/ list = "expense_category", ProposeName(c, op, e, asks)
    PROVE  ListsInv'
<1>1. PICK n \in Names, f \in Forms :
         /\ asks => UniqueName(e, n, f)
         /\ Intend(c, [NoErrand EXCEPT !.op = op, !.on = e, !.name = n, !.form = f])
  BY DEF ProposeName
<1>2. PICK r : r = [NoErrand EXCEPT !.op = op, !.on = e, !.name = n, !.form = f]
  OBVIOUS
<1>3. r = [op |-> op, on |-> e, rec |-> NoRecord, name |-> n, form |-> f, stale |-> FALSE]
  BY <1>2 DEF NoErrand
<1>4. r \in Errands
  BY <1>3 DEF Errands
<1>5. Carries(r) /\ StillFinds(r)
  BY <1>1, <1>3, <1>4 DEF Carries, StillFinds
<1>6. Intend(c, r)
  BY <1>1, <1>2
<1> QED BY <1>5, <1>6, <1>4, IntendKeeps

\* Whoever removes has counted who would be robbed, where anything is filed at all.
LEMMA RemoveKeeps ==
    ASSUME ListsInv, NEW c \in Clerks, NEW e \in Entries, NEW counted, Remove(c, e, counted),
           list \in {"service_category", "package"} \/ LiveUnder(e) \subseteq counted
    PROVE  ListsInv'
<1>1. PICK r : r = [NoErrand EXCEPT !.op = "remove", !.on = e]
  OBVIOUS
<1>2. r = [op |-> "remove", on |-> e, rec |-> NoRecord, name |-> AnyName, form |-> "as typed",
           stale |-> FALSE]
  BY <1>1 DEF NoErrand
<1>3. r \in Errands
  BY <1>2, ListsAssumption DEF Errands, Forms, AnyName
<1>4. list = "package" => LiveUnder(e) = {}
  BY ListsAssumption DEF ListsInv, LiveUnder, FiledUnder
<1>5. counted = {} /\ Intend(c, r)
  BY <1>1 DEF Remove
<1>6. list # "service_category" => LiveUnder(e) = {}
  BY <1>4, <1>5
<1>7. Carries(r) /\ StillFinds(r)
  BY <1>2, <1>6 DEF Carries, StillFinds
<1> QED BY <1>5, <1>7, <1>3, IntendKeeps

\* Nothing is filed under a package.
LEMMA FileKeeps ==
    ASSUME ListsInv, NEW c \in Clerks, NEW e \in Entries, NEW x \in Records, list # "package",
           File(c, x, e)
    PROVE  ListsInv'
<1>1. PICK r : r = [NoErrand EXCEPT !.op = "file", !.on = e, !.rec = x]
  OBVIOUS
<1>2. r = [op |-> "file", on |-> e, rec |-> x, name |-> AnyName, form |-> "as typed",
           stale |-> FALSE]
  BY <1>1 DEF NoErrand
<1>3. r \in Errands
  BY <1>2, ListsAssumption DEF Errands, Forms, AnyName
<1>4. Carries(r) /\ StillFinds(r)
  BY <1>2, <1>3 DEF Carries, StillFinds
<1> QED BY <1>1, <1>4, <1>3, IntendKeeps DEF File

\* What every route of every list comes to.
LEMMA RoutesKeep ==
    ASSUME ListsInv, NEW c \in Clerks, NEW e \in Entries,
           \/ ServiceRoutes(c, e) \/ DepartmentRoutes(c, e)
           \/ LeadSourceRoutes(c, e) \/ ExpenseCategoryRoutes(c, e)
           \/ \E r \in Records : FilingRoutes(c, r, e)
    PROVE  ListsInv'
<1>1. CASE \/ CreateService(c, e) \/ CreateCategory(c, e) \/ CreatePackage(c, e)
           \/ CreateDepartment(c, e) \/ CreateSource(c, e) \/ CreateExpenseCategory(c, e)
  <2>1. ProposeName(c, "create", e, TRUE)
    BY <1>1 DEF Create, CreateService, CreateCategory, CreatePackage, CreateDepartment,
                CreateSource, CreateExpenseCategory
  <2> QED BY <2>1, ProposeKeeps
<1>2. CASE \/ UpdateService(c, e) \/ UpdateCategory(c, e) \/ RenamePackage(c, e)
           \/ UpdateDepartment(c, e) \/ UpdateSource(c, e)
  <2>1. ProposeName(c, "rename", e, TRUE)
    BY <1>2 DEF Rename, UpdateService, UpdateCategory, RenamePackage, UpdateDepartment, UpdateSource
  <2> QED BY <2>1, ProposeKeeps
<1>3. CASE UpdateExpenseCategory(c, e)
  BY <1>3, ProposeKeeps DEF UpdateExpenseCategory, Rename
<1>4. LiveUnder(e) \subseteq FiledUnder(e)
  BY DEF LiveUnder
<1>5. CASE RemoveService(c, e) \/ RemoveSource(c, e)
  BY <1>4, <1>5, RemoveKeeps DEF RemoveService, RemoveSource
<1>6. CASE RemoveCategory(c, e) \/ RemovePackage(c, e)
  BY <1>6, RemoveKeeps DEF RemoveCategory, RemovePackage
<1>7. CASE RemoveDepartment(c, e) \/ DeleteExpenseCategory(c, e)
  BY <1>7, RemoveKeeps DEF RemoveDepartment, DeleteExpenseCategory
<1>8. ASSUME NEW r \in Records, FilingRoutes(c, r, e) PROVE ListsInv'
  BY <1>8, FileKeeps
     DEF FilingRoutes, FileUnderService, FileService, FilePerson, FileLead, FileExpense
<1> QED BY <1>1, <1>2, <1>3, <1>5, <1>6, <1>7, <1>8
        DEF ServiceRoutes, DepartmentRoutes, LeadSourceRoutes, ExpenseCategoryRoutes

\* Once a request has written, each other one is as it was, or stale if it was overtaken.
LEMMA DoneStales ==
    ASSUME ListsInv, NEW c \in Clerks, Done(c)
    PROVE  /\ clerk' \in [Clerks -> Errands]
           /\ \A d \in Clerks : Carries(clerk[d])'
           /\ \A d \in Clerks :
                 \/ clerk'[d].op = "idle"
                 \/ clerk'[d].stale
                 \/ clerk'[d] = clerk[d] /\ ~Overtakes(clerk[c], clerk[d])
<1> USE DEF ListsInv, ListsTypeOK
<1>1. NoErrand \in Errands /\ NoErrand.op = "idle"
  BY ListsAssumption DEF NoErrand, Errands, Forms, AnyName
<1>2. clerk' = [d \in Clerks |->
                  IF d = c THEN NoErrand
                  ELSE [clerk[d] EXCEPT !.stale = @ \/ Overtakes(clerk[c], clerk[d])]]
      /\ list' = list
  BY DEF Done
<1>3. ASSUME NEW d \in Clerks
      PROVE  /\ clerk'[d] \in Errands /\ Carries(clerk[d])'
             /\ \/ clerk'[d].op = "idle"
                \/ clerk'[d].stale
                \/ clerk'[d] = clerk[d] /\ ~Overtakes(clerk[c], clerk[d])
  <2>1. CASE d = c
    BY <1>1, <1>2, <2>1 DEF Carries
  <2>2. CASE d # c
    <3>1. PICK s \in BOOLEAN : s = (clerk[d].stale \/ Overtakes(clerk[c], clerk[d]))
      OBVIOUS
    <3>2. clerk'[d] = [clerk[d] EXCEPT !.stale = s]
      BY <1>2, <2>2, <3>1
    <3>3. clerk[d] \in Errands /\ clerk[d].stale \in BOOLEAN
      BY DEF Errands
    <3>4. /\ clerk'[d] \in Errands /\ clerk'[d].stale = s /\ clerk'[d].op = clerk[d].op
          /\ clerk'[d].on = clerk[d].on /\ clerk'[d].rec = clerk[d].rec
      BY <3>2, <3>3 DEF Errands
    <3>5. ASSUME ~s PROVE clerk'[d] = clerk[d] /\ ~Overtakes(clerk[c], clerk[d])
      <4>1. clerk[d].stale = FALSE /\ ~Overtakes(clerk[c], clerk[d])
        BY <3>1, <3>3, <3>5
      <4>2. clerk'[d] = [clerk[d] EXCEPT !.stale = FALSE]
        BY <3>1, <3>2, <3>5
      <4> QED BY <3>3, <4>1, <4>2 DEF Errands
    <3> QED BY <1>2, <3>4, <3>5 DEF Carries
  <2> QED BY <2>1, <2>2
<1> QED BY <1>2, <1>3

\* What is left to show of a write: whoever it did not overtake still finds what it found.
LEMMA WriteKeeps ==
    ASSUME ListsInv, NEW c \in Clerks, Done(c),
           entry' \in [Entries -> EntryRows],
           record' \in [Records -> [on : Entries \cup {NoEntry}, live : BOOLEAN]],
           erased' \subseteq Records, misnamed' \subseteq Entries, mislaid' \subseteq Records,
           list = "package" => \A r \in Records : record'[r].on = NoEntry,
           IndexHolds' /\ KeyHolds' /\ NamedOnce' /\ HistoryKept',
           \A q \in Errands : ~Overtakes(clerk[c], q) /\ Carries(q) /\ StillFinds(q) => StillFinds(q)'
    PROVE  ListsInv'
<1>1. list' = list
  BY DEF Done
<1>2. /\ clerk' \in [Clerks -> Errands]
      /\ \A d \in Clerks : Carries(clerk[d])'
      /\ \A d \in Clerks :
            \/ clerk'[d].op = "idle"
            \/ clerk'[d].stale
            \/ clerk'[d] = clerk[d] /\ ~Overtakes(clerk[c], clerk[d])
  BY DoneStales
<1>3. ASSUME NEW d \in Clerks PROVE StillFinds(clerk[d])'
  <2>1. CASE clerk'[d].op = "idle" \/ clerk'[d].stale
    BY <2>1 DEF StillFinds
  <2>2. CASE clerk'[d] = clerk[d] /\ ~Overtakes(clerk[c], clerk[d])
    <3>1. PICK q : q = clerk[d]
      OBVIOUS
    <3>2. q \in Errands /\ Carries(q) /\ StillFinds(q)
      BY <3>1 DEF ListsInv, ListsTypeOK
    <3>3. StillFinds(q)'
      BY <2>2, <3>1, <3>2
    <3> QED BY <2>2, <3>1, <3>3 DEF StillFinds
  <2> QED BY <1>2, <2>1, <2>2
<1>4. ListsTypeOK'
  BY <1>1, <1>2 DEF ListsInv, ListsTypeOK
<1> QED BY <1>1, <1>2, <1>3, <1>4 DEF ListsInv

\* A name is written that was free, by the index or by what was read.
LEMMA WriteNameKeeps ==
    ASSUME ListsInv, NEW c \in Clerks, WriteName(c)
    PROVE  ListsInv'
<1>1. PICK r : r = clerk[c]
  OBVIOUS
<1>2. /\ r.op \in {"create", "rename"} /\ ~Refused(c)
      /\ entry' = [entry EXCEPT ![r.on] = [is |-> "listed", name |-> r.name, form |-> r.form]]
      /\ misnamed' = IF r.stale THEN misnamed \cup {r.on} ELSE misnamed \ {r.on}
      /\ Done(c) /\ UNCHANGED <<record, erased, mislaid>>
  BY <1>1 DEF WriteName
<1>3. r \in Errands /\ Carries(r) /\ StillFinds(r) /\ r.on \in Entries
  BY <1>1, <1>2 DEF ListsInv, ListsTypeOK, Carries
<1>4. IndexAllows(r.on, r.name, r.form)
  BY <1>1, <1>2 DEF Refused
<1>5. list' = list
  BY <1>2 DEF Done
<1>6. \A o \in Entries : entry'[o] = IF o = r.on
                                     THEN [is |-> "listed", name |-> r.name, form |-> r.form]
                                     ELSE entry[o]
  BY <1>2, <1>3 DEF ListsInv, ListsTypeOK
<1>7. entry' \in [Entries -> EntryRows]
  BY <1>2, <1>3 DEF ListsInv, ListsTypeOK, EntryRows, Errands
<1>8. NamedOnce'
  <2>1. ASSUME ~r.stale PROVE \A o \in Listed \ {r.on} : ~Same(o, r.name, r.form)
    BY <1>2, <1>3, <1>4, <2>1 DEF StillFinds, UniqueName, IndexAllows, Same
  <2>2. r.on \in misnamed' <=> r.stale
    BY <1>2
  <2>3. \A o \in Entries \ {r.on} : o \in misnamed' <=> o \in misnamed
    BY <1>2
  <2>4. ASSUME NEW d \in Listed', NEW e \in Listed', d # e, Same(d, entry[e].name, entry[e].form)'
        PROVE  d \in misnamed' \/ e \in misnamed'
    <3>1. d \in Entries /\ e \in Entries
      BY DEF Listed
    <3>2. CASE d # r.on /\ e # r.on
      <4>1. d \in misnamed \/ e \in misnamed
        BY <1>5, <1>6, <2>4, <3>1, <3>2 DEF ListsInv, NamedOnce, Listed, Same
      <4> QED BY <2>3, <3>1, <3>2, <4>1
    <3>3. CASE (d = r.on \/ e = r.on) /\ r.stale
      BY <2>2, <3>3
    <3>4. CASE e = r.on /\ ~r.stale
      BY <1>5, <1>6, <2>1, <2>4, <3>1, <3>4 DEF Listed, Same
    <3>5. CASE d = r.on /\ ~r.stale
      BY <1>5, <1>6, <2>1, <2>4, <3>1, <3>5 DEF Listed, Same
    <3> QED BY <3>2, <3>3, <3>4, <3>5
  <2> QED BY <2>4 DEF NamedOnce
<1>9. KeyHolds' /\ HistoryKept'
  BY <1>2, <1>5 DEF ListsInv, KeyHolds, Restricts, HistoryKept
<1>10. list = "package" => \A x \in Records : record'[x].on = NoEntry
  BY <1>2 DEF ListsInv
<1>11. /\ record' \in [Records -> [on : Entries \cup {NoEntry}, live : BOOLEAN]]
       /\ erased' \subseteq Records /\ misnamed' \subseteq Entries /\ mislaid' \subseteq Records
  BY <1>2, <1>3 DEF ListsInv, ListsTypeOK
<1>12. IndexHolds'
  <2>1. \A o \in Listed \ {r.on} : ~(entry[o].name = r.name /\ entry[o].form = r.form)
    BY <1>4 DEF IndexAllows
  <2>2. ASSUME NEW d \in Listed', NEW e \in Listed', d # e
        PROVE  entry'[d].name # entry'[e].name \/ entry'[d].form # entry'[e].form
    <3>1. d \in Entries /\ e \in Entries
      BY DEF Listed
    <3>2. CASE d # r.on /\ e # r.on
      BY <1>6, <2>2, <3>1, <3>2 DEF ListsInv, IndexHolds, Listed
    <3>3. CASE d = r.on \/ e = r.on
      BY <1>6, <2>1, <2>2, <3>1, <3>3 DEF Listed
    <3> QED BY <3>2, <3>3
  <2> QED BY <2>2 DEF IndexHolds
<1>13. ASSUME NEW q \in Errands, ~Overtakes(clerk[c], q), Carries(q), StillFinds(q)
       PROVE  StillFinds(q)'
  <2>1. q.op \notin {"create", "rename"}
    BY <1>1, <1>2, <1>13 DEF Overtakes
  <2> QED BY <1>2, <1>5, <1>13, <2>1 DEF StillFinds, LiveUnder, FiledUnder
<1> QED BY <1>2, <1>7, <1>8, <1>9, <1>10, <1>11, <1>12, <1>13, WriteKeeps

\* A removal takes the entry from nobody who is still there, or the key refuses it.
LEMMA WriteRemovalKeeps ==
    ASSUME ListsInv, NEW c \in Clerks, WriteRemoval(c)
    PROVE  ListsInv'
<1>1. PICK r : r = clerk[c]
  OBVIOUS
<1>2. /\ r.op = "remove" /\ ~Refused(c)
      /\ entry' = [entry EXCEPT ![r.on].is = "gone"]
      /\ record' = [x \in Records |->
                      IF x \in FiledUnder(r.on) THEN [record[x] EXCEPT !.on = NoEntry]
                      ELSE record[x]]
      /\ erased' = erased \cup FiledUnder(r.on)
      /\ mislaid' = IF r.stale THEN mislaid \cup FiledUnder(r.on) ELSE mislaid
      /\ Done(c) /\ misnamed' = misnamed
  BY <1>1 DEF WriteRemoval
<1>3. r \in Errands /\ StillFinds(r) /\ r.on \in Entries
  BY <1>1, <1>2 DEF ListsInv, ListsTypeOK, Carries
<1>4. Restricts => FiledUnder(r.on) = {}
  BY <1>1, <1>2 DEF Refused, KeyAllows
<1>5. list' = list
  BY <1>2 DEF Done
<1>6. /\ entry' \in [Entries -> EntryRows]
      /\ \A o \in Entries : entry'[o] = IF o = r.on THEN [entry[o] EXCEPT !.is = "gone"]
                                          ELSE entry[o]
  BY <1>2, <1>3 DEF ListsInv, ListsTypeOK, EntryRows
<1>7. /\ record' \in [Records -> [on : Entries \cup {NoEntry}, live : BOOLEAN]]
      /\ \A x \in Records : record'[x].live = record[x].live
      /\ \A x \in Records : record'[x].on \in {record[x].on, NoEntry}
  BY <1>2 DEF ListsInv, ListsTypeOK
<1>8. erased' \subseteq Records /\ misnamed' \subseteq Entries /\ mislaid' \subseteq Records
  BY <1>2 DEF ListsInv, ListsTypeOK, FiledUnder
<1>9. KeyHolds'
  BY <1>2, <1>4, <1>5 DEF ListsInv, KeyHolds, Restricts
<1>10. \A o \in Listed' : o \in Listed /\ o \in Entries /\ entry'[o] = entry[o]
  BY <1>3, <1>6 DEF Listed, ListsInv, ListsTypeOK, EntryRows
<1>11. NamedOnce' /\ IndexHolds'
  BY <1>2, <1>5, <1>10 DEF ListsInv, NamedOnce, IndexHolds, Same
<1>12. HistoryKept'
  <2> DEFINE counting == list \in {"service", "department", "lead_source", "expense_category"}
  <2>1. ASSUME counting, NEW x \in erased' \ mislaid' PROVE ~record'[x].live
    <3>1. CASE x \in erased /\ x \notin mislaid
      BY <1>7, <1>8, <2>1, <3>1 DEF ListsInv, HistoryKept
    <3>2. CASE x \in FiledUnder(r.on) /\ ~r.stale
      <4>1. LiveUnder(r.on) = {}
        BY <1>2, <1>3, <2>1, <3>2 DEF StillFinds
      <4> QED BY <1>7, <3>2, <4>1 DEF LiveUnder, FiledUnder
    <3> QED BY <1>2, <2>1, <3>1, <3>2
  <2> QED BY <1>5, <2>1 DEF HistoryKept
<1>13. list = "package" => \A x \in Records : record'[x].on = NoEntry
  BY <1>7 DEF ListsInv
<1>14. ASSUME NEW q \in Errands, Carries(q), StillFinds(q) PROVE StillFinds(q)'
  <2>1. \A e \in Entries : LiveUnder(e)' \subseteq LiveUnder(e)
    BY <1>7, ListsAssumption DEF LiveUnder, FiledUnder
  <2>2. \A e, n, f : UniqueName(e, n, f) => UniqueName(e, n, f)'
    BY <1>5, <1>10 DEF UniqueName, Same
  <2>3. UniqueName(q.on, q.name, q.form) => UniqueName(q.on, q.name, q.form)'
    BY <2>2
  <2>4. q.op = "remove" => LiveUnder(q.on)' \subseteq LiveUnder(q.on)
    BY <1>14, <2>1 DEF Carries
  <2> QED BY <1>5, <1>14, <2>3, <2>4 DEF StillFinds
<1> QED BY <1>2, <1>6, <1>7, <1>8, <1>9, <1>11, <1>12, <1>13, <1>14, WriteKeeps

\* A filing takes nothing from anybody.
LEMMA WriteFilingKeeps ==
    ASSUME ListsInv, NEW c \in Clerks, WriteFiling(c)
    PROVE  ListsInv'
<1>1. PICK r : r = clerk[c]
  OBVIOUS
<1>2. /\ r.op = "file" /\ record' = [record EXCEPT ![r.rec].on = r.on]
      /\ erased' = erased \ {r.rec} /\ mislaid' = mislaid \ {r.rec}
      /\ Done(c) /\ entry' = entry /\ misnamed' = misnamed
  BY <1>1 DEF WriteFiling
<1>3. r \in Errands /\ r.on \in Entries /\ r.rec \in Records /\ list # "package"
  BY <1>1, <1>2 DEF ListsInv, ListsTypeOK, Carries
<1>4. list' = list
  BY <1>2 DEF Done
<1>5. /\ record' \in [Records -> [on : Entries \cup {NoEntry}, live : BOOLEAN]]
      /\ \A x \in Records : record'[x].live = record[x].live
      /\ \A x \in Records : record'[x].on = IF x = r.rec THEN r.on ELSE record[x].on
  BY <1>2, <1>3 DEF ListsInv, ListsTypeOK
<1>6. IndexHolds' /\ KeyHolds' /\ NamedOnce'
  BY <1>2, <1>4 DEF ListsInv, IndexHolds, KeyHolds, Restricts, NamedOnce, Listed, Same
<1>7. /\ entry' \in [Entries -> EntryRows] /\ erased' \subseteq Records
      /\ misnamed' \subseteq Entries /\ mislaid' \subseteq Records
  BY <1>2 DEF ListsInv, ListsTypeOK
<1>8. HistoryKept'
  <2>1. \A x \in erased' \ mislaid' : x \in erased \ mislaid /\ x \in Records
    BY <1>2 DEF ListsInv, ListsTypeOK
  <2> QED BY <1>4, <1>5, <2>1 DEF ListsInv, HistoryKept
<1>9. ASSUME NEW q \in Errands, ~Overtakes(clerk[c], q), Carries(q), StillFinds(q)
      PROVE  StillFinds(q)'
  <2>1. q.op = "remove" => LiveUnder(q.on)' \subseteq LiveUnder(q.on)
    <3>1. q.op = "remove" => q.on # r.on
      BY <1>1, <1>2, <1>9 DEF Overtakes
    <3> QED BY <1>5, <3>1 DEF LiveUnder, FiledUnder
  <2>2. \A e, n, f : UniqueName(e, n, f) <=> UniqueName(e, n, f)'
    BY <1>2, <1>4 DEF UniqueName, Same, Listed
  <2>3. UniqueName(q.on, q.name, q.form) => UniqueName(q.on, q.name, q.form)'
    BY <2>2
  <2> QED BY <1>4, <1>9, <2>1, <2>3 DEF StillFinds
<1> QED BY <1>2, <1>3, <1>5, <1>6, <1>7, <1>8, <1>9, WriteKeeps

\* Nor does a record that is deleted, or a request that gives up.
LEMMA RetireKeeps ==
    ASSUME ListsInv, NEW x \in Records, Retire(x)
    PROVE  ListsInv'
<1>1. /\ record' = [record EXCEPT ![x].live = FALSE]
      /\ UNCHANGED <<list, entry, clerk, ghosts>>
  BY DEF Retire
<1>2. /\ record' \in [Records -> [on : Entries \cup {NoEntry}, live : BOOLEAN]]
      /\ \A y \in Records : record'[y].on = record[y].on /\ (record'[y].live => record[y].live)
  BY <1>1 DEF ListsInv, ListsTypeOK
<1>3. ListsTypeOK'
  BY <1>1, <1>2 DEF ListsInv, ListsTypeOK, ghosts
<1>4. /\ IndexHolds' /\ KeyHolds' /\ NamedOnce' /\ HistoryKept'
      /\ list' = "package" => \A y \in Records : record'[y].on = NoEntry
  BY <1>1, <1>2 DEF ghosts, ListsInv, ListsTypeOK, IndexHolds, KeyHolds, Restricts, NamedOnce,
                    HistoryKept, Listed, Same
<1>5. ASSUME NEW d \in Clerks PROVE (Carries(clerk[d]) /\ StillFinds(clerk[d]))'
  <2>1. \A e : LiveUnder(e)' \subseteq LiveUnder(e)
    BY <1>2 DEF LiveUnder, FiledUnder
  <2>2. \A e, n, f : UniqueName(e, n, f)' <=> UniqueName(e, n, f)
    BY <1>1 DEF UniqueName, Listed, Same
  <2>3. Carries(clerk[d]) /\ StillFinds(clerk[d])
    BY DEF ListsInv
  <2>4. PICK r : r = clerk[d]
    OBVIOUS
  <2>5. r = clerk'[d] /\ list' = list
    BY <1>1, <2>4
  <2>6. LiveUnder(r.on)' \subseteq LiveUnder(r.on)
    BY <2>1
  <2>7. UniqueName(r.on, r.name, r.form)' <=> UniqueName(r.on, r.name, r.form)
    BY <2>2
  <2> QED BY <2>3, <2>4, <2>5, <2>6, <2>7 DEF Carries, StillFinds
<1> QED BY <1>3, <1>4, <1>5 DEF ListsInv

\* A request that gives up has done nothing.
LEMMA GiveUpKeeps ==
    ASSUME ListsInv, NEW c \in Clerks, GiveUp(c)
    PROVE  ListsInv'
<1>1. /\ clerk' = [clerk EXCEPT ![c] = NoErrand]
      /\ UNCHANGED <<list, entry, record, ghosts>>
  BY DEF GiveUp
<1>2. NoErrand \in Errands /\ NoErrand.op = "idle"
  BY ListsAssumption DEF NoErrand, Errands, Forms, AnyName
<1>3. ListsTypeOK'
  BY <1>1, <1>2 DEF ListsInv, ListsTypeOK, ghosts
<1>4. /\ IndexHolds' /\ KeyHolds' /\ NamedOnce' /\ HistoryKept'
      /\ list' = "package" => \A x \in Records : record'[x].on = NoEntry
  BY <1>1 DEF ghosts, ListsInv, IndexHolds, KeyHolds, NamedOnce, HistoryKept, Restricts, Listed, Same
<1>5. ASSUME NEW d \in Clerks PROVE (Carries(clerk[d]) /\ StillFinds(clerk[d]))'
  <2>1. clerk'[d] = IF d = c THEN NoErrand ELSE clerk[d]
    BY <1>1 DEF ListsInv, ListsTypeOK
  <2> QED BY <1>1, <1>2, <2>1
          DEF ListsInv, Carries, StillFinds, UniqueName, Listed, Same, LiveUnder, FiledUnder
<1> QED BY <1>3, <1>4, <1>5 DEF ListsInv

\* Every step of the lists.
LEMMA ListsStep ==
    ASSUME ListsInv, [ListsNext]_listsVars
    PROVE  ListsInv'
<1>1. CASE UNCHANGED listsVars
  BY <1>1 DEF listsVars, ghosts, ListsInv, ListsTypeOK, IndexHolds, KeyHolds, NamedOnce, HistoryKept, Restricts, Listed,
              Same, Carries, StillFinds, UniqueName, LiveUnder, FiledUnder
<1> QED BY <1>1, RoutesKeep, WriteNameKeeps, WriteRemovalKeeps, WriteFilingKeeps, RetireKeeps,
           GiveUpKeeps DEF ListsNext

-----------------------------------------------------------------------------
(***************************************************************************)
(* The lines of a package.  An edit that was not overtaken has seen every  *)
(* line there is, so what it writes is all there will be.                  *)
(***************************************************************************)
EditorRows == [at : {"rest", "asked", "clearing", "cleared"},
               asked : SUBSET Services, seen : SUBSET LineRows, stale : BOOLEAN]

\* What an edit was given, and the lines it has seen.
HasSeenAll(r) ==
    /\ r.at # "rest" => r.asked # {}
    /\ ~removed /\ ~r.stale /\ r.at \in {"clearing", "cleared"} => r.seen = lines

PackagesInv ==
    /\ PackagesTypeOK /\ PackageIsAsAskedUnlessRaced
    /\ \A c \in Editors : HasSeenAll(editor[c])

\* The services on some lines are those that a line has.
LEMMA ServicesAre ==
    ASSUME NEW ls, NEW asked,
           \A l \in ls : l.service \in asked, \A s \in asked : \E l \in ls : l.service = s
    PROVE  ServicesOn(ls) = asked
  BY DEF ServicesOn

\* A package begins with what was asked for.
LEMMA PackagesBegin == PackagesInit => PackagesInv
<1> SUFFICES ASSUME PackagesInit PROVE PackagesInv
  OBVIOUS
<1> USE PackagesAssumption DEF PackagesInit
<1>1. /\ wanted \in SUBSET Services /\ wanted # {}
      /\ lines = {[service |-> s, by |-> 0] : s \in wanted}
  BY DEF Offers
<1>2. /\ lines \subseteq LineRows /\ lines # {} /\ ServicesOn(lines) = wanted
      /\ \A k, l \in lines : k.service = l.service => k = l
  <2>1. 0 \in 0 .. MaxEdits
    OBVIOUS
  <2>2. \A s \in wanted : [service |-> s, by |-> 0] \in LineRows
    BY <1>1, <2>1 DEF LineRows
  <2>3. lines \subseteq LineRows /\ lines # {}
    BY <1>1, <2>2
  <2>4. \A l \in lines : l.service \in wanted /\ l = [service |-> l.service, by |-> 0]
    BY <1>1
  <2>5. \A s \in wanted : /\ [service |-> s, by |-> 0] \in lines
                           /\ [service |-> s, by |-> 0].service = s
    BY <1>1
  <2>6. ServicesOn(lines) = wanted
    BY <2>4, <2>5, ServicesAre
  <2> QED BY <2>3, <2>4, <2>6
<1>3. PackagesTypeOK
  <2>1. editor \in [Editors -> EditorRows]
    BY DEF AtRest, EditorRows
  <2>2. edits \in 0 .. MaxEdits 
    OBVIOUS
  <2>3. removed \in BOOLEAN /\ crossed \in BOOLEAN
    OBVIOUS
  <2> QED BY <1>2, <2>1, <2>2, <2>3 DEF PackagesTypeOK, EditorRows
<1>4. PackageIsAsAskedUnlessRaced
  BY <1>2 DEF PackageIsAsAskedUnlessRaced
<1>5. \A c \in Editors : HasSeenAll(editor[c])
  BY DEF HasSeenAll, AtRest
<1> QED BY <1>3, <1>4, <1>5 DEF PackagesInv

\* An edit that goes on by itself keeps it, if it has seen what it should.
LEMMA EditKeeps ==
    ASSUME PackagesInv, NEW c \in Editors, NEW r \in EditorRows, HasSeenAll(r),
           editor' = [editor EXCEPT ![c] = r],
           UNCHANGED <<lines, removed, edits, wanted, crossed>>
    PROVE  PackagesInv'
<1>1. PackagesTypeOK'
  BY DEF PackagesInv, PackagesTypeOK, EditorRows
<1>2. PackageIsAsAskedUnlessRaced'
  BY DEF PackagesInv, PackageIsAsAskedUnlessRaced
<1>3. ASSUME NEW d \in Editors PROVE HasSeenAll(editor[d])'
  <2>1. editor'[d] = IF d = c THEN r ELSE editor[d]
    BY DEF PackagesInv, PackagesTypeOK
  <2> QED BY <2>1 DEF PackagesInv, HasSeenAll
<1> QED BY <1>1, <1>2, <1>3 DEF PackagesInv

\* The lines of an edit that saves are those it saw it could write.
LEMMA SaveEditKeeps ==
    ASSUME PackagesInv, NEW c \in Editors, SaveEdit(c)
    PROVE  PackagesInv'
<1> USE PackagesAssumption
<1>1. PICK r : r = editor[c]
  OBVIOUS
<1>2. /\ r.at = "cleared" /\ ~removed /\ edits < MaxEdits
      /\ r.asked \cap ServicesOn(lines \ r.seen) = {}
      /\ lines' = (lines \ r.seen) \cup {[service |-> s, by |-> edits + 1] : s \in r.asked}
      /\ edits' = edits + 1 /\ wanted' = r.asked /\ crossed' = r.stale
      /\ editor' = [d \in Editors |-> IF d = c THEN AtRest
                                      ELSE [editor[d] EXCEPT !.stale = editor[d] # AtRest]]
      /\ removed' = removed
  BY <1>1 DEF SaveEdit, IndexAllowsLines
<1>3. r \in EditorRows /\ r.asked # {} /\ (~r.stale => r.seen = lines)
  BY <1>1, <1>2 DEF PackagesInv, PackagesTypeOK, EditorRows, HasSeenAll
<1>4. r.asked \in SUBSET Services /\ r.stale \in BOOLEAN
  BY <1>3 DEF EditorRows
<1>5. edits \in 0 .. MaxEdits /\ edits' \in 0 .. MaxEdits /\ lines \subseteq LineRows
  BY <1>2 DEF PackagesInv, PackagesTypeOK
<1>6. lines' \subseteq LineRows /\ lines' # {}
  <2>1. \A s \in r.asked : [service |-> s, by |-> edits + 1] \in LineRows
    BY <1>2, <1>4, <1>5 DEF LineRows
  <2> QED BY <1>2, <1>3, <1>5, <2>1
<1>7. \A k, l \in lines' : k.service = l.service => k = l
  <2>1. \A k, l \in lines \ r.seen : k.service = l.service => k = l
    BY <1>2 DEF PackagesInv, PackageIsAsAskedUnlessRaced
  <2>2. \A k \in lines \ r.seen : k.service \notin r.asked
    BY <1>2 DEF ServicesOn
  <2> QED BY <1>2, <2>1, <2>2
<1>8. ASSUME ~r.stale PROVE ServicesOn(lines') = r.asked
  <2>1. lines' = {[service |-> s, by |-> edits + 1] : s \in r.asked}
    BY <1>2, <1>3, <1>8
  <2>2. \A l \in lines' : l.service \in r.asked
    BY <2>1
  <2>3. \A s \in r.asked :
           /\ [service |-> s, by |-> edits + 1] \in lines'
           /\ [service |-> s, by |-> edits + 1].service = s
    BY <2>1
  <2> QED BY <2>2, <2>3, ServicesAre
<1>9. PackageIsAsAskedUnlessRaced'
  BY <1>2, <1>6, <1>7, <1>8 DEF PackageIsAsAskedUnlessRaced, ServicesOn
<1>10. ASSUME NEW d \in Editors
       PROVE  editor'[d] \in EditorRows /\ HasSeenAll(editor[d])'
  <2>1. AtRest \in EditorRows /\ AtRest.at = "rest" /\ AtRest.stale = FALSE
    BY DEF AtRest, EditorRows
  <2>2. CASE d = c
    BY <1>2, <2>1, <2>2 DEF HasSeenAll
  <2>3. CASE d # c /\ editor[d] = AtRest
    <3>1. editor'[d] = [AtRest EXCEPT !.stale = FALSE]
      BY <1>2, <2>3
    <3>2. editor'[d] \in EditorRows /\ editor'[d].at = "rest"
      BY <2>1, <3>1 DEF EditorRows
    <3> QED BY <3>2 DEF HasSeenAll
  <2>4. CASE d # c /\ editor[d] # AtRest
    <3>1. editor'[d] = [editor[d] EXCEPT !.stale = TRUE]
      BY <1>2, <2>4
    <3>2. editor[d] \in EditorRows /\ HasSeenAll(editor[d])
      BY DEF PackagesInv, PackagesTypeOK, EditorRows
    <3>3. /\ editor'[d] \in EditorRows /\ editor'[d].stale = TRUE /\ editor'[d].at = editor[d].at
          /\ editor'[d].asked = editor[d].asked
      BY <3>1, <3>2 DEF EditorRows
    <3> QED BY <3>2, <3>3 DEF HasSeenAll
  <2> QED BY <2>2, <2>3, <2>4
<1>11. editor' \in [Editors -> EditorRows]
  BY <1>2, <1>10
<1>12. crossed' \in BOOLEAN /\ wanted' \in Offers /\ removed' \in BOOLEAN
  BY <1>2, <1>3, <1>4 DEF PackagesInv, PackagesTypeOK, Offers
<1>13. PackagesTypeOK'
  BY <1>5, <1>6, <1>11, <1>12 DEF PackagesTypeOK, EditorRows
<1> QED BY <1>9, <1>10, <1>13 DEF PackagesInv

\* Every step of a package's lines.
LEMMA PackagesStep ==
    ASSUME PackagesInv, [PackagesNext]_packagesVars
    PROVE  PackagesInv'
<1>1. AtRest \in EditorRows /\ AtRest.at = "rest"
  BY DEF AtRest, EditorRows
<1>2. ASSUME NEW c \in Editors, AskEdit(c) PROVE PackagesInv'
  <2>1. PICK asked \in Offers :
           editor' = [editor EXCEPT ![c] = [AtRest EXCEPT !.at = "asked", !.asked = asked]]
    BY <1>2 DEF AskEdit
  <2>2. PICK r : r = [AtRest EXCEPT !.at = "asked", !.asked = asked]
    OBVIOUS
  <2>3. r \in EditorRows /\ r.at = "asked" /\ r.asked # {}
    BY <2>2 DEF AtRest, EditorRows, Offers
  <2>4. HasSeenAll(r)
    BY <2>3 DEF HasSeenAll
  <2> QED BY <1>2, <2>1, <2>2, <2>3, <2>4, EditKeeps DEF AskEdit
<1>3. ASSUME NEW c \in Editors, StartClearing(c) PROVE PackagesInv'
  <2>1. editor' = [editor EXCEPT ![c].at = "clearing", ![c].seen = lines]
    BY <1>3 DEF StartClearing, Snapshot
  <2>2. PICK r : r = [editor[c] EXCEPT !.at = "clearing", !.seen = lines]
    OBVIOUS
  <2>3. /\ editor[c] \in EditorRows /\ editor[c].asked # {} /\ lines \subseteq LineRows
        /\ editor \in [Editors -> EditorRows]
    BY <1>3 DEF StartClearing, PackagesInv, PackagesTypeOK, EditorRows, HasSeenAll
  <2>4. r \in EditorRows /\ HasSeenAll(r)
    BY <2>2, <2>3 DEF EditorRows, HasSeenAll
  <2>5. editor' = [editor EXCEPT ![c] = r]
    BY <2>1, <2>2, <2>3
  <2> QED BY <1>3, <2>4, <2>5, EditKeeps DEF StartClearing
<1>4. ASSUME NEW c \in Editors, Clear(c) PROVE PackagesInv'
  <2>1. editor' = [editor EXCEPT ![c].at = "cleared", ![c].seen = @ \cap lines]
    BY <1>4 DEF Clear
  <2>2. PICK r : r = [editor[c] EXCEPT !.at = "cleared", !.seen = editor[c].seen \cap lines]
    OBVIOUS
  <2>3. /\ editor[c] \in EditorRows /\ editor[c].at = "clearing" /\ HasSeenAll(editor[c])
        /\ editor \in [Editors -> EditorRows]
    BY <1>4 DEF Clear, PackagesInv, PackagesTypeOK, EditorRows
  <2>4. r \in EditorRows /\ HasSeenAll(r)
    BY <2>2, <2>3 DEF EditorRows, HasSeenAll
  <2>5. editor' = [editor EXCEPT ![c] = r]
    BY <2>1, <2>2, <2>3
  <2> QED BY <1>4, <2>4, <2>5, EditKeeps DEF Clear
<1>5. ASSUME NEW c \in Editors, EditFails(c) PROVE PackagesInv'
  BY <1>1, <1>5, EditKeeps DEF EditFails, HasSeenAll
<1>6. CASE DropPackage
  <2>1. removed' = TRUE /\ lines' = {} /\ UNCHANGED <<editor, edits, wanted, crossed>>
    BY <1>6 DEF DropPackage
  <2> QED BY <2>1 DEF PackagesInv, PackagesTypeOK, PackageIsAsAskedUnlessRaced, HasSeenAll
<1>7. CASE UNCHANGED packagesVars
  BY <1>7 DEF packagesVars, PackagesInv, PackagesTypeOK, PackageIsAsAskedUnlessRaced, HasSeenAll,
              ServicesOn, LineRows
<1> QED BY <1>2, <1>3, <1>4, <1>5, <1>6, <1>7, SaveEditKeeps DEF PackagesNext

-----------------------------------------------------------------------------
(***************************************************************************)
(* The targets.  A request to create one that was not overtaken still      *)
(* finds its row unused and no target of the same identity; the index      *)
(* stands in for the rest, but for the agency's own.                       *)
(***************************************************************************)
PlannerRows == [op : {"none", "create", "update", "delete"},
                on : Goals \cup {NoGoal}, row : GoalRows, stale : BOOLEAN]

\* A row that was written says what the checks let through.
Checked(row) == StartsRight(row.id.span, row.id.from, 1) /\ Sane(row.id.metric, row.over)

\* What a request is about to write, and what it found unless it was overtaken.
WillScore(r) ==
    /\ r.op # "none" => r.on \in Goals
    /\ r.op = "create" => r.row.is = "set" /\ Checked(r.row)
    /\ r.op \in {"update", "delete"} => goal[r.on].is # "new"
    /\ r.op = "update" => Sane(goal[r.on].id.metric, r.row.over)
    /\ r.op = "create" /\ ~r.stale =>
          goal[r.on].is = "new" /\ \A o \in SetGoals : goal[o].id # r.row.id

\* Two rows of one identity are the agency's own, and one was created by an overtaken request.
GoalsApart ==
    \A g, h \in Goals :
       g # h /\ goal[g].is # "new" /\ goal[h].is # "new" /\ goal[g].id = goal[h].id =>
          /\ goal[g].id.whose = Agency
          /\ goal[g].is = "set" /\ goal[h].is = "set" => g \in clashed \/ h \in clashed

TargetsInv ==
    /\ TargetsTypeOK /\ GoalsApart /\ ~turnedAway
    /\ \A g \in Goals : goal[g].is # "new" => Checked(goal[g])
    /\ \A p \in Planners : WillScore(planner[p])

\* A request at rest, and a row nobody has used.
LEMMA NewGoalIs ==
    /\ NewGoal \in GoalRows /\ NewGoal.is = "new"
    /\ Resting \in PlannerRows /\ Resting.op = "none" /\ Resting.stale = FALSE
<1> USE TargetsAssumption
<1>1. (CHOOSE m \in Months : TRUE) \in Months
  OBVIOUS
<1>2. NewGoal.id \in GoalIds
  BY <1>1 DEF NewGoal, GoalIds, Spans
<1>3. NewGoal \in GoalRows /\ NewGoal.is = "new"
  BY <1>2 DEF NewGoal, GoalRows
<1> QED BY <1>3 DEF Resting, PlannerRows

\* Nobody has committed to anything.
LEMMA TargetsBegin == TargetsInit => TargetsInv
<1> SUFFICES ASSUME TargetsInit PROVE TargetsInv
  OBVIOUS
<1> USE NewGoalIs DEF TargetsInit
<1>1. goal \in [Goals -> GoalRows] /\ planner \in [Planners -> PlannerRows]
  OBVIOUS
<1>2. TargetsTypeOK
  BY <1>1 DEF TargetsTypeOK, PlannerRows
<1>3. GoalsApart
  BY DEF GoalsApart
<1>4. \A p \in Planners : WillScore(planner[p])
  BY DEF WillScore
<1> QED BY <1>2, <1>3, <1>4 DEF TargetsInv

\* A request begins with what it has just checked.
LEMMA PlanKeeps ==
    ASSUME TargetsInv, NEW p \in Planners, NEW r \in PlannerRows, WillScore(r), Plan(p, r)
    PROVE  TargetsInv'
<1>1. planner' = [planner EXCEPT ![p] = r] /\ UNCHANGED <<goal, clashed, turnedAway>>
  BY DEF Plan
<1>2. TargetsTypeOK'
  BY <1>1 DEF TargetsInv, TargetsTypeOK, PlannerRows
<1>3. GoalsApart' /\ ~turnedAway' /\ \A g \in Goals : goal'[g].is # "new" => Checked(goal'[g])
  BY <1>1 DEF TargetsInv, GoalsApart
<1>4. ASSUME NEW q \in Planners PROVE WillScore(planner[q])'
  <2>1. planner'[q] = IF q = p THEN r ELSE planner[q]
    BY <1>1 DEF TargetsInv, TargetsTypeOK
  <2> QED BY <1>1, <2>1 DEF TargetsInv, WillScore, SetGoals
<1> QED BY <1>2, <1>3, <1>4 DEF TargetsInv, Checked, StartsRight, Sane

\* Whoever creates a target has found no other of its identity.
LEMMA CreateTargetKeeps ==
    ASSUME TargetsInv, NEW p \in Planners, NEW g \in Goals, CreateTarget(p, g)
    PROVE  TargetsInv'
<1>1. PICK id \in GoalIds, over \in BOOLEAN, day \in {1, 15} :
         /\ StartsRight(id.span, id.from, day) /\ Sane(id.metric, over)
         /\ \A o \in SetGoals : goal[o].id # id
         /\ Plan(p, [Resting EXCEPT !.op = "create", !.on = g,
                       !.row = [is |-> "set", id |-> id, over |-> over]])
  BY DEF CreateTarget
<1>2. PICK row : row = [is |-> "set", id |-> id, over |-> over]
  OBVIOUS
<1>3. PICK r : r = [Resting EXCEPT !.op = "create", !.on = g, !.row = row]
  OBVIOUS
<1>4. r = [op |-> "create", on |-> g, row |-> row, stale |-> FALSE]
  BY <1>3 DEF Resting
<1>5. row \in GoalRows /\ r \in PlannerRows
  BY <1>2, <1>4 DEF GoalRows, PlannerRows
<1>6. Checked(row)
  BY <1>1, <1>2 DEF Checked, StartsRight
<1>7. WillScore(r)
  BY <1>1, <1>2, <1>4, <1>6 DEF WillScore, CreateTarget
<1>8. Plan(p, r)
  BY <1>1, <1>2, <1>3
<1> QED BY <1>5, <1>7, <1>8, PlanKeeps

\* Whoever edits or deletes one has found it set.
LEMMA UpdateTargetKeeps ==
    ASSUME TargetsInv, NEW p \in Planners, NEW g \in Goals,
           UpdateTarget(p, g) \/ DeleteTarget(p, g)
    PROVE  TargetsInv'
<1>1. goal[g].is # "new"
  BY DEF UpdateTarget, DeleteTarget, SetGoals
<1>2. CASE UpdateTarget(p, g)
  <2>1. PICK over \in BOOLEAN :
           /\ Sane(goal[g].id.metric, over)
           /\ Plan(p, [Resting EXCEPT !.op = "update", !.on = g, !.row.over = over])
    BY <1>2 DEF UpdateTarget
  <2>2. PICK row : row = [NewGoal EXCEPT !.over = over]
    OBVIOUS
  <2>3. PICK r : r = [Resting EXCEPT !.op = "update", !.on = g, !.row.over = over]
    OBVIOUS
  <2>4. r = [op |-> "update", on |-> g, row |-> row, stale |-> FALSE]
    BY <2>2, <2>3 DEF Resting
  <2>5. row \in GoalRows /\ row.over = over
    BY <2>2, NewGoalIs DEF GoalRows
  <2>6. r \in PlannerRows
    BY <2>4, <2>5 DEF PlannerRows
  <2>7. WillScore(r)
    BY <1>1, <2>1, <2>4, <2>5 DEF WillScore
  <2> QED BY <2>1, <2>3, <2>6, <2>7, PlanKeeps
<1>3. CASE DeleteTarget(p, g)
  <2>1. PICK r : r = [Resting EXCEPT !.op = "delete", !.on = g]
    OBVIOUS
  <2>2. r = [op |-> "delete", on |-> g, row |-> NewGoal, stale |-> FALSE]
    BY <2>1 DEF Resting
  <2>3. r \in PlannerRows
    BY <2>2, NewGoalIs DEF PlannerRows
  <2>4. WillScore(r)
    BY <1>1, <2>2 DEF WillScore
  <2> QED BY <1>3, <2>1, <2>3, <2>4, PlanKeeps DEF DeleteTarget
<1> QED BY <1>2, <1>3

\* What a row is after a write: one that was checked, and of the identity it had.
LEMMA GoalAfter ==
    ASSUME TargetsInv, NEW p \in Planners, WriteTarget(p)
    PROVE  LET r == planner[p] new == NewGoalRow(planner[p]) IN
           /\ r \in PlannerRows /\ r.on \in Goals
           /\ new \in GoalRows /\ new.is # "new" /\ Checked(new)
           /\ goal' = [goal EXCEPT ![r.on] = new]
           /\ r.op = "create" => new = r.row /\ goal[r.on].is = "new" /\ IndexTakes(r.row.id)
           /\ r.op # "create" => /\ goal[r.on].is # "new" /\ new.id = goal[r.on].id
                                 /\ new.is = "set" => goal[r.on].is = "set"
<1>1. PICK r : r = planner[p]
  OBVIOUS
<1>2. PICK old : old = goal[r.on]
  OBVIOUS
<1>3. PICK new : new = NewGoalRow(r)
  OBVIOUS
<1>4. /\ r.op # "none" /\ (r.op = "create" => goal[r.on].is = "new" /\ IndexTakes(r.row.id))
      /\ goal' = [goal EXCEPT ![r.on] = new]
  BY <1>1, <1>3 DEF WriteTarget
<1>5. r \in PlannerRows /\ WillScore(r)
  BY <1>1 DEF TargetsInv, TargetsTypeOK, PlannerRows
<1>6. r.on \in Goals /\ old \in GoalRows
  BY <1>2, <1>4, <1>5 DEF WillScore, TargetsInv, TargetsTypeOK
<1>7. CASE r.op = "create"
  <2>1. new = r.row
    BY <1>3, <1>7 DEF NewGoalRow
  <2>2. new \in GoalRows /\ new.is = "set" /\ Checked(new)
    BY <1>5, <1>7, <2>1 DEF WillScore, PlannerRows
  <2> QED BY <1>1, <1>3, <1>4, <1>5, <1>6, <1>7, <2>1, <2>2
<1>8. CASE r.op = "update"
  <2>1. new = [old EXCEPT !.over = r.row.over]
    BY <1>2, <1>3, <1>8 DEF NewGoalRow
  <2>2. r.row.over \in BOOLEAN
    BY <1>5 DEF PlannerRows, GoalRows
  <2>3. new \in GoalRows /\ new.is = old.is /\ new.id = old.id /\ new.over = r.row.over
    BY <1>6, <2>1, <2>2 DEF GoalRows
  <2>4. old.is # "new" /\ Checked(old) /\ Sane(old.id.metric, r.row.over)
    BY <1>2, <1>5, <1>6, <1>8 DEF WillScore, TargetsInv
  <2>5. Checked(new)
    BY <2>3, <2>4 DEF Checked
  <2> QED BY <1>1, <1>2, <1>3, <1>4, <1>5, <1>6, <1>8, <2>3, <2>4, <2>5
<1>9. CASE r.op = "delete"
  <2>1. new = [old EXCEPT !.is = "deleted"]
    BY <1>2, <1>3, <1>9 DEF NewGoalRow
  <2>2. new \in GoalRows /\ new.is = "deleted" /\ new.id = old.id /\ new.over = old.over
    BY <1>6, <2>1 DEF GoalRows
  <2>3. old.is # "new" /\ Checked(old)
    BY <1>2, <1>5, <1>6, <1>9 DEF WillScore, TargetsInv
  <2>4. Checked(new)
    BY <2>2, <2>3 DEF Checked
  <2> QED BY <1>1, <1>2, <1>3, <1>4, <1>5, <1>6, <1>9, <2>2, <2>3, <2>4
<1> QED BY <1>4, <1>5, <1>7, <1>8, <1>9 DEF PlannerRows

\* Once a target was created, whoever is creating one is stale.
LEMMA PlannersAfter ==
    ASSUME TargetsInv, NEW p \in Planners, WriteTarget(p), NEW q \in Planners
    PROVE  /\ planner'[q] \in PlannerRows
           /\ planner'[q].op # "none" =>
                 /\ planner'[q].op = planner[q].op /\ planner'[q].on = planner[q].on
                 /\ planner'[q].row = planner[q].row
                 /\ planner'[q].op = "create" /\ ~planner'[q].stale =>
                       planner[p].op # "create" /\ ~planner[q].stale
<1>1. planner' = [x \in Planners |->
                     IF x = p THEN Resting
                     ELSE [planner[x] EXCEPT !.stale =
                              @ \/ (planner[p].op = "create" /\ planner[x].op = "create")]]
  BY DEF WriteTarget
<1>2. CASE q = p
  BY <1>1, <1>2, NewGoalIs
<1>3. CASE q # p
  <2>1. PICK s \in BOOLEAN :
           s = (planner[q].stale \/ (planner[p].op = "create" /\ planner[q].op = "create"))
    OBVIOUS
  <2>2. planner'[q] = [planner[q] EXCEPT !.stale = s]
    BY <1>1, <1>3, <2>1
  <2>3. planner[q] \in PlannerRows
    BY DEF TargetsInv, TargetsTypeOK, PlannerRows
  <2>4. /\ planner'[q] \in PlannerRows /\ planner'[q].stale = s /\ planner'[q].op = planner[q].op
        /\ planner'[q].on = planner[q].on /\ planner'[q].row = planner[q].row
    BY <2>2, <2>3 DEF PlannerRows
  <2> QED BY <2>1, <2>4
<1> QED BY <1>2, <1>3

\* A write keeps the targets apart.
LEMMA WriteTargetKeeps ==
    ASSUME TargetsInv, NEW p \in Planners, WriteTarget(p)
    PROVE  TargetsInv'
<1>1. PICK r : r = planner[p]
  OBVIOUS
<1>2. PICK new : new = NewGoalRow(planner[p])
  OBVIOUS
<1>3. /\ r \in PlannerRows /\ r.on \in Goals
      /\ new \in GoalRows /\ new.is # "new" /\ Checked(new)
      /\ goal' = [goal EXCEPT ![r.on] = new]
      /\ r.op = "create" => new = r.row /\ goal[r.on].is = "new" /\ IndexTakes(r.row.id)
      /\ r.op # "create" => /\ goal[r.on].is # "new" /\ new.id = goal[r.on].id
                            /\ new.is = "set" => goal[r.on].is = "set"
  BY <1>1, <1>2, GoalAfter
<1>4. /\ clashed' = IF r.stale THEN clashed \cup {r.on} ELSE clashed
      /\ turnedAway' = turnedAway
  BY <1>1 DEF WriteTarget
<1>5. r.stale \in BOOLEAN /\ clashed \subseteq Goals /\ goal \in [Goals -> GoalRows]
  BY <1>3 DEF PlannerRows, TargetsInv, TargetsTypeOK
<1>6. \A g \in Goals : goal'[g] = IF g = r.on THEN new ELSE goal[g]
  BY <1>3, <1>5
<1>7. planner' \in [Planners -> PlannerRows]
  <2>1. planner' = [q \in Planners |-> planner'[q]]
    BY DEF WriteTarget
  <2> QED BY <2>1, PlannersAfter
<1>8. TargetsTypeOK'
  BY <1>3, <1>4, <1>5, <1>7 DEF TargetsInv, TargetsTypeOK, PlannerRows
<1>9. ASSUME NEW g \in Goals, goal'[g].is # "new" PROVE Checked(goal'[g])
  BY <1>3, <1>6, <1>9 DEF TargetsInv
<1>10. ASSUME NEW g \in Goals, g # r.on, goal[g].is # "new", goal[g].id = new.id
       PROVE  /\ new.id.whose = Agency
              /\ (goal[g].is = "set" /\ new.is = "set" => g \in clashed' \/ r.on \in clashed')
  <2>1. CASE r.op = "create"
    <3>1. new.id.whose = Agency
      BY <1>3, <1>10, <2>1 DEF IndexTakes
    <3>2. ASSUME goal[g].is = "set", ~r.stale PROVE FALSE
      BY <1>1, <1>3, <1>10, <2>1, <3>2 DEF TargetsInv, WillScore, SetGoals
    <3> QED BY <1>4, <1>5, <3>1, <3>2
  <2>2. CASE r.op # "create"
    BY <1>3, <1>4, <1>5, <1>10, <2>2 DEF TargetsInv, GoalsApart
  <2> QED BY <2>1, <2>2
<1>11. GoalsApart'
  <2> SUFFICES ASSUME NEW g \in Goals, NEW h \in Goals, g # h, goal'[g].is # "new",
                      goal'[h].is # "new", goal'[g].id = goal'[h].id
               PROVE  /\ goal'[g].id.whose = Agency
                      /\ goal'[g].is = "set" /\ goal'[h].is = "set" => g \in clashed' \/ h \in clashed'
    BY DEF GoalsApart
  <2>1. CASE g # r.on /\ h # r.on
    BY <1>4, <1>5, <1>6, <2>1 DEF TargetsInv, GoalsApart
  <2>2. CASE g = r.on
    BY <1>6, <1>10, <2>2
  <2>3. CASE h = r.on
    BY <1>6, <1>10, <2>3
  <2> QED BY <2>1, <2>2, <2>3
<1>12. ASSUME NEW q \in Planners PROVE WillScore(planner[q])'
  <2>1. PICK a : a = planner[q]
    OBVIOUS
  <2>2. PICK b : b = planner'[q]
    OBVIOUS
  <2>3. /\ b.op # "none" => b.op = a.op /\ b.on = a.on /\ b.row = a.row
        /\ b.op = "create" /\ ~b.stale => r.op # "create" /\ ~a.stale
    BY <1>1, <2>1, <2>2, PlannersAfter
  <2>4. WillScore(a)
    BY <2>1 DEF TargetsInv
  <2>5. \A g \in Goals : goal[g].is # "new" => goal'[g].is # "new" /\ goal'[g].id = goal[g].id
    BY <1>3, <1>6
  <2>6. /\ b.op # "none" => b.on \in Goals
        /\ b.op = "create" => b.row.is = "set" /\ Checked(b.row)
        /\ b.op \in {"update", "delete"} => goal'[b.on].is # "new"
        /\ b.op = "update" => Sane(goal'[b.on].id.metric, b.row.over)
    BY <2>3, <2>4, <2>5 DEF WillScore
  <2>7. ASSUME b.op = "create", ~b.stale
        PROVE  goal'[b.on].is = "new" /\ \A o \in SetGoals' : goal'[o].id # b.row.id
    <3>1. r.op # "create" /\ a.op = "create" /\ ~a.stale /\ b.on = a.on /\ b.row = a.row
      BY <2>3, <2>7
    <3>2. goal[b.on].is = "new" /\ \A o \in SetGoals : goal[o].id # b.row.id
      BY <2>4, <3>1 DEF WillScore
    <3>3. b.on # r.on /\ b.on \in Goals
      BY <1>3, <2>6, <2>7, <3>1, <3>2
    <3>4. \A o \in SetGoals' : o \in SetGoals /\ goal'[o].id = goal[o].id
      BY <1>3, <1>6, <3>1 DEF SetGoals
    <3> QED BY <1>6, <3>2, <3>3, <3>4
  <2> QED BY <2>2, <2>6, <2>7 DEF WillScore, Checked, StartsRight, Sane
<1> QED BY <1>4, <1>8, <1>9, <1>11, <1>12 DEF TargetsInv, Checked, StartsRight, Sane

\* Whoever is turned away had been overtaken, or a deleted target was there.
LEMMA TargetRefusedKeeps ==
    ASSUME TargetsInv, NEW p \in Planners, TargetRefused(p)
    PROVE  TargetsInv'
<1>1. PICK r : r = planner[p]
  OBVIOUS
<1>2. /\ r.op = "create" /\ ~(goal[r.on].is = "new" /\ IndexTakes(r.row.id))
      /\ planner' = [planner EXCEPT ![p] = Resting]
      /\ turnedAway' = (turnedAway \/ (~r.stale /\ ~WasDeleted(r.row.id)))
      /\ UNCHANGED <<goal, clashed>>
  BY <1>1 DEF TargetRefused
<1>3. WillScore(r) /\ r \in PlannerRows /\ goal \in [Goals -> GoalRows]
  BY <1>1 DEF TargetsInv, TargetsTypeOK, PlannerRows
<1>4. ASSUME ~r.stale PROVE WasDeleted(r.row.id)
  <2>1. goal[r.on].is = "new" /\ \A o \in SetGoals : goal[o].id # r.row.id
    BY <1>2, <1>3, <1>4 DEF WillScore
  <2>2. PICK g \in Goals : goal[g].is # "new" /\ goal[g].id = r.row.id
    BY <1>2, <2>1 DEF IndexTakes
  <2>3. goal[g].is = "deleted"
    BY <1>3, <2>1, <2>2 DEF SetGoals, GoalRows
  <2> QED BY <2>2, <2>3 DEF WasDeleted
<1>5. ~turnedAway' /\ turnedAway' \in BOOLEAN
  BY <1>2, <1>4 DEF TargetsInv
<1>6. TargetsTypeOK'
  BY <1>2, <1>5, NewGoalIs DEF TargetsInv, TargetsTypeOK, PlannerRows
<1>7. GoalsApart' /\ \A g \in Goals : goal'[g].is # "new" => Checked(goal'[g])
  BY <1>2 DEF TargetsInv, GoalsApart
<1>8. ASSUME NEW q \in Planners PROVE WillScore(planner[q])'
  <2>1. planner'[q] = IF q = p THEN Resting ELSE planner[q]
    BY <1>2 DEF TargetsInv, TargetsTypeOK
  <2> QED BY <1>2, <2>1, NewGoalIs DEF TargetsInv, WillScore, SetGoals
<1> QED BY <1>5, <1>6, <1>7, <1>8 DEF TargetsInv, Checked, StartsRight, Sane

\* Every step of the targets.
LEMMA TargetsStep ==
    ASSUME TargetsInv, [TargetsNext]_targetsVars
    PROVE  TargetsInv'
<1>1. CASE UNCHANGED targetsVars
  BY <1>1 DEF targetsVars, TargetsInv, TargetsTypeOK, GoalsApart, WillScore, SetGoals, Checked,
              StartsRight, Sane
<1> QED BY <1>1, CreateTargetKeeps, UpdateTargetKeeps, WriteTargetKeeps, TargetRefusedKeeps
        DEF TargetsNext

\* A period that starts right is one month, a quarter of the year, or the year.
LEMMA MonthsAre ==
    ASSUME NEW id \in GoalIds, StartsRight(id.span, id.from, 1)
    PROVE  /\ id.from \in 0 .. 11
           /\ \/ MonthsOf(id) = id.from .. id.from
              \/ id.from \in {0, 3, 6, 9} /\ MonthsOf(id) = id.from .. id.from + 2
              \/ MonthsOf(id) = 0 .. 11
<1>1. id.from \in 0 .. 11 /\ id.span \in Spans
  BY TargetsAssumption DEF GoalIds
<1>2. CASE id.span = "month"
  <2>1. Length(id.span) = 1
    BY <1>2 DEF Length
  <2> QED BY <1>1, <2>1 DEF MonthsOf
<1>3. CASE id.span = "quarter"
  <2>1. Length(id.span) = 3
    BY <1>3 DEF Length
  <2>2. id.from % 3 = 0
    BY <1>3 DEF StartsRight
  <2>3. id.from \in {0, 3, 6, 9}
    BY <1>1, <2>2
  <2> QED BY <1>1, <2>1, <2>3 DEF MonthsOf
<1>4. CASE id.span = "year"
  <2>1. Length(id.span) = 12 /\ id.from = 0
    BY <1>4 DEF Length, StartsRight
  <2> QED BY <1>1, <2>1 DEF MonthsOf
<1> QED BY <1>1, <1>2, <1>3, <1>4 DEF Spans

\* Every number has one target, and its periods nest.
LEMMA TargetsSuffice == TargetsInv => TargetsScoreUnlessRaced
<1> SUFFICES ASSUME TargetsInv PROVE TargetsScoreUnlessRaced
  OBVIOUS
<1>1. OneVerdict
  BY DEF OneVerdict, TargetsInv, GoalsApart, SetGoals
<1>2. NoTypo
  BY DEF NoTypo, TargetsInv, Checked, SetGoals
<1>3. PeriodsNest
  <2> SUFFICES ASSUME NEW g \in SetGoals, NEW h \in SetGoals
               PROVE  \/ MonthsOf(goal[g].id) \subseteq MonthsOf(goal[h].id)
                      \/ MonthsOf(goal[h].id) \subseteq MonthsOf(goal[g].id)
                      \/ MonthsOf(goal[g].id) \cap MonthsOf(goal[h].id) = {}
    BY DEF PeriodsNest
  <2>1. PICK a : a = goal[g].id
    OBVIOUS
  <2>2. PICK b : b = goal[h].id
    OBVIOUS
  <2>3. /\ a \in GoalIds /\ StartsRight(a.span, a.from, 1)
        /\ b \in GoalIds /\ StartsRight(b.span, b.from, 1)
    BY <2>1, <2>2 DEF SetGoals, TargetsInv, TargetsTypeOK, GoalRows, Checked
  <2>4. /\ a.from \in 0 .. 11
        /\ \/ MonthsOf(a) = a.from .. a.from
           \/ a.from \in {0, 3, 6, 9} /\ MonthsOf(a) = a.from .. a.from + 2
           \/ MonthsOf(a) = 0 .. 11
    BY <2>3, MonthsAre
  <2>5. /\ b.from \in 0 .. 11
        /\ \/ MonthsOf(b) = b.from .. b.from
           \/ b.from \in {0, 3, 6, 9} /\ MonthsOf(b) = b.from .. b.from + 2
           \/ MonthsOf(b) = 0 .. 11
    BY <2>3, MonthsAre
  <2>6. \/ MonthsOf(a) \subseteq MonthsOf(b) \/ MonthsOf(b) \subseteq MonthsOf(a)
        \/ MonthsOf(a) \cap MonthsOf(b) = {}
    <3>1. MonthsOf(a) \subseteq 0 .. 11 /\ MonthsOf(b) \subseteq 0 .. 11
      BY <2>4, <2>5
    <3>2. CASE MonthsOf(a) = 0 .. 11 \/ MonthsOf(b) = 0 .. 11
      BY <3>1, <3>2
    <3>3. CASE MonthsOf(a) = a.from .. a.from
      <4>1. MonthsOf(a) = {a.from}
        BY <2>4, <3>3
      <4> QED BY <4>1
    <3>4. CASE MonthsOf(b) = b.from .. b.from
      <4>1. MonthsOf(b) = {b.from}
        BY <2>5, <3>4
      <4> QED BY <4>1
    <3>5. CASE /\ a.from \in {0, 3, 6, 9} /\ MonthsOf(a) = a.from .. a.from + 2
               /\ b.from \in {0, 3, 6, 9} /\ MonthsOf(b) = b.from .. b.from + 2
      <4>1. CASE a.from = b.from
        BY <3>5, <4>1
      <4>2. CASE a.from # b.from
        <5>1. a.from + 2 < b.from \/ b.from + 2 < a.from
          BY <3>5, <4>2
        <5>2. ASSUME NEW x \in MonthsOf(a), x \in MonthsOf(b) PROVE FALSE
          BY <3>5, <5>1, <5>2
        <5> QED BY <5>2
      <4> QED BY <4>1, <4>2
    <3> QED BY <2>4, <2>5, <3>2, <3>3, <3>4, <3>5
  <2> QED BY <2>1, <2>2, <2>6
<1> QED BY <1>1, <1>2, <1>3 DEF TargetsScoreUnlessRaced, TargetsInv

-----------------------------------------------------------------------------
(***************************************************************************)
(* The vault.  A request that was not overtaken still reaches what it is   *)
(* about to show or write; and a row that is kept has no deletion in its   *)
(* log, until one that was overtaken has written.                          *)
(***************************************************************************)
Tales == {"reveal", "create", "update", "delete"}
HandRows == [op : {"none"} \cup Tales, who : Colleagues \cup {Nobody}, scope : Scopes,
             what : Things \cup {NoThing}, to : Places \cup {NoPlace},
             moves : BOOLEAN, stale : BOOLEAN]

VaultTypes ==
    /\ VaultTypeOK
    /\ told \in [Things -> Seq(Tales)] /\ shown \in [Things -> Nat]
    /\ astray \in BOOLEAN /\ overtaken \in BOOLEAN

\* What a row and its log say of one another.
LogIsTrue(k) ==
    /\ Tells(k, "reveal") = shown[k]
    /\ (told[k] # <<>>) = (thing[k].is # "new")
    /\ told[k] # <<>> => told[k][1] = "create"
    /\ ~overtaken => \A i \in DOMAIN told[k] :
                        told[k][i] = "delete" => i = Len(told[k]) /\ thing[k].is # "kept"

\* What a request has found, and still finds unless it was overtaken.
StillReaches(r) ==
    /\ r.op # "none" => r.what \in Things
    /\ r.op \in {"reveal", "update", "delete"} => thing[r.what].is # "new"
    /\ r.moves => r.op = "update"
    /\ r.op \in {"reveal", "update"} /\ ~r.stale =>
          /\ Sees(r.who, reach[r.who], r.what)
          /\ r.moves => r.to \in PlacesOf(r.who, reach[r.who])
    /\ r.op = "delete" /\ ~r.stale => thing[r.what].is = "kept"

VaultInv ==
    /\ VaultTypes /\ ReachKeptUnlessRaced
    /\ kind = "credential" => \A k \in Things : LogIsTrue(k)
    /\ \A h \in Hands : StillReaches(hand[h])

\* How often a log tells of x.
Count(s, x) == Cardinality({i \in DOMAIN s : s[i] = x})

\* One more row in a log is one more of what it tells.
LEMMA CountAppend ==
    ASSUME NEW T, NEW s \in Seq(T), NEW op \in T, NEW x
    PROVE  /\ Count(s, x) \in Nat
           /\ op = x => Count(Append(s, op), x) = Count(s, x) + 1
           /\ op # x => Count(Append(s, op), x) = Count(s, x)
<1> DEFINE before == {i \in DOMAIN s : s[i] = x}
           after  == {i \in DOMAIN Append(s, op) : Append(s, op)[i] = x}
<1>1. /\ Len(s) \in Nat /\ DOMAIN s = 1 .. Len(s)
      /\ DOMAIN Append(s, op) = 1 .. Len(s) + 1
      /\ \A i \in 1 .. Len(s) : Append(s, op)[i] = s[i]
      /\ Append(s, op)[Len(s) + 1] = op
  OBVIOUS
<1>2. IsFiniteSet(1 .. Len(s))
  <2>1. Len(s) \in Int /\ 1 \in Int
    BY <1>1
  <2> QED BY <2>1, FS_Interval
<1>3. IsFiniteSet(before) /\ Cardinality(before) \in Nat
  BY <1>1, <1>2, FS_Subset, FS_CardinalityType
<1>4. ASSUME op = x PROVE Cardinality(after) = Cardinality(before) + 1
  <2>1. after = before \cup {Len(s) + 1} /\ Len(s) + 1 \notin before
    BY <1>1, <1>4
  <2> HIDE DEF before, after
  <2> QED BY <1>3, <2>1, FS_AddElement
<1>5. ASSUME op # x PROVE Cardinality(after) = Cardinality(before)
  <2>1. after = before
    BY <1>1, <1>5
  <2> HIDE DEF before, after
  <2> QED BY <1>3, <2>1
<1> QED BY <1>3, <1>4, <1>5 DEF Count

\* A hand that is free.
LEMMA FreeIs == Free \in HandRows /\ StillReaches(Free) /\ Free.stale = FALSE
  BY DEF Free, HandRows, StillReaches, Scopes

\* Nothing is kept yet.
LEMMA VaultBegins == VaultInit => VaultInv
<1> SUFFICES ASSUME VaultInit PROVE VaultInv
  OBVIOUS
<1> USE VaultAssumption DEF VaultInit
<1>1. hand \in [Hands -> HandRows] /\ \A h \in Hands : StillReaches(hand[h])
  BY FreeIs
<1>2. thing \in [Things -> ThingRows] /\ moves \in 0 .. MaxMoves
  BY DEF ThingRows
<1>3. mine \in [Colleagues -> SUBSET Places] /\ reach \in [Colleagues -> Scopes]
  BY DEF Scopes
<1>4. told \in [Things -> Seq(Tales)] /\ \A k \in Things : told[k] = <<>> /\ Len(told[k]) = 0
  OBVIOUS
<1>5. shown \in [Things -> Nat] /\ astray \in BOOLEAN /\ overtaken \in BOOLEAN
  OBVIOUS
<1>6. VaultTypes
  BY <1>1, <1>2, <1>3, <1>4, <1>5 DEF VaultTypes, VaultTypeOK, HandRows, Tales
<1>7. ASSUME NEW k \in Things PROVE LogIsTrue(k)
  <2>1. {i \in DOMAIN told[k] : told[k][i] = "reveal"} = {}
    BY <1>4
  <2>2. Tells(k, "reveal") = shown[k]
    BY <2>1, FS_EmptySet DEF Tells
  <2> QED BY <1>4, <2>2 DEF LogIsTrue
<1> QED BY <1>1, <1>6, <1>7 DEF VaultInv, ReachKeptUnlessRaced

\* A request begins with what it has just checked.
LEMMA TakeKeeps ==
    ASSUME VaultInv, NEW h \in Hands, NEW r \in HandRows, StillReaches(r), Take(h, r)
    PROVE  VaultInv'
<1>1. /\ hand' = [hand EXCEPT ![h] = r]
      /\ UNCHANGED <<kind, thing, told, on, mine, reach, moves, shown, astray, overtaken>>
  BY DEF Take
<1>2. VaultTypes'
  BY <1>1 DEF VaultInv, VaultTypes, VaultTypeOK, HandRows, Tales
<1>3. ReachKeptUnlessRaced' /\ (kind' = "credential" => \A k \in Things : LogIsTrue(k)')
  BY <1>1 DEF VaultInv, ReachKeptUnlessRaced, LogIsTrue, Tells
<1>4. ASSUME NEW g \in Hands PROVE StillReaches(hand[g])'
  <2>1. hand'[g] = IF g = h THEN r ELSE hand[g]
    BY <1>1 DEF VaultInv, VaultTypes, VaultTypeOK
  <2> QED BY <1>1, <2>1 DEF VaultInv, StillReaches, Sees, PlacesOf
<1> QED BY <1>2, <1>3, <1>4 DEF VaultInv

\* What somebody asks, with the scope that the grid gives them.
LEMMA AskingIs ==
    ASSUME VaultInv, NEW op \in Tales, NEW p \in Colleagues, NEW k \in Things,
           NEW to \in Places \cup {NoPlace}
    PROVE  /\ Asking(op, p, k) = [op |-> op, who |-> p, scope |-> reach[p], what |-> k,
                                  to |-> NoPlace, moves |-> FALSE, stale |-> FALSE]
           /\ Asking(op, p, k) \in HandRows
           /\ [Asking(op, p, k) EXCEPT !.to = to] \in HandRows
           /\ [Asking(op, p, k) EXCEPT !.to = to, !.moves = TRUE] \in HandRows
<1>1. reach[p] \in Scopes
  BY DEF VaultInv, VaultTypes, VaultTypeOK
<1>2. PICK a : a = Asking(op, p, k)
  OBVIOUS
<1>3. a = [op |-> op, who |-> p, scope |-> reach[p], what |-> k, to |-> NoPlace,
           moves |-> FALSE, stale |-> FALSE]
  BY <1>2 DEF Asking, Free
<1>4. a \in HandRows
  BY <1>1, <1>3 DEF HandRows
<1>5. [a EXCEPT !.to = to] \in HandRows
  BY <1>4 DEF HandRows
<1>6. [a EXCEPT !.to = to, !.moves = TRUE] \in HandRows
  BY <1>4 DEF HandRows
<1> QED BY <1>2, <1>3, <1>4, <1>5, <1>6

\* What is there to be seen is not new, and is in reach.
LEMMA AskKeeps ==
    ASSUME VaultInv, NEW h \in Hands, NEW p \in Colleagues, NEW k \in Things,
           NEW op \in Tales, Take(h, Asking(op, p, k)),
           \/ op \in {"reveal", "update"} /\ Sees(p, reach[p], k)
           \/ op = "delete" /\ thing[k].is = "kept"
    PROVE  VaultInv'
<1>1. NoPlace \in Places \cup {NoPlace}
  OBVIOUS
<1>2. PICK r : r = Asking(op, p, k)
  OBVIOUS
<1>3. r \in HandRows /\ r = [op |-> op, who |-> p, scope |-> reach[p], what |-> k,
                             to |-> NoPlace, moves |-> FALSE, stale |-> FALSE]
  BY <1>1, <1>2, AskingIs
<1>4. StillReaches(r)
  BY <1>3 DEF StillReaches, Sees
<1> QED BY <1>2, <1>3, <1>4, TakeKeeps

\* What is made is made of a row that is new.
LEMMA MakeKeeps ==
    ASSUME VaultInv, NEW h \in Hands, NEW p \in Colleagues, NEW k \in Things,
           NEW to \in Places \cup {NoPlace},
           Take(h, [Asking("create", p, k) EXCEPT !.to = to])
    PROVE  VaultInv'
<1>1. "create" \in Tales
  BY DEF Tales
<1>2. PICK r : r = [Asking("create", p, k) EXCEPT !.to = to]
  OBVIOUS
<1>3. r \in HandRows /\ r = [op |-> "create", who |-> p, scope |-> reach[p], what |-> k,
                             to |-> to, moves |-> FALSE, stale |-> FALSE]
  BY <1>1, <1>2, AskingIs DEF Asking, Free
<1>4. StillReaches(r)
  BY <1>3 DEF StillReaches
<1> QED BY <1>2, <1>3, <1>4, TakeKeeps

\* What is carried is carried to a place in reach.
LEMMA CarryKeeps ==
    ASSUME VaultInv, NEW h \in Hands, NEW p \in Colleagues, NEW k \in Things,
           NEW to \in Places \cup {NoPlace}, kind = "credential", Sees(p, reach[p], k),
           MayCarry(p, reach[p], to),
           Take(h, [Asking("update", p, k) EXCEPT !.to = to, !.moves = TRUE])
    PROVE  VaultInv'
<1>1. "update" \in Tales
  BY DEF Tales
<1>2. PICK r : r = [Asking("update", p, k) EXCEPT !.to = to, !.moves = TRUE]
  OBVIOUS
<1>3. r \in HandRows /\ r = [op |-> "update", who |-> p, scope |-> reach[p], what |-> k,
                             to |-> to, moves |-> TRUE, stale |-> FALSE]
  BY <1>1, <1>2, AskingIs DEF Asking, Free
<1>4. reach[p] # "none"
  BY DEF Sees, PlacesOf
<1>5. to \in PlacesOf(p, reach[p])
  BY <1>4 DEF MayCarry, PlacesOf
<1>6. StillReaches(r)
  BY <1>3, <1>5 DEF StillReaches, Sees
<1> QED BY <1>2, <1>3, <1>6, TakeKeeps

\* What every route comes to.
LEMMA VaultRoutesKeep ==
    ASSUME VaultInv, NEW h \in Hands, NEW p \in Colleagues, NEW k \in Things,
           VaultRoutes(h, p, k) \/ ProjectLinkRoutes(h, p, k) \/ ClientLinkRoutes(h, p, k)
    PROVE  VaultInv'
<1> USE DEF Tales
<1>1. CASE RevealCredential(h, p, k)
  BY <1>1, AskKeeps DEF RevealCredential
<1>2. CASE CreateCredential(h, p, k)
  BY <1>2, MakeKeeps DEF CreateCredential
<1>3. CASE UpdateCredential(h, p, k)
  BY <1>3, AskKeeps, CarryKeeps DEF UpdateCredential
<1>4. CASE DeleteCredential(h, p, k)
  BY <1>4, AskKeeps DEF DeleteCredential
<1>5. CASE CreateProjectLink(h, p, k) \/ CreateClientLink(h, p, k)
  BY <1>5, MakeKeeps DEF CreateProjectLink, CreateClientLink, MakeLink
<1>6. CASE UpdateProjectLink(h, p, k) \/ UpdateClientLink(h, p, k)
  BY <1>6, AskKeeps DEF UpdateProjectLink, UpdateClientLink, ChangeLink
<1>7. CASE RemoveProjectLink(h, p, k) \/ RemoveClientLink(h, p, k)
  BY <1>7, AskKeeps DEF RemoveProjectLink, RemoveClientLink, ChangeLink, Sees
<1> QED BY <1>1, <1>2, <1>3, <1>4, <1>5, <1>6, <1>7
        DEF VaultRoutes, ProjectLinkRoutes, ClientLinkRoutes

\* Once a request has written, every other one is stale.
LEMMA HandsAfter ==
    ASSUME VaultInv, NEW h, hand' = Overtake(h), NEW g \in Hands
    PROVE  /\ hand'[g] \in HandRows
           /\ \/ hand'[g] = Free
              \/ hand'[g] = [hand[g] EXCEPT !.stale = TRUE]
<1>1. hand'[g] = IF g = h THEN Free ELSE [hand[g] EXCEPT !.stale = hand[g] # Free]
  BY DEF Overtake
<1>2. hand[g] \in HandRows
  BY DEF VaultInv, VaultTypes, VaultTypeOK, HandRows, Tales
<1>3. CASE g = h
  BY <1>1, <1>3, FreeIs
<1>4. CASE g # h /\ hand[g] = Free
  <2>1. hand'[g] = [Free EXCEPT !.stale = FALSE]
    BY <1>1, <1>4
  <2>2. hand'[g] = Free
    BY <2>1 DEF Free
  <2> QED BY <2>2, FreeIs
<1>5. CASE g # h /\ hand[g] # Free
  <2>1. hand'[g] = [hand[g] EXCEPT !.stale = TRUE]
    BY <1>1, <1>5
  <2> QED BY <1>2, <2>1 DEF HandRows
<1> QED BY <1>3, <1>4, <1>5

\* A stale request may rely on little, and on that it still may.
LEMMA StaleReaches ==
    ASSUME VaultInv, NEW h, hand' = Overtake(h), kind' = kind,
           \A k \in Things : thing[k].is # "new" => thing'[k].is # "new"
    PROVE  hand' \in [Hands -> HandRows] /\ \A g \in Hands : StillReaches(hand[g])'
<1>1. ASSUME NEW g \in Hands PROVE StillReaches(hand[g])'
  <2>1. CASE hand'[g] = Free
    BY <2>1 DEF StillReaches, Free
  <2>2. CASE hand'[g] = [hand[g] EXCEPT !.stale = TRUE]
    <3>1. hand[g] \in HandRows /\ StillReaches(hand[g])
      BY DEF VaultInv, VaultTypes, VaultTypeOK, HandRows, Tales
    <3>2. /\ hand'[g].op = hand[g].op /\ hand'[g].what = hand[g].what
          /\ hand'[g].moves = hand[g].moves /\ hand'[g].stale = TRUE
      BY <2>2, <3>1 DEF HandRows
    <3> QED BY <3>1, <3>2 DEF StillReaches
  <2> QED BY <2>1, <2>2, HandsAfter
<1>2. hand' = [g \in Hands |-> hand'[g]]
  BY DEF Overtake
<1> QED BY <1>1, <1>2, HandsAfter

\* A write keeps the log true of its row, and strays only when it is overtaken.
LEMMA WriteThingKeeps ==
    ASSUME VaultInv, NEW h \in Hands, WriteThing(h)
    PROVE  VaultInv'
<1> USE VaultAssumption
<1>1. PICK r : r = hand[h]
  OBVIOUS
<1>2. PICK k : k = r.what
  OBVIOUS
<1>3. PICK new : new = NewThing(r)
  OBVIOUS
<1>4. PICK s : s = told[k]
  OBVIOUS
<1>5. /\ r.op # "none" /\ Len(s) < MaxTold /\ (r.op = "create" => thing[k].is = "new")
      /\ thing' = [thing EXCEPT ![k] = new]
      /\ told' = [told EXCEPT ![k] = IF kind = "credential" THEN Append(s, r.op) ELSE s]
      /\ shown' = IF r.op = "reveal" THEN [shown EXCEPT ![k] = @ + 1] ELSE shown
      /\ astray' = (astray \/ (/\ r.op \in {"reveal", "update"}
                               /\ {thing[k].at, new.at} \ PlacesOf(r.who, reach[r.who]) # {}))
      /\ overtaken' = (overtaken \/ r.stale)
      /\ hand' = Overtake(h)
      /\ UNCHANGED <<kind, on, mine, reach, moves>>
  BY <1>1, <1>2, <1>3, <1>4 DEF WriteThing, TellTale
<1>6. r \in HandRows /\ StillReaches(r)
  BY <1>1 DEF VaultInv, VaultTypes, VaultTypeOK, HandRows, Tales
<1>7. k \in Things /\ r.op \in Tales /\ r.stale \in BOOLEAN
  BY <1>2, <1>5, <1>6 DEF StillReaches, HandRows
<1>8. s \in Seq(Tales) /\ thing[k] \in ThingRows /\ shown[k] \in Nat
  BY <1>4, <1>7 DEF VaultInv, VaultTypes, VaultTypeOK
<1>9. new = [is |-> IF r.op = "delete" THEN "deleted" ELSE IF r.op = "create" THEN "kept"
                    ELSE thing[k].is,
             at |-> IF r.op = "create" \/ r.moves THEN r.to ELSE thing[k].at]
  BY <1>2, <1>3 DEF NewThing
<1>10. new.is \in {"new", "kept", "deleted"} /\ new.at \in Places \cup {NoPlace}
  BY <1>6, <1>8, <1>9 DEF ThingRows, HandRows
<1>11. new \in ThingRows
  BY <1>9, <1>10 DEF ThingRows
<1>12. new.is # "new" /\ (r.op # "create" => thing[k].is # "new")
  BY <1>2, <1>6, <1>7, <1>9 DEF StillReaches, Tales
<1>13. /\ thing' \in [Things -> ThingRows]
       /\ \A x \in Things : thing'[x] = IF x = k THEN new ELSE thing[x]
  BY <1>5, <1>11 DEF VaultInv, VaultTypes, VaultTypeOK
<1>14. hand' \in [Hands -> HandRows] /\ \A g \in Hands : StillReaches(hand[g])'
  BY <1>5, <1>12, <1>13, StaleReaches
<1>15. PICK t : t = told'[k]
  OBVIOUS
<1>16. /\ told' \in [Things -> Seq(Tales)] /\ t \in Seq(Tales) /\ Len(t) <= MaxTold
       /\ \A x \in Things : x # k => told'[x] = told[x]
       /\ t = IF kind = "credential" THEN Append(s, r.op) ELSE s
  BY <1>5, <1>7, <1>8, <1>15 DEF VaultInv, VaultTypes
<1>17. /\ shown' \in [Things -> Nat]
       /\ \A x \in Things : shown'[x] = shown[x] + IF x = k /\ r.op = "reveal" THEN 1 ELSE 0
  <2>1. CASE r.op = "reveal"
    BY <1>5, <1>7, <1>8, <2>1 DEF VaultInv, VaultTypes
  <2>2. CASE r.op # "reveal"
    BY <1>5, <2>2 DEF VaultInv, VaultTypes
  <2> QED BY <2>1, <2>2
<1>18. ReachKeptUnlessRaced'
  <2>1. ASSUME r.op \in {"reveal", "update"}, ~r.stale
        PROVE  {thing[k].at, new.at} \subseteq PlacesOf(r.who, reach[r.who])
    <3>1. Sees(r.who, reach[r.who], k) /\ (r.moves => r.to \in PlacesOf(r.who, reach[r.who]))
      BY <1>2, <1>6, <2>1 DEF StillReaches
    <3> QED BY <1>9, <2>1, <3>1 DEF Sees
  <2>2. astray => overtaken
    BY DEF VaultInv, ReachKeptUnlessRaced
  <2> QED BY <1>5, <1>7, <2>1, <2>2 DEF ReachKeptUnlessRaced
<1>19. VaultTypes'
  <2>1. astray' \in BOOLEAN /\ overtaken' \in BOOLEAN
    BY <1>5
  <2>2. \A x \in Things : Len(told'[x]) <= MaxTold
    BY <1>15, <1>16 DEF VaultInv, VaultTypes, VaultTypeOK
  <2>3. /\ kind' \in Kinds /\ on' \in [Colleagues -> SUBSET Places]
        /\ mine' \in [Colleagues -> SUBSET Places] /\ reach' \in [Colleagues -> Scopes]
        /\ moves' \in 0 .. MaxMoves
    BY <1>5 DEF VaultInv, VaultTypes, VaultTypeOK
  <2> QED BY <1>13, <1>14, <1>16, <1>17, <2>1, <2>2, <2>3
          DEF VaultTypes, VaultTypeOK, HandRows, Tales
<1>20. ASSUME kind' = "credential", NEW x \in Things PROVE LogIsTrue(x)'
  <2>1. LogIsTrue(x) /\ kind = "credential"
    BY <1>5, <1>20 DEF VaultInv
  <2>2. CASE x # k
    <3>1. told'[x] = told[x] /\ thing'[x] = thing[x] /\ shown'[x] = shown[x]
      BY <1>13, <1>16, <1>17, <2>2 DEF VaultInv, VaultTypes
    <3>2. ~overtaken' => ~overtaken
      BY <1>5
    <3> QED BY <2>1, <3>1, <3>2 DEF LogIsTrue, Tells
  <2>3. CASE x = k
    <3>1. t = Append(s, r.op) /\ told'[x] = t /\ thing'[x] = new
      BY <1>13, <1>15, <1>16, <2>1, <2>3
    <3>2. Tells(x, "reveal")' = shown'[x]
      <4>1. /\ Count(s, "reveal") \in Nat
            /\ r.op = "reveal" => Count(t, "reveal") = Count(s, "reveal") + 1
            /\ r.op # "reveal" => Count(t, "reveal") = Count(s, "reveal")
        BY <1>7, <1>8, <3>1, CountAppend
      <4>2. Count(s, "reveal") = shown[x]
        BY <1>4, <2>1, <2>3 DEF LogIsTrue, Tells, Count
      <4>3. shown'[x] = shown[x] + IF r.op = "reveal" THEN 1 ELSE 0
        BY <1>17, <2>3
      <4>4. Tells(x, "reveal")' = Count(t, "reveal")
        BY <3>1 DEF Tells, Count
      <4> QED BY <4>1, <4>2, <4>3, <4>4
    <3>3. /\ Len(s) \in Nat /\ DOMAIN s = 1 .. Len(s)
          /\ Len(t) = Len(s) + 1 /\ DOMAIN t = 1 .. Len(s) + 1
          /\ \A i \in 1 .. Len(s) : t[i] = s[i]
          /\ t[Len(s) + 1] = r.op /\ t # <<>>
      BY <1>7, <1>8, <3>1
    <3>4. t[1] = "create"
      <4>1. CASE s = <<>>
        <5>1. thing[k].is = "new" /\ Len(s) = 0
          BY <1>4, <2>1, <2>3, <4>1 DEF LogIsTrue
        <5>2. r.op = "create"
          BY <1>12, <5>1
        <5> QED BY <3>3, <5>1, <5>2
      <4>2. CASE s # <<>>
        <5>1. Len(s) >= 1 /\ s[1] = "create"
          BY <1>4, <1>8, <2>1, <2>3, <4>2 DEF LogIsTrue
        <5> QED BY <3>3, <5>1
      <4> QED BY <4>1, <4>2
    <3>5. ASSUME ~overtaken', NEW i \in DOMAIN t, t[i] = "delete"
          PROVE  i = Len(t) /\ new.is # "kept"
      <4>1. ~overtaken /\ ~r.stale
        BY <1>5, <3>5
      <4>2. CASE i = Len(s) + 1
        <5>1. r.op = "delete"
          BY <3>3, <3>5, <4>2
        <5> QED BY <1>9, <3>3, <4>2, <5>1
      <4>3. CASE i \in 1 .. Len(s)
        <5>1. s[i] = "delete"
          BY <3>3, <3>5, <4>3
        <5>2. thing[k].is # "kept" /\ s # <<>>
          BY <1>4, <2>1, <2>3, <3>3, <4>1, <4>3, <5>1 DEF LogIsTrue
        <5>3. thing[k].is # "new"
          BY <1>4, <2>1, <2>3, <5>2 DEF LogIsTrue
        <5>4. r.op \in {"reveal", "update", "delete"}
          BY <1>5, <1>7, <5>3 DEF Tales
        <5>5. thing[k].is = "kept"
          BY <1>2, <1>6, <4>1, <5>4 DEF StillReaches, Sees
        <5> QED BY <5>2, <5>5
      <4> QED BY <3>3, <4>2, <4>3
    <3> QED BY <1>12, <3>1, <3>2, <3>3, <3>4, <3>5 DEF LogIsTrue
  <2> QED BY <2>2, <2>3
<1> QED BY <1>14, <1>18, <1>19, <1>20 DEF VaultInv

\* Whoever is regraded makes every request under way stale.
LEMMA RegradeKeeps ==
    ASSUME VaultInv, NEW p \in Colleagues, Regrade(p)
    PROVE  VaultInv'
<1> USE VaultAssumption
<1>1. /\ moves < MaxMoves /\ moves' = moves + 1 /\ hand' = Overtake(Nobody)
      /\ UNCHANGED <<kind, thing, told, mine, shown, astray, overtaken>>
  BY DEF Regrade
<1>2. on' \in [Colleagues -> SUBSET Places] /\ reach' \in [Colleagues -> Scopes]
  <2>1. on \in [Colleagues -> SUBSET Places] /\ reach \in [Colleagues -> Scopes]
    BY DEF VaultInv, VaultTypes, VaultTypeOK
  <2>2. CASE \E ps \in SUBSET Places : on' = [on EXCEPT ![p] = ps] /\ UNCHANGED reach
    BY <2>1, <2>2
  <2>3. CASE \E s \in Scopes : reach' = [reach EXCEPT ![p] = s] /\ UNCHANGED on
    BY <2>1, <2>3
  <2> QED BY <2>2, <2>3 DEF Regrade
<1>3. hand' \in [Hands -> HandRows] /\ \A g \in Hands : StillReaches(hand[g])'
  BY <1>1, StaleReaches
<1>4. moves' \in 0 .. MaxMoves
  BY <1>1 DEF VaultInv, VaultTypes, VaultTypeOK
<1>5. VaultTypes'
  BY <1>1, <1>2, <1>3, <1>4 DEF VaultInv, VaultTypes, VaultTypeOK, HandRows, Tales
<1>6. ReachKeptUnlessRaced' /\ (kind' = "credential" => \A k \in Things : LogIsTrue(k)')
  BY <1>1 DEF VaultInv, ReachKeptUnlessRaced, LogIsTrue, Tells
<1> QED BY <1>3, <1>5, <1>6 DEF VaultInv

\* Every step of the vault.
LEMMA VaultStep ==
    ASSUME VaultInv, [VaultNext]_vaultVars
    PROVE  VaultInv'
<1>1. CASE UNCHANGED vaultVars
  <2>1. UNCHANGED <<kind, thing, told, on, mine, reach, hand, moves, shown, astray, overtaken>>
    BY <1>1 DEF vaultVars
  <2>2. VaultTypes'
    BY <2>1 DEF VaultInv, VaultTypes, VaultTypeOK
  <2>3. ReachKeptUnlessRaced' /\ (kind' = "credential" => \A k \in Things : LogIsTrue(k)')
    BY <2>1 DEF VaultInv, ReachKeptUnlessRaced, LogIsTrue, Tells
  <2>4. \A h \in Hands : StillReaches(hand[h])'
    BY <2>1 DEF VaultInv, StillReaches, Sees, PlacesOf
  <2> QED BY <2>2, <2>3, <2>4 DEF VaultInv
<1> QED BY <1>1, VaultRoutesKeep, WriteThingKeeps, RegradeKeeps DEF VaultNext

\* The log answers, and nobody strays.
LEMMA VaultSuffices == VaultInv => VaultHoldsUnlessRaced
  BY DEF VaultInv, VaultHoldsUnlessRaced, LogAnswersUnlessRaced, LogIsTrue

-----------------------------------------------------------------------------
(***************************************************************************)
(* The grid that an agency begins with, square by square.                  *)
(***************************************************************************)

\* A square is a module and an action.
LEMMA SquaresAre ==
    ASSUME NEW sq \in Squares
    PROVE  \E m, a :
              /\ sq = <<m, a>> /\ sq[1] = m
              /\ \/ m \in {"clients", "leads", "invoices", "services", "team", "accounts", "vault"}
                      /\ a \in CRUD
                 \/ m \in {"projects", "tasks"} /\ a \in CRUD \cup {"assign"}
                 \/ m \in {"attendance", "leave", "time"} /\ a \in CRUD \ {"delete"}
                 \/ m = "chat" /\ a \in {"view", "create"}
                 \/ m = "reports" /\ a = "view"
  BY DEF Squares

\* An admin reaches everything, and of the chat their own.
LEMMA AdminsScope ==
    ASSUME NEW sq \in Squares
    PROVE  /\ DefaultScope("admin", sq) = IF sq[1] = "chat" THEN "own" ELSE "all"
           /\ DefaultScope("admin", <<sq[1], "view">>) = IF sq[1] = "chat" THEN "own" ELSE "all"
<1>1. PICK m, a :
         /\ sq = <<m, a>> /\ sq[1] = m
         /\ \/ m \in {"clients", "leads", "invoices", "services", "team", "accounts", "vault"}
                 /\ a \in CRUD
            \/ m \in {"projects", "tasks"} /\ a \in CRUD \cup {"assign"}
            \/ m \in {"attendance", "leave", "time"} /\ a \in CRUD \ {"delete"}
            \/ m = "chat" /\ a \in {"view", "create"}
            \/ m = "reports" /\ a = "view"
  BY SquaresAre
<1>2. (sq \in Talk <=> m = "chat") /\ (<<m, "view">> \in Talk <=> m = "chat")
  BY <1>1 DEF Talk
<1>3. <<m, "view">> \in Squares
  BY <1>1 DEF Squares, CRUD
<1> QED BY <1>1, <1>2, <1>3 DEF DefaultScope, Grants, AdminGrants

\* The other roles reach no more than they see, and of the chat their own.
LEMMA OthersScope ==
    ASSUME NEW role \in {"sales", "project_manager", "operations"}, NEW sq \in Squares
    PROVE  /\ ReachOf(DefaultScope(role, sq)) <= ReachOf(DefaultScope(role, <<sq[1], "view">>))
           /\ sq[1] = "chat" => DefaultScope(role, sq) = "own"
<1>1. PICK m, a :
         /\ sq = <<m, a>> /\ sq[1] = m
         /\ \/ m \in {"clients", "leads", "invoices", "services", "team", "accounts", "vault"}
                 /\ a \in CRUD
            \/ m \in {"projects", "tasks"} /\ a \in CRUD \cup {"assign"}
            \/ m \in {"attendance", "leave", "time"} /\ a \in CRUD \ {"delete"}
            \/ m = "chat" /\ a \in {"view", "create"}
            \/ m = "reports" /\ a = "view"
  BY SquaresAre
<1>2. CASE role = "sales"
  BY <1>1, <1>2 DEF DefaultScope, Grants, SalesGrants, OwnDay, Talk, CRUD, ReachOf
<1>3. CASE role = "project_manager"
  BY <1>1, <1>3 DEF DefaultScope, Grants, ManagerGrants, OwnDay, Talk, CRUD, ReachOf
<1>4. CASE role = "operations"
  BY <1>1, <1>4 DEF DefaultScope, Grants, OperationsGrants, OwnDay, Talk, CRUD, ReachOf
<1> QED BY <1>2, <1>3, <1>4

\* The seeded grid hangs together.
LEMMA GridHangs == SeededGridHangsTogether
<1>1. \A scope : ReachOf(scope) \in 0 .. 3 /\ ReachOf("all") = 3 /\ ReachOf("own") = 1
  BY DEF ReachOf
<1>2. ASSUME NEW role \in CompanyRoles, NEW sq \in Squares
      PROVE  /\ ReachOf(DefaultScope(role, sq)) <= ReachOf(DefaultScope(role, <<sq[1], "view">>))
             /\ ReachOf(DefaultScope(role, sq)) <= ReachOf(DefaultScope("admin", sq))
  <2>1. CASE role = "admin"
    BY <1>1, <2>1, AdminsScope
  <2>2. CASE role # "admin"
    <3>1. role \in {"sales", "project_manager", "operations"}
      BY <2>2 DEF CompanyRoles
    <3> QED BY <1>1, <3>1, AdminsScope, OthersScope
  <2> QED BY <2>1, <2>2
<1>3. \A r, s \in SeededRows : r[1] = s[1] /\ r[2] = s[2] => r = s
  BY DEF SeededRows
<1> QED BY <1>2, <1>3 DEF SeededGridHangsTogether

-----------------------------------------------------------------------------
(***************************************************************************)
(* The four of them together.                                              *)
(***************************************************************************)
DeskInv == ListsInv /\ PackagesInv /\ TargetsInv /\ VaultInv

\* Each part begins with its invariant.
LEMMA DeskBegins == DeskInit => DeskInv
  BY ListsBegin, PackagesBegin, TargetsBegin, VaultBegins DEF DeskInit, DeskInv

\* A step is of one part, or of none.
LEMMA DeskParts ==
    ASSUME [DeskNext]_deskVars
    PROVE  /\ [ListsNext]_listsVars /\ [PackagesNext]_packagesVars
           /\ [TargetsNext]_targetsVars /\ [VaultNext]_vaultVars
<1>1. CASE UNCHANGED deskVars
  BY <1>1 DEF deskVars
<1>2. CASE DeskNext
  BY <1>2 DEF DeskNext
<1> QED BY <1>1, <1>2

(***************************************************************************)
(* The inductive invariants of the four parts at once: what a request on   *)
(* a list, a package, a target or the vault has read is still so, unless   *)
(* it was overtaken.                                                       *)
(***************************************************************************)
THEOREM DeskInvariant == DeskSpec => []DeskInv
<1>1. DeskInit => DeskInv
  BY DeskBegins
<1>2. DeskInv /\ [DeskNext]_deskVars => DeskInv'
  BY DeskParts, ListsStep, PackagesStep, TargetsStep, VaultStep DEF DeskInv
<1> QED BY <1>1, <1>2, PTL DEF DeskSpec

(***************************************************************************)
(* Every variable of the four parts keeps its type, for any requests and   *)
(* rows; and what the roles of an agency start with hangs together.        *)
(***************************************************************************)
THEOREM DeskTypes == DeskSpec => []DeskTypeOK
<1>1. DeskInv => DeskTypeOK
  BY GridHangs DEF DeskInv, DeskTypeOK, ListsInv, PackagesInv, TargetsInv, VaultInv, VaultTypes
<1> QED BY <1>1, DeskInvariant, PTL

(***************************************************************************)
(* Whatever an agency sets up, and however many requests there are: no     *)
(* entry is on a list twice, no record loses its entry to a removal that   *)
(* counts what is filed (that of a service category does not), a package   *)
(* is what was last asked for, and every number has one target.  Of the    *)
(* lists only what an overtaken request itself named or took from is       *)
(* excused; of the others what overlapped as the ghosts record.            *)
(***************************************************************************)
THEOREM SetUpHolds == DeskSpec => []SetUpHoldsUnlessRaced
<1>1. DeskInv => SetUpHoldsUnlessRaced
  BY TargetsSuffice
     DEF DeskInv, SetUpHoldsUnlessRaced, ListsInv, ListsHoldUnlessRaced, PackagesInv
<1> QED BY <1>1, DeskInvariant, PTL

(***************************************************************************)
(* The access log of the vault answers who saw a password, for every one   *)
(* handed out, and nobody acts outside of their reach unless a request     *)
(* was overtaken (vault.service.ts).                                       *)
(***************************************************************************)
THEOREM VaultHolds == DeskSpec => []VaultHoldsUnlessRaced
<1>1. DeskInv => VaultHoldsUnlessRaced
  BY VaultSuffices DEF DeskInv
<1> QED BY <1>1, DeskInvariant, PTL

-----------------------------------------------------------------------------
(***************************************************************************)
(* Loans.  The inductive invariant, as conditions on the record of a       *)
(* request.                                                                *)
(***************************************************************************)

\* HoldsInstalment, of the record of a request.
Holds(r, i) ==
    \/ r.op \in {"pay", "reverse"} /\ r.inst = i
          /\ r.pc \in {"remaining", "reverse", "loanRow", "commit"}
    \/ r.op = "set" /\ i \in r.rows /\ r.pc \in {"insert", "commit"}

\* What a request is doing fits where it stands.
Shape(r) ==
    /\ r.pc = "idle" => r = Idle
    /\ r.op = "none" => r.pc = "idle"
    /\ r.op # "none" => r.loan \in Loans
    /\ r.op \in {"pay", "reverse"} => r.inst \in Instalments
    /\ r.op = "pay" => r.acct \in Accounts /\ r.pc # "reverse"
    /\ r.pc = "claim" => r.op \in {"pay", "reverse"}
    /\ r.pc = "remaining" => r.op = "pay"
    /\ r.pc \in {"findUnpaid", "delete", "insert"} => r.op = "set"
    /\ r.pc = "reverse" => r.op \in {"reverse", "remove"}
    /\ r.new # {} => r.op = "set"
    /\ r.op = "set" => r.pc # "loanRow"

\* A row that a request has claimed, or deleted, is as the request found it.
Claimed(r) ==
    /\ r.op = "pay" /\ Holds(r, r.inst) => inst[r.inst].state = "there" /\ ~Paid(r.inst)
    /\ r.op = "reverse" /\ Holds(r, r.inst) => inst[r.inst].state = "there" /\ Paid(r.inst)
    /\ r.op = "reverse" /\ r.pc \in {"loanRow", "commit"} => r.open = held[r.inst]
    /\ r.op = "set" /\ r.pc \in {"insert", "commit"}
          => \A i \in r.rows : inst[i].state = "there" /\ ~Paid(i)
    /\ \A i \in r.new : inst[i].state = "none"

\* No two transactions have written, or are inserting, the same row.
Apart(r, s) ==
    /\ \A i \in Instalments : ~(Holds(r, i) /\ Holds(s, i))
    /\ r.new \cap s.new = {}

\* Only a row of a schedule is paid.
RowsInv ==
    \A i \in Instalments : /\ inst[i].state = "there" => inst[i].loan \in Loans
                           /\ inst[i].state # "there" => ~Paid(i)

IInv ==
    /\ TypeOK
    /\ RowsInv
    /\ LedgerMatchesPaid
    /\ \A p \in Requests : Shape(req[p]) /\ Claimed(req[p])
    /\ \A p, q \in Requests : p # q => Apart(req[p], req[q])

-----------------------------------------------------------------------------
(* Types.                                                                  *)

\* What an instalment moves is an integer on every account.
LEMMA RepaymentType ==
    /\ Zero \in Legs
    /\ \A i \in Instalments, a \in Accounts : Repayment(i, a) \in Legs
<1>1. \A i \in Instalments : -Total[i] \in Int
  BY LoanAssumption
<1>2. QED
  BY <1>1 DEF Zero, Legs, Repayment

\* An idle request has the shape of a request, and holds nothing.
LEMMA IdleFacts ==
    /\ Idle \in Request
    /\ Shape(Idle) /\ Claimed(Idle) /\ Claimed(Idle)'
    /\ \A r : Apart(Idle, r) /\ Apart(r, Idle)
<1>1. Idle \in Request
  BY RepaymentType DEF Idle, Request, PCs, Ops
<1>2. \A i : ~Holds(Idle, i)
  BY DEF Idle, Holds
<1>3. Idle.new = {} /\ Idle.op = "none" /\ Idle.pc = "idle"
  BY DEF Idle
<1>4. Shape(Idle)
  BY DEF Idle, Shape
<1>5. Claimed(Idle) /\ Claimed(Idle)'
  BY <1>2, <1>3 DEF Claimed
<1>6. \A r : Apart(Idle, r) /\ Apart(r, Idle)
  BY <1>2, <1>3 DEF Apart
<1>7. QED
  BY <1>1, <1>4, <1>5, <1>6

\* Before any request the invariant holds.
LEMMA InitIInv == Init => IInv
<1> SUFFICES ASSUME Init PROVE IInv
  OBVIOUS
<1>1. TypeOK
  BY RepaymentType, IdleFacts
     DEF Init, TypeOK, LoanRow, NoSuchLoan, InstalmentRow, NoSuchInstalment
<1>2. RowsInv /\ LedgerMatchesPaid
  BY DEF Init, RowsInv, LedgerMatchesPaid, Paid, NoSuchInstalment
<1>3. \A p \in Requests : req[p] = Idle
  BY DEF Init
<1>4. QED
  BY <1>1, <1>2, <1>3, IdleFacts DEF IInv

-----------------------------------------------------------------------------
(* Steps that write nothing.                                               *)

\* A request that only moves on keeps the invariant, if the record it gets fits
\* and what it takes was free.
LEMMA LocalStep ==
    ASSUME IInv, NEW p \in Requests, NEW r \in Request,
           req' = [req EXCEPT ![p] = r], Unwritten,
           Shape(r), Claimed(r),
           \A i \in Instalments :
              Holds(r, i) => Holds(req[p], i)
                             \/ \A q \in Requests \ {p} : ~Holds(req[q], i),
           \A i \in r.new : i \in req[p].new \/ \A q \in Requests \ {p} : i \notin req[q].new
    PROVE  IInv'
<1>1. TypeOK'
  BY DEF IInv, TypeOK, Unwritten
<1>2. req'[p] = r /\ \A q \in Requests \ {p} : req'[q] = req[q]
  BY DEF IInv, TypeOK
<1>3. RowsInv' /\ LedgerMatchesPaid'
  BY DEF IInv, RowsInv, LedgerMatchesPaid, Paid, Unwritten
<1>4. ASSUME NEW q \in Requests PROVE Shape(req[q])' /\ Claimed(req[q])'
  <2>1. CASE q = p
    <3>1. Claimed(r)'
      BY DEF Claimed, Paid, Unwritten
    <3>2. QED
      BY <1>2, <2>1, <3>1
  <2>2. CASE q # p
    <3>1. Shape(req[q]) /\ Claimed(req[q]) /\ req'[q] = req[q]
      BY <1>2, <2>2 DEF IInv
    <3>2. Claimed(req[q])'
      BY <3>1 DEF Claimed, Paid, Unwritten
    <3>3. QED
      BY <3>1, <3>2
  <2>3. QED
    BY <2>1, <2>2
<1>5. ASSUME NEW q \in Requests \ {p} PROVE Apart(r, req[q]) /\ Apart(req[q], r)
  <2>1. Apart(req[p], req[q])
    BY DEF IInv
  <2>2. QED
    BY <2>1 DEF Apart
<1>6. ASSUME NEW q \in Requests, NEW s \in Requests, q # s PROVE Apart(req[q], req[s])'
  <2>1. Apart(req'[q], req'[s])
    BY <1>2, <1>5, <1>6 DEF IInv
  <2>2. QED
    BY <2>1 DEF Apart
<1>7. QED
  BY <1>1, <1>3, <1>4, <1>6 DEF IInv

\* A request that ends without having written anything keeps the invariant.
LEMMA EndIInv ==
    ASSUME IInv, NEW p \in Requests, End(p), Unwritten
    PROVE  IInv'
<1>1. \A i : ~Holds(Idle, i)
  BY DEF Idle, Holds
<1>2. Idle.new = {}
  BY DEF Idle
<1>3. QED
  BY <1>1, <1>2, IdleFacts, LocalStep DEF End

\* The first statement of a request keeps the invariant.
LEMMA StartIInv ==
    ASSUME IInv, NEW p \in Requests, Start(p)
    PROVE  IInv'
<1>1. ASSUME NEW r \in Request, Begin(p, r), Shape(r), r.new = {},
             r.pc \in {"claim", "countPaid"} \/ r.op = "close"
      PROVE  IInv'
  <2>1. \A i : ~Holds(r, i)
    BY <1>1 DEF Holds, Shape
  <2>2. Claimed(r)
    BY <1>1, <2>1 DEF Claimed
  <2>3. QED
    BY <1>1, <2>1, <2>2, LocalStep DEF Begin
<1>2. ASSUME NEW op \in {"pay", "reverse"}, NEW i \in Instalments,
             NEW a \in Accounts \cup {NoAccount}, op = "pay" => a \in Accounts, Repay(p, op, i, a)
      PROVE  IInv'
  <2> DEFINE r == [Idle EXCEPT !.pc = "claim", !.op = op, !.loan = inst[i].loan,
                               !.inst = i, !.acct = a]
  <2>1. inst[i].loan \in Loans
    BY <1>2 DEF IInv, RowsInv, Repay
  <2>2. r \in Request
    BY <2>1, IdleFacts DEF Idle, Request, PCs, Ops
  <2>3. Shape(r) /\ r.new = {} /\ r.pc = "claim"
    BY <1>2, <2>1 DEF Idle, Shape
  <2>4. Begin(p, r)
    BY <1>2 DEF Repay
  <2>5. QED
    BY <1>1, <2>2, <2>3, <2>4
<1>3. ASSUME SetInstalments(p) PROVE IInv'
  <2>1. PICK l \in Loans, n \in Lengths :
           Begin(p, [Idle EXCEPT !.pc = "countPaid", !.op = "set", !.loan = l, !.length = n])
    BY <1>3 DEF SetInstalments
  <2> DEFINE r == [Idle EXCEPT !.pc = "countPaid", !.op = "set", !.loan = l, !.length = n]
  <2>2. n \in Nat
    BY LoanAssumption
  <2>3. r \in Request
    BY <2>2, IdleFacts DEF Idle, Request, PCs, Ops
  <2>4. Shape(r) /\ r.new = {} /\ r.pc = "countPaid"
    BY DEF Idle, Shape
  <2>5. QED
    BY <1>1, <2>1, <2>3, <2>4
<1>4. ASSUME CloseLoan(p) PROVE IInv'
  <2>1. PICK l \in Loans :
           Begin(p, [Idle EXCEPT !.pc = "loanRow", !.op = "close", !.loan = l,
                                 !.write = "closed"])
    BY <1>4 DEF CloseLoan
  <2> DEFINE r == [Idle EXCEPT !.pc = "loanRow", !.op = "close", !.loan = l,
                               !.write = "closed"]
  <2>2. r \in Request
    BY IdleFacts DEF Idle, Request, PCs, Ops
  <2>3. Shape(r) /\ r.new = {} /\ r.op = "close"
    BY DEF Idle, Shape
  <2>4. QED
    BY <1>1, <2>1, <2>2, <2>3
<1>5. ASSUME RemoveLoan(p) PROVE IInv'
  <2>1. PICK l \in Loans :
           Begin(p, [Idle EXCEPT !.pc = "countPaid", !.op = "remove", !.loan = l])
    BY <1>5 DEF RemoveLoan
  <2> DEFINE r == [Idle EXCEPT !.pc = "countPaid", !.op = "remove", !.loan = l]
  <2>2. r \in Request
    BY IdleFacts DEF Idle, Request, PCs, Ops
  <2>3. Shape(r) /\ r.new = {} /\ r.pc = "countPaid"
    BY DEF Idle, Shape
  <2>4. QED
    BY <1>1, <2>1, <2>2, <2>3
<1>6. QED
  BY <1>2, <1>3, <1>4, <1>5 DEF Start, PayInstalment, ReverseInstalment

\* A statement that takes no lock and brings no row: a later point of the code.
LEMMA SimpleMove ==
    ASSUME IInv, NEW p \in Requests, NEW r \in Request,
           req' = [req EXCEPT ![p] = r], Unwritten, Shape(r),
           r.new = {}, r.pc # "insert",
           r.op = req[p].op, r.inst = req[p].inst, r.rows = req[p].rows,
           r.op = "reverse" /\ r.pc \in {"loanRow", "commit"} => r.open = held[r.inst],
           r.op \in {"pay", "reverse"} => Holds(req[p], r.inst),
           r.op = "set" => r.pc \notin {"insert", "commit"}
    PROVE  IInv'
<1>1. Claimed(req[p])
  BY DEF IInv
<1>2. \A i : Holds(r, i) => Holds(req[p], i)
  BY DEF Holds
<1>3. Claimed(r)
  <2>1. r.op \in {"pay", "reverse"} => Holds(req[p], req[p].inst)
    OBVIOUS
  <2>2. QED
    BY <1>1, <2>1 DEF Claimed
<1>4. QED
  BY <1>2, <1>3, LocalStep

\* What a request holds is what its record says.
LEMMA HoldsSame ==
    \A p \in Requests, i \in Instalments : HoldsInstalment(p, i) <=> Holds(req[p], i)
BY DEF HoldsInstalment, Holds, Repays

\* The statements of paying and of reversing keep the invariant.
LEMMA RepayStepsIInv ==
    ASSUME IInv, NEW p \in Requests,
           Claim(p) \/ CountRemaining(p) \/ ReverseRepayment(p)
    PROVE  IInv'
<1>1. req[p] \in Request /\ req \in [Requests -> Request] /\ held \in [Instalments -> Legs]
  BY DEF IInv, TypeOK
<1>2. Shape(req[p]) /\ Claimed(req[p])
  BY DEF IInv
<1>3. CASE Claim(p)
  <2>1. CASE ~Claimable(p)
    BY <1>3, <2>1, EndIInv DEF Claim
  <2>2. CASE Claimable(p)
    <3> DEFINE pc == IF req[p].op = "pay" THEN "remaining" ELSE "reverse"
               r == [req[p] EXCEPT !.pc = pc]
    <3>1. req' = [req EXCEPT ![p] = r] /\ Unwritten /\ req[p].pc = "claim"
      BY <1>1, <1>3, <2>2 DEF Claim, Goto
    <3>2. r \in Request
      BY <1>1 DEF Request, PCs
    <3>3. req[p].op \in {"pay", "reverse"} /\ req[p].inst \in Instalments
      BY <1>2, <3>1 DEF Shape
    <3>4. /\ r.pc = pc /\ r.op = req[p].op /\ r.inst = req[p].inst /\ r.new = req[p].new
          /\ r.loan = req[p].loan /\ r.acct = req[p].acct
      BY <1>1 DEF Request
    <3>5. Shape(r) /\ r.new = {}
      BY <1>2, <3>3, <3>4 DEF Shape
    <3>6. Claimed(r)
      BY <2>2, <3>3, <3>4, <3>5 DEF Claimed, Claimable
    <3>7. \A i \in Instalments : Holds(r, i) => \A q \in Requests \ {p} : ~Holds(req[q], i)
      <4>1. \A q \in Requests \ {p} : ~Holds(req[q], req[p].inst)
        BY <1>3, <3>3, HoldsSame DEF Claim
      <4>2. QED
        BY <3>3, <3>4, <4>1 DEF Holds
    <3>8. QED
      BY <3>1, <3>2, <3>5, <3>6, <3>7, LocalStep
  <2>3. QED
    BY <2>1, <2>2
<1>4. CASE CountRemaining(p)
  <2>1. PICK r \in {[req[p] EXCEPT !.pc = "loanRow", !.write = "settled"],
                    [req[p] EXCEPT !.pc = "commit"]} : req' = [req EXCEPT ![p] = r]
    BY <1>1, <1>4 DEF CountRemaining, Goto
  <2>2. r \in Request /\ r.pc \in {"loanRow", "commit"}
    <3>1. CASE r = [req[p] EXCEPT !.pc = "commit"]
      BY <1>1, <3>1 DEF Request, PCs
    <3>2. CASE r = [req[p] EXCEPT !.pc = "loanRow", !.write = "settled"]
      BY <1>1, <3>2 DEF Request, PCs
    <3>3. QED
      BY <2>1, <3>1, <3>2
  <2>3. /\ r.op = req[p].op /\ r.inst = req[p].inst /\ r.new = req[p].new
        /\ r.rows = req[p].rows /\ r.loan = req[p].loan /\ r.acct = req[p].acct
    BY <1>1 DEF Request
  <2>4. req[p].op = "pay" /\ req[p].pc = "remaining"
    BY <1>2, <1>4 DEF CountRemaining, Shape
  <2>5. Shape(r) /\ r.new = {}
    BY <1>2, <2>2, <2>3, <2>4 DEF Shape
  <2>6. Holds(req[p], r.inst)
    BY <2>3, <2>4 DEF Holds
  <2>7. QED
    BY <1>4, <2>1, <2>2, <2>3, <2>4, <2>5, <2>6, SimpleMove DEF CountRemaining
<1>5. CASE ReverseRepayment(p)
  <2> DEFINE r == [req[p] EXCEPT !.pc = "loanRow", !.open = held[req[p].inst],
                                 !.write = "active"]
  <2>1. req[p].op = "reverse" /\ req[p].pc = "reverse" /\ req[p].inst \in Instalments
    BY <1>2, <1>5 DEF ReverseRepayment, Shape
  <2>2. req' = [req EXCEPT ![p] = r] /\ Unwritten
    BY <1>1, <1>5 DEF ReverseRepayment
  <2>3. r \in Request
    BY <1>1, <2>1 DEF Request, PCs
  <2>4. /\ r.op = "reverse" /\ r.inst = req[p].inst /\ r.new = req[p].new /\ r.pc = "loanRow"
        /\ r.rows = req[p].rows /\ r.loan = req[p].loan /\ r.open = held[r.inst]
    BY <1>1, <2>1 DEF Request
  <2>5. Shape(r) /\ r.new = {}
    BY <1>2, <2>1, <2>4 DEF Shape
  <2>6. Holds(req[p], r.inst)
    BY <2>1, <2>4 DEF Holds
  <2>7. QED
    BY <2>1, <2>2, <2>3, <2>4, <2>5, <2>6, SimpleMove
<1>6. QED
  BY <1>3, <1>4, <1>5

\* The statements of replacing a schedule keep the invariant.
LEMMA SetStepsIInv ==
    ASSUME IInv, NEW p \in Requests,
           CountPaid(p) \/ FindUnpaid(p) \/ DeleteUnpaid(p) \/ InsertInstalments(p)
    PROVE  IInv'
<1>1. req[p] \in Request /\ req \in [Requests -> Request] /\ inst \in [Instalments -> InstalmentRow]
  BY DEF IInv, TypeOK
<1>2. Shape(req[p]) /\ Claimed(req[p])
  BY DEF IInv
<1>3. req[p].op = "set" /\ req[p].loan \in Loans
  BY <1>2 DEF Shape, CountPaid, FindUnpaid, DeleteUnpaid, InsertInstalments
<1>4. CASE CountPaid(p)
  <2> DEFINE n == Cardinality({i \in Schedule(req[p].loan) : Paid(i)})
             r == [req[p] EXCEPT !.pc = "findUnpaid", !.paid = n]
  <2>1. n \in Nat
    BY LoanAssumption, FS_Subset, FS_CardinalityType DEF Schedule
  <2>2. req' = [req EXCEPT ![p] = r] /\ Unwritten /\ req[p].pc = "countPaid"
    BY <1>1, <1>4 DEF CountPaid
  <2>3. r \in Request
    BY <1>1, <2>1 DEF Request, PCs
  <2>4. /\ r.op = "set" /\ r.inst = req[p].inst /\ r.new = req[p].new
        /\ r.pc = "findUnpaid" /\ r.rows = req[p].rows /\ r.loan = req[p].loan
    BY <1>1, <1>3 DEF Request
  <2>5. Shape(r)
    BY <1>3, <2>4 DEF Shape
  <2>6. r.new = req[p].new /\ Claimed(r)
    BY <1>2, <2>4 DEF Claimed, Holds
  <2>7. QED
    BY <2>2, <2>3, <2>4, <2>5, <2>6, LocalStep DEF Holds
<1>5. CASE FindUnpaid(p)
  <2> DEFINE r == [req[p] EXCEPT !.pc = "delete", !.rows = Unpaid(req[p].loan)]
  <2>1. Unpaid(req[p].loan) \subseteq Instalments
    BY DEF Unpaid, Schedule
  <2>2. req' = [req EXCEPT ![p] = r] /\ Unwritten
    BY <1>1, <1>5 DEF FindUnpaid
  <2>3. r \in Request
    BY <1>1, <2>1 DEF Request, PCs
  <2>4. /\ r.op = "set" /\ r.inst = req[p].inst /\ r.new = req[p].new
        /\ r.pc = "delete" /\ r.loan = req[p].loan
    BY <1>1, <1>3 DEF Request
  <2>5. Shape(r)
    BY <1>3, <2>4 DEF Shape
  <2>6. Claimed(r)
    BY <1>2, <2>4 DEF Claimed, Holds
  <2>7. QED
    BY <2>2, <2>3, <2>4, <2>5, <2>6, LocalStep DEF Holds
<1>6. CASE DeleteUnpaid(p)
  <2> DEFINE r == [req[p] EXCEPT !.pc = "insert", !.rows = StillUnpaid(req[p].rows)]
  <2>1. StillUnpaid(req[p].rows) \subseteq req[p].rows /\ req[p].rows \subseteq Instalments
    BY <1>1 DEF StillUnpaid, Request
  <2>2. req' = [req EXCEPT ![p] = r] /\ Unwritten
    BY <1>1, <1>6 DEF DeleteUnpaid
  <2>3. r \in Request
    BY <1>1, <2>1 DEF Request, PCs
  <2>4. /\ r.op = "set" /\ r.inst = req[p].inst /\ r.new = req[p].new
        /\ r.pc = "insert" /\ r.loan = req[p].loan /\ r.rows = StillUnpaid(req[p].rows)
    BY <1>1, <1>3 DEF Request
  <2>5. Shape(r)
    BY <1>3, <2>4 DEF Shape
  <2>6. Claimed(r)
    BY <1>2, <2>4 DEF Claimed, Holds, StillUnpaid
  <2>7. \A i \in Instalments : Holds(r, i) => \A q \in Requests \ {p} : ~Holds(req[q], i)
    <3>1. \A i \in req[p].rows, q \in Requests \ {p} : ~Holds(req[q], i)
      BY <1>6, <2>1, HoldsSame DEF DeleteUnpaid
    <3>2. QED
      BY <2>1, <2>4, <3>1 DEF Holds
  <2>8. QED
    BY <2>2, <2>3, <2>4, <2>5, <2>6, <2>7, LocalStep
<1>7. CASE InsertInstalments(p)
  <2>1. CASE End(p)
    BY <1>7, <2>1, EndIInv DEF InsertInstalments
  <2>2. CASE \E S \in DrawRows(NewSeqs(p)) :
                req' = [req EXCEPT ![p].pc = "commit", ![p].new = S]
    <3>1. PICK S \in DrawRows(NewSeqs(p)) :
             req' = [req EXCEPT ![p].pc = "commit", ![p].new = S]
      BY <2>2
    <3> DEFINE r == [req[p] EXCEPT !.pc = "commit", !.new = S]
    <3>2. S \subseteq Instalments /\ \A i \in S : Unused(i)
      BY DEF DrawRows
    <3>3. req' = [req EXCEPT ![p] = r] /\ Unwritten /\ req[p].pc = "insert"
      BY <1>1, <1>7, <3>1 DEF InsertInstalments
    <3>4. r \in Request
      BY <1>1, <3>2 DEF Request, PCs
    <3>5. /\ r.op = "set" /\ r.inst = req[p].inst /\ r.new = S
          /\ r.pc = "commit" /\ r.loan = req[p].loan /\ r.rows = req[p].rows
      BY <1>1, <1>3 DEF Request
    <3>6. Shape(r)
      BY <1>3, <3>5 DEF Shape
    <3>7. Claimed(r)
      BY <1>2, <1>3, <3>2, <3>3, <3>5 DEF Claimed, Holds, Unused
    <3>8. \A i \in Instalments : Holds(r, i) => Holds(req[p], i)
      BY <1>3, <3>3, <3>5 DEF Holds
    <3>9. \A i \in r.new : \A q \in Requests \ {p} : i \notin req[q].new
      BY <3>2, <3>5 DEF Unused
    <3>10. QED
      BY <3>3, <3>4, <3>6, <3>7, <3>8, <3>9, LocalStep
  <2>3. QED
    BY <1>7, <2>1, <2>2 DEF InsertInstalments
<1>8. QED
  BY <1>4, <1>5, <1>6, <1>7

\* The statements of removing a loan, and the update of its row, keep the
\* invariant.
LEMMA LoanStepsIInv ==
    ASSUME IInv, NEW p \in Requests,
           CheckUnpaid(p) \/ ReverseReceived(p) \/ UpdateLoan(p)
    PROVE  IInv'
<1>1. req[p] \in Request /\ req \in [Requests -> Request] /\ received \in [Loans -> Int]
  BY DEF IInv, TypeOK
<1>2. Shape(req[p]) /\ Claimed(req[p])
  BY DEF IInv
<1>3. CASE CheckUnpaid(p)
  <2>1. CASE End(p)
    BY <1>3, <2>1, EndIInv DEF CheckUnpaid
  <2>2. CASE Goto(p, "reverse")
    <3> DEFINE r == [req[p] EXCEPT !.pc = "reverse"]
    <3>1. req' = [req EXCEPT ![p] = r] /\ Unwritten /\ req[p].op = "remove"
      BY <1>1, <1>3, <2>2 DEF CheckUnpaid, Goto
    <3>2. r \in Request
      BY <1>1 DEF Request, PCs
    <3>3. /\ r.op = "remove" /\ r.inst = req[p].inst /\ r.new = req[p].new /\ r.pc = "reverse"
          /\ r.rows = req[p].rows /\ r.loan = req[p].loan
      BY <1>1, <3>1 DEF Request
    <3>4. Shape(r) /\ r.new = {}
      BY <1>2, <3>1, <3>3 DEF Shape
    <3>5. QED
      BY <3>1, <3>2, <3>3, <3>4, SimpleMove
  <2>3. QED
    BY <1>3, <2>1, <2>2 DEF CheckUnpaid
<1>4. CASE ReverseReceived(p)
  <2> DEFINE r == [req[p] EXCEPT !.pc = "loanRow", !.owed = received[req[p].loan],
                                 !.write = "deleted"]
  <2>1. req[p].op = "remove" /\ req[p].loan \in Loans
    BY <1>2, <1>4 DEF ReverseReceived, Shape
  <2>2. req' = [req EXCEPT ![p] = r] /\ Unwritten
    BY <1>1, <1>4 DEF ReverseReceived
  <2>3. r \in Request
    BY <1>1, <2>1 DEF Request, PCs
  <2>4. /\ r.op = "remove" /\ r.inst = req[p].inst /\ r.new = req[p].new /\ r.pc = "loanRow"
        /\ r.rows = req[p].rows /\ r.loan = req[p].loan
    BY <1>1, <2>1 DEF Request
  <2>5. Shape(r) /\ r.new = {}
    BY <1>2, <2>1, <2>4 DEF Shape
  <2>6. QED
    BY <2>1, <2>2, <2>3, <2>4, <2>5, SimpleMove
<1>5. CASE UpdateLoan(p)
  <2> DEFINE r == [req[p] EXCEPT !.pc = "commit"]
  <2>1. req' = [req EXCEPT ![p] = r] /\ Unwritten /\ req[p].pc = "loanRow"
    BY <1>1, <1>5 DEF UpdateLoan, Goto
  <2>2. r \in Request
    BY <1>1 DEF Request, PCs
  <2>3. /\ r.op = req[p].op /\ r.inst = req[p].inst /\ r.new = req[p].new /\ r.pc = "commit"
        /\ r.rows = req[p].rows /\ r.loan = req[p].loan /\ r.acct = req[p].acct
        /\ r.open = req[p].open
    BY <1>1 DEF Request
  <2>4. Shape(r) /\ r.new = {} /\ r.op # "set"
    BY <1>2, <2>1, <2>3 DEF Shape
  <2>5. r.op \in {"pay", "reverse"} => Holds(req[p], r.inst)
    BY <2>1, <2>3 DEF Holds
  <2>6. r.op = "reverse" => r.open = held[r.inst]
    BY <1>2, <2>1, <2>3 DEF Claimed
  <2>7. QED
    BY <2>1, <2>2, <2>3, <2>4, <2>5, <2>6, SimpleMove
<1>6. QED
  BY <1>3, <1>4, <1>5

-----------------------------------------------------------------------------
(* Commits.                                                                *)

\* A row a request has claimed or deleted is there, one it inserts is not yet.
LEMMA HeldIsThere ==
    ASSUME IInv, NEW p \in Requests, NEW i \in Instalments
    PROVE  /\ Holds(req[p], i) => inst[i].state = "there"
           /\ i \in req[p].new => inst[i].state = "none"
<1>1. Claimed(req[p])
  BY DEF IInv
<1>2. QED
  BY <1>1 DEF Claimed, Holds

\* A commit that changes only rows its request held or inserts leaves every
\* other request as it was.
LEMMA CommitOthers ==
    ASSUME IInv, NEW p \in Requests, req[p].pc = "commit", EndAndOvertake(p),
           NEW D \in SUBSET Instalments,
           \A i \in D : Holds(req[p], i) \/ i \in req[p].new,
           \A i \in Instalments \ D : inst'[i] = inst[i] /\ held'[i] = held[i]
    PROVE  /\ req' \in [Requests -> Request]
           /\ \A q \in Requests : Shape(req[q])' /\ Claimed(req[q])'
           /\ \A q, s \in Requests : q # s => Apart(req[q], req[s])'
<1>1. req \in [Requests -> Request]
  BY DEF IInv, TypeOK
<1>2. req'[p] = Idle
  BY DEF EndAndOvertake
<1>3. ASSUME NEW q \in Requests \ {p}
      PROVE  /\ req'[q] \in Request
             /\ req'[q].pc = req[q].pc /\ req'[q].op = req[q].op /\ req'[q].loan = req[q].loan
             /\ req'[q].inst = req[q].inst /\ req'[q].acct = req[q].acct
             /\ req'[q].rows = req[q].rows /\ req'[q].new = req[q].new
             /\ req'[q].open = req[q].open
             /\ req[q].pc = "idle" => req'[q] = Idle
  <2>1. req'[q] = IF req[q].loan = req[p].loan THEN [req[q] EXCEPT !.stale = TRUE] ELSE req[q]
    BY DEF EndAndOvertake
  <2>2. req[q] \in Request
    BY <1>1
  <2>3. CASE req[q].loan = req[p].loan /\ req[q].pc = "idle"
    <3>1. req[q] = Idle
      BY <2>3 DEF IInv, Shape
    <3>2. req[p].loan = NoLoan
      BY <2>3, <3>1 DEF Idle
    <3>3. Shape(req[p]) /\ NoLoan \notin Loans
      BY LoanAssumption DEF IInv
    <3>4. QED
      BY <3>2, <3>3 DEF Shape
  <2>4. CASE req[q].loan # req[p].loan \/ req[q].pc # "idle"
    <3>1. req[q].pc = "idle" => req[q] = Idle
      BY DEF IInv, Shape
    <3>2. CASE req[q].loan # req[p].loan
      BY <2>1, <2>2, <3>1, <3>2
    <3>3. CASE req[q].loan = req[p].loan /\ req[q].pc # "idle"
      <4>1. req'[q] = [req[q] EXCEPT !.stale = TRUE]
        BY <2>1, <3>3
      <4>2. QED
        BY <2>2, <3>3, <4>1 DEF Request
    <3>4. QED
      BY <2>4, <3>2, <3>3
  <2>5. QED
    BY <2>3, <2>4
<1>4. req' \in [Requests -> Request]
  <2>1. \A q \in Requests : req'[q] \in Request
    BY <1>2, <1>3, IdleFacts
  <2>2. QED
    BY <2>1 DEF EndAndOvertake
<1>5. ASSUME NEW q \in Requests \ {p} PROVE Shape(req[q])' /\ Claimed(req[q])'
  <2>1. Shape(req[q]) /\ Claimed(req[q])
    BY DEF IInv
  <2>2. Shape(req'[q])
    BY <1>3, <2>1 DEF Shape
  <2>3. \A i \in Instalments : Holds(req'[q], i) = Holds(req[q], i)
    BY <1>3 DEF Holds
  <2>4. ASSUME NEW i \in Instalments, Holds(req[q], i) \/ i \in req[q].new
        PROVE  inst'[i] = inst[i] /\ held'[i] = held[i]
    <3>1. i \notin D
      BY <2>4, HeldIsThere DEF IInv, Apart
    <3>2. QED
      BY <3>1
  <2>5. /\ req[q].op \in {"pay", "reverse"} => req[q].inst \in Instalments
        /\ req[q].new \subseteq Instalments /\ req[q].rows \subseteq Instalments
    BY <1>1, <2>1 DEF Shape, Request
  <2>6. /\ req'[q].op = "pay" /\ Holds(req'[q], req'[q].inst)
              => inst'[req'[q].inst].state = "there" /\ ~(inst'[req'[q].inst].paidFrom # NoAccount)
        /\ req'[q].op = "reverse" /\ Holds(req'[q], req'[q].inst)
              => inst'[req'[q].inst].state = "there" /\ inst'[req'[q].inst].paidFrom # NoAccount
    BY <1>3, <2>1, <2>3, <2>4, <2>5 DEF Claimed, Paid
  <2>7. req'[q].op = "reverse" /\ req'[q].pc \in {"loanRow", "commit"}
              => req'[q].open = held'[req'[q].inst]
    <3>1. SUFFICES ASSUME req[q].op = "reverse", req[q].pc \in {"loanRow", "commit"}
                   PROVE  req[q].open = held'[req[q].inst]
      BY <1>3
    <3>2. Holds(req[q], req[q].inst)
      BY <3>1 DEF Holds
    <3>3. req[q].open = held[req[q].inst]
      BY <2>1, <3>1 DEF Claimed
    <3>4. QED
      BY <2>4, <2>5, <3>1, <3>2, <3>3
  <2>8. req'[q].op = "set" /\ req'[q].pc \in {"insert", "commit"}
              => \A i \in req'[q].rows : inst'[i].state = "there" /\ ~(inst'[i].paidFrom # NoAccount)
    <3>1. SUFFICES ASSUME req[q].op = "set", req[q].pc \in {"insert", "commit"},
                          NEW i \in req[q].rows
                   PROVE  inst'[i].state = "there" /\ ~(inst'[i].paidFrom # NoAccount)
      BY <1>3
    <3>2. Holds(req[q], i) /\ i \in Instalments
      BY <2>5, <3>1 DEF Holds
    <3>3. inst[i].state = "there" /\ ~Paid(i)
      BY <2>1, <3>1 DEF Claimed
    <3>4. QED
      BY <2>4, <3>2, <3>3 DEF Paid
  <2>9. \A i \in req'[q].new : inst'[i].state = "none"
    BY <1>3, <2>1, <2>4, <2>5 DEF Claimed
  <2>10. QED
    BY <2>2, <2>6, <2>7, <2>8, <2>9 DEF Shape, Claimed, Paid, Holds
<1>6. Shape(req[p])' /\ Claimed(req[p])'
  BY <1>2, IdleFacts DEF Shape, Claimed, Holds, Paid, Idle
<1>7. ASSUME NEW q \in Requests, NEW s \in Requests, q # s PROVE Apart(req[q], req[s])'
  <2>1. CASE q = p \/ s = p
    BY <1>2, <2>1, IdleFacts DEF Apart, Holds
  <2>2. CASE q # p /\ s # p
    <3>1. Apart(req[q], req[s])
      BY <1>7 DEF IInv
    <3>2. QED
      BY <1>3, <2>2, <3>1 DEF Apart, Holds
  <2>3. QED
    BY <2>1, <2>2
<1>8. QED
  BY <1>4, <1>5, <1>6, <1>7

\* A commit keeps the types of the loan row and of the ghost.
LEMMA CommitTypes ==
    ASSUME IInv, NEW p \in Requests, NEW op \in Ops \ {"none"}, Commit(p, op)
    PROVE  loan' \in [Loans -> LoanRow] /\ raced' \subseteq Loans /\ req[p].loan \in Loans
<1>1. req[p] \in Request /\ loan \in [Loans -> LoanRow] /\ raced \subseteq Loans
  BY DEF IInv, TypeOK
<1>2. req[p].loan \in Loans
  BY DEF IInv, Shape, Commit
<1>3. WrittenLoan(p) \in LoanRow
  <2>1. loan[req[p].loan] \in LoanRow
    BY <1>1, <1>2
  <2>2. req[p].write \in {"nothing", "active", "settled", "closed", "deleted"}
    BY <1>1 DEF Request
  <2>3. CASE req[p].write = "nothing"
    BY <2>1, <2>3 DEF WrittenLoan
  <2>4. CASE req[p].write = "deleted"
    BY <2>1, <2>4 DEF WrittenLoan, LoanRow
  <2>5. CASE req[p].write \in {"active", "settled", "closed"}
    BY <2>1, <2>5 DEF WrittenLoan, LoanRow
  <2>6. QED
    BY <2>2, <2>3, <2>4, <2>5
<1>4. QED
  BY <1>1, <1>2, <1>3 DEF Commit

\* A repayment that commits puts its legs on a row that held nothing.
LEMMA CommitPayIInv ==
    ASSUME IInv, NEW p \in Requests, CommitPay(p)
    PROVE  IInv'
<1> DEFINE i == req[p].inst
           a == req[p].acct
<1>1. req[p].op = "pay" /\ req[p].pc = "commit" /\ EndAndOvertake(p) /\ Commit(p, "pay")
  BY DEF CommitPay, Commit
<1>2. i \in Instalments /\ a \in Accounts
  BY <1>1 DEF IInv, Shape
<1>3. Holds(req[p], i)
  BY <1>1 DEF Holds
<1>4. inst[i].state = "there" /\ ~Paid(i)
  BY <1>1, <1>3 DEF IInv, Claimed
<1>5. /\ inst \in [Instalments -> InstalmentRow] /\ held \in [Instalments -> Legs]
      /\ received \in [Loans -> Int]
  BY DEF IInv, TypeOK
<1>6. /\ inst' = [inst EXCEPT ![i].paidFrom = a]
      /\ held' = [held EXCEPT ![i] = [x \in Accounts |-> held[i][x] + Repayment(i, a)[x]]]
      /\ received' = received
  BY DEF CommitPay
<1>7. held[i] = Zero
  BY <1>2, <1>4 DEF IInv, LedgerMatchesPaid
<1>8. held'[i] = Repayment(i, a)
  <2>1. Repayment(i, a) \in Legs
    BY <1>2, RepaymentType
  <2>2. [x \in Accounts |-> Zero[x] + Repayment(i, a)[x]] = Repayment(i, a)
    <3>1. \A x \in Accounts : Repayment(i, a)[x] \in Int /\ Zero[x] = 0
      BY <2>1 DEF Legs, Zero
    <3>2. \A x \in Accounts : Zero[x] + Repayment(i, a)[x] = Repayment(i, a)[x]
      BY <3>1
    <3>3. QED
      BY <3>2 DEF Repayment
  <2>3. QED
    BY <1>2, <1>5, <1>6, <1>7, <2>2
<1>9. inst'[i].paidFrom = a /\ inst'[i].state = "there" /\ inst'[i].loan = inst[i].loan
  BY <1>2, <1>4, <1>5, <1>6 DEF InstalmentRow
<1>10. \A j \in Instalments \ {i} : inst'[j] = inst[j] /\ held'[j] = held[j]
  BY <1>2, <1>5, <1>6
<1>11. inst' \in [Instalments -> InstalmentRow] /\ held' \in [Instalments -> Legs]
  <2>1. inst' \in [Instalments -> InstalmentRow]
    BY <1>2, <1>5, <1>6 DEF InstalmentRow
  <2>2. held' \in [Instalments -> Legs]
    <3>1. Repayment(i, a) \in Legs
      BY <1>2, RepaymentType
    <3>2. QED
      BY <1>2, <1>5, <1>6, <1>8, <3>1
  <2>3. QED
    BY <2>1, <2>2
<1>12. /\ req' \in [Requests -> Request]
       /\ \A q \in Requests : Shape(req[q])' /\ Claimed(req[q])'
       /\ \A q, s \in Requests : q # s => Apart(req[q], req[s])'
  <2> DEFINE D == {i}
  <2>1. D \in SUBSET Instalments /\ \A j \in D : Holds(req[p], j) \/ j \in req[p].new
    BY <1>2, <1>3
  <2>2. \A j \in Instalments \ D : inst'[j] = inst[j] /\ held'[j] = held[j]
    BY <1>10
  <2> HIDE DEF D
  <2>3. QED
    BY <1>1, <2>1, <2>2, CommitOthers
<1>13. TypeOK'
  BY <1>1, <1>5, <1>6, <1>11, <1>12, CommitTypes DEF TypeOK, Ops
<1>14. RowsInv'
  <2>1. inst[i].loan \in Loans
    BY <1>2, <1>4 DEF IInv, RowsInv
  <2>2. ASSUME NEW j \in Instalments
        PROVE  /\ inst'[j].state = "there" => inst'[j].loan \in Loans
               /\ inst'[j].state # "there" => ~(inst'[j].paidFrom # NoAccount)
    <3>1. CASE j = i
      BY <1>9, <2>1, <3>1
    <3>2. CASE j # i
      BY <1>10, <3>2 DEF IInv, RowsInv, Paid
    <3>3. QED
      BY <3>1, <3>2
  <2>3. QED
    BY <2>2 DEF RowsInv, Paid
<1>15. LedgerMatchesPaid'
  <2>1. a # NoAccount
    BY <1>2, LoanAssumption
  <2>2. QED
    BY <1>8, <1>9, <1>10, <2>1 DEF IInv, LedgerMatchesPaid, Paid, Repayment
<1>16. QED
  BY <1>12, <1>13, <1>14, <1>15 DEF IInv

\* A reversal that commits takes out exactly what the row held.
LEMMA CommitReverseIInv ==
    ASSUME IInv, NEW p \in Requests, CommitReverse(p)
    PROVE  IInv'
<1> DEFINE i == req[p].inst
<1>1. req[p].op = "reverse" /\ req[p].pc = "commit" /\ EndAndOvertake(p) /\ Commit(p, "reverse")
  BY DEF CommitReverse, Commit
<1>2. i \in Instalments
  BY <1>1 DEF IInv, Shape
<1>3. Holds(req[p], i)
  BY <1>1 DEF Holds
<1>4. inst[i].state = "there" /\ req[p].open = held[i]
  BY <1>1, <1>3 DEF IInv, Claimed
<1>5. /\ inst \in [Instalments -> InstalmentRow] /\ held \in [Instalments -> Legs]
      /\ received \in [Loans -> Int]
  BY DEF IInv, TypeOK
<1>6. /\ inst' = [inst EXCEPT ![i].paidFrom = NoAccount]
      /\ held' = [held EXCEPT ![i] = [x \in Accounts |-> held[i][x] - req[p].open[x]]]
      /\ received' = received
  BY DEF CommitReverse
<1>7. held'[i] = Zero
  <2>1. \A x \in Accounts : held[i][x] - held[i][x] = 0
    BY <1>2, <1>5 DEF Legs
  <2>2. QED
    BY <1>2, <1>4, <1>5, <1>6, <2>1 DEF Zero
<1>8. inst'[i].paidFrom = NoAccount /\ inst'[i].state = "there" /\ inst'[i].loan = inst[i].loan
  BY <1>2, <1>4, <1>5, <1>6 DEF InstalmentRow
<1>9. \A j \in Instalments \ {i} : inst'[j] = inst[j] /\ held'[j] = held[j]
  BY <1>2, <1>5, <1>6
<1>10. inst' \in [Instalments -> InstalmentRow] /\ held' \in [Instalments -> Legs]
  <2>1. inst' \in [Instalments -> InstalmentRow]
    BY <1>2, <1>5, <1>6 DEF InstalmentRow
  <2>2. held' \in [Instalments -> Legs]
    BY <1>2, <1>5, <1>6, <1>7, RepaymentType
  <2>3. QED
    BY <2>1, <2>2
<1>11. /\ req' \in [Requests -> Request]
       /\ \A q \in Requests : Shape(req[q])' /\ Claimed(req[q])'
       /\ \A q, s \in Requests : q # s => Apart(req[q], req[s])'
  <2> DEFINE D == {i}
  <2>1. D \in SUBSET Instalments /\ \A j \in D : Holds(req[p], j) \/ j \in req[p].new
    BY <1>2, <1>3
  <2>2. \A j \in Instalments \ D : inst'[j] = inst[j] /\ held'[j] = held[j]
    BY <1>9
  <2> HIDE DEF D
  <2>3. QED
    BY <1>1, <2>1, <2>2, CommitOthers
<1>12. TypeOK'
  BY <1>1, <1>5, <1>6, <1>10, <1>11, CommitTypes DEF TypeOK, Ops
<1>13. RowsInv'
  <2>1. inst[i].loan \in Loans
    BY <1>2, <1>4 DEF IInv, RowsInv
  <2>2. ASSUME NEW j \in Instalments
        PROVE  /\ inst'[j].state = "there" => inst'[j].loan \in Loans
               /\ inst'[j].state # "there" => ~(inst'[j].paidFrom # NoAccount)
    <3>1. CASE j = i
      BY <1>8, <2>1, <3>1
    <3>2. CASE j # i
      BY <1>9, <3>2 DEF IInv, RowsInv, Paid
    <3>3. QED
      BY <3>1, <3>2
  <2>3. QED
    BY <2>2 DEF RowsInv, Paid
<1>14. LedgerMatchesPaid'
  BY <1>7, <1>8, <1>9 DEF IInv, LedgerMatchesPaid, Paid, Repayment
<1>15. QED
  BY <1>11, <1>12, <1>13, <1>14 DEF IInv

\* A schedule that is replaced loses unpaid rows and gains unpaid rows.
LEMMA CommitSetIInv ==
    ASSUME IInv, NEW p \in Requests, CommitSet(p)
    PROVE  IInv'
<1> DEFINE D == req[p].rows \cup req[p].new
<1>1. req[p].op = "set" /\ req[p].pc = "commit" /\ EndAndOvertake(p) /\ Commit(p, "set")
  BY DEF CommitSet, Commit
<1>2. req[p] \in Request /\ req[p].rows \subseteq Instalments /\ req[p].new \subseteq Instalments
  BY DEF IInv, TypeOK, Request
<1>3. req[p].loan \in Loans
  BY <1>1 DEF IInv, Shape
<1>4. /\ \A i \in req[p].rows : inst[i].state = "there" /\ ~Paid(i)
      /\ \A i \in req[p].new : inst[i].state = "none"
  BY <1>1 DEF IInv, Claimed
<1>5. /\ inst \in [Instalments -> InstalmentRow] /\ held \in [Instalments -> Legs]
      /\ received \in [Loans -> Int]
  BY DEF IInv, TypeOK
<1>6. /\ inst' = [i \in Instalments |->
                    IF i \in req[p].rows
                    THEN [inst[i] EXCEPT !.state = "deleted"]
                    ELSE IF i \in req[p].new
                    THEN [state |-> "there", loan |-> req[p].loan, paidFrom |-> NoAccount]
                    ELSE inst[i]]
      /\ held' = held /\ received' = received
  BY DEF CommitSet
<1>7. \A i \in Instalments \ D : inst'[i] = inst[i] /\ held'[i] = held[i]
  BY <1>6
<1>8. \A i \in D : ~Paid(i) /\ inst'[i].paidFrom = NoAccount
  <2>1. \A i \in req[p].new : ~Paid(i)
    BY <1>2, <1>4 DEF IInv, RowsInv
  <2>2. QED
    BY <1>2, <1>4, <1>5, <1>6, <2>1 DEF InstalmentRow, Paid
<1>9. \A i \in D : Holds(req[p], i) \/ i \in req[p].new
  BY <1>1 DEF Holds
<1>10. \A i \in D : inst'[i].state = "there" => inst'[i].loan \in Loans
  BY <1>2, <1>3, <1>5, <1>6 DEF InstalmentRow
<1>11. inst' \in [Instalments -> InstalmentRow]
  BY <1>3, <1>5, <1>6 DEF InstalmentRow
<1>12. /\ req' \in [Requests -> Request]
       /\ \A q \in Requests : Shape(req[q])' /\ Claimed(req[q])'
       /\ \A q, s \in Requests : q # s => Apart(req[q], req[s])'
  BY <1>1, <1>2, <1>7, <1>9, CommitOthers
<1>13. TypeOK'
  BY <1>1, <1>5, <1>6, <1>11, <1>12, CommitTypes DEF TypeOK, Ops
<1>14. RowsInv'
  BY <1>7, <1>8, <1>10 DEF IInv, RowsInv, Paid
<1>15. LedgerMatchesPaid'
  <2>1. ASSUME NEW i \in Instalments PROVE Paid(i)' = Paid(i) /\ (Paid(i) => inst'[i] = inst[i])
    BY <1>7, <1>8 DEF Paid
  <2>2. ASSUME NEW i \in Instalments
        PROVE  held'[i] = IF Paid(i)' THEN Repayment(i, inst'[i].paidFrom) ELSE Zero
    <3>1. held[i] = IF Paid(i) THEN Repayment(i, inst[i].paidFrom) ELSE Zero
      BY DEF IInv, LedgerMatchesPaid
    <3>2. held'[i] = held[i]
      BY <1>6
    <3>3. QED
      BY <2>1, <3>1, <3>2
  <2>3. QED
    BY <2>2 DEF LedgerMatchesPaid, Repayment
<1>16. QED
  BY <1>12, <1>13, <1>14, <1>15 DEF IInv

\* Removing or closing a loan touches no instalment.
LEMMA CommitLoanIInv ==
    ASSUME IInv, NEW p \in Requests, CommitRemove(p) \/ CommitClose(p)
    PROVE  IInv'
<1>1. PICK op \in {"remove", "close"} : Commit(p, op)
  BY DEF CommitRemove, CommitClose
<1>2. req[p].pc = "commit" /\ EndAndOvertake(p)
  BY <1>1 DEF Commit
<1>3. inst' = inst /\ held' = held
  BY DEF CommitRemove, CommitClose
<1>4. received' \in [Loans -> Int]
  BY DEF IInv, TypeOK, Request, CommitRemove, CommitClose
<1>5. /\ req' \in [Requests -> Request]
      /\ \A q \in Requests : Shape(req[q])' /\ Claimed(req[q])'
      /\ \A q, s \in Requests : q # s => Apart(req[q], req[s])'
  <2> DEFINE D == {}
  <2>1. D \in SUBSET Instalments /\ \A i \in D : Holds(req[p], i) \/ i \in req[p].new
    OBVIOUS
  <2>2. \A i \in Instalments \ D : inst'[i] = inst[i] /\ held'[i] = held[i]
    BY <1>3
  <2> HIDE DEF D
  <2>3. QED
    BY <1>2, <2>1, <2>2, CommitOthers
<1>6. TypeOK'
  <2>1. loan' \in [Loans -> LoanRow] /\ raced' \subseteq Loans
    BY <1>1, CommitTypes DEF Ops
  <2>2. QED
    BY <1>3, <1>4, <1>5, <2>1 DEF IInv, TypeOK
<1>7. RowsInv' /\ LedgerMatchesPaid'
  BY <1>3 DEF IInv, RowsInv, LedgerMatchesPaid, Paid
<1>8. QED
  BY <1>5, <1>6, <1>7 DEF IInv

\* A new loan gets unpaid rows nobody else is inserting.
LEMMA CreateIInv ==
    ASSUME IInv, NEW l \in Loans, CreateLoan(l)
    PROVE  IInv'
<1>1. PICK S \in SUBSET {i \in Instalments : Unused(i)} :
         inst' = [i \in Instalments |->
                     IF i \in S THEN [state |-> "there", loan |-> l, paidFrom |-> NoAccount]
                                ELSE inst[i]]
  BY DEF CreateLoan, DrawRows
<1>2. S \subseteq Instalments /\ \A i \in S : Unused(i)
  OBVIOUS
<1>3. held' = held /\ req' = req /\ raced' = raced
  BY DEF CreateLoan
<1>4. /\ loan \in [Loans -> LoanRow] /\ inst \in [Instalments -> InstalmentRow]
      /\ received \in [Loans -> Int]
  BY DEF IInv, TypeOK
<1>5. ASSUME NEW i \in S PROVE inst[i].state = "none" /\ ~Paid(i) /\ inst'[i].paidFrom = NoAccount
  BY <1>1, <1>2 DEF Unused, IInv, RowsInv
<1>6. TypeOK'
  <2>1. inst' \in [Instalments -> InstalmentRow]
    BY <1>1, <1>4 DEF InstalmentRow
  <2>2. loan' \in [Loans -> LoanRow]
    BY <1>4 DEF CreateLoan, LoanRow
  <2>3. received' \in [Loans -> Int]
    BY <1>4, LoanAssumption DEF CreateLoan
  <2>4. QED
    BY <1>3, <2>1, <2>2, <2>3 DEF IInv, TypeOK
<1>7. RowsInv'
  <2>1. ASSUME NEW i \in Instalments
        PROVE  /\ inst'[i].state = "there" => inst'[i].loan \in Loans
               /\ inst'[i].state # "there" => ~(inst'[i].paidFrom # NoAccount)
    <3>1. CASE i \in S
      BY <1>1, <3>1
    <3>2. CASE i \notin S
      BY <1>1, <3>2 DEF IInv, RowsInv, Paid
    <3>3. QED
      BY <3>1, <3>2
  <2>2. QED
    BY <2>1 DEF RowsInv, Paid
<1>8. \A i \in Instalments : Paid(i)' = Paid(i) /\ (Paid(i) => inst'[i] = inst[i])
  BY <1>1, <1>5 DEF Paid
<1>9. LedgerMatchesPaid'
  BY <1>3, <1>8 DEF IInv, LedgerMatchesPaid, Repayment
<1>10. ASSUME NEW q \in Requests PROVE Shape(req[q])' /\ Claimed(req[q])'
  <2>1. Shape(req[q]) /\ Claimed(req[q]) /\ req[q] \in Request
    BY DEF IInv, TypeOK
  <2>2. \A i \in Instalments : inst[i].state = "there" => inst'[i] = inst[i]
    BY <1>1, <1>5
  <2>3. /\ req[q].op \in {"pay", "reverse"} => req[q].inst \in Instalments
        /\ req[q].rows \subseteq Instalments /\ req[q].new \subseteq Instalments
    BY <2>1 DEF Shape, Request
  <2>4. \A i \in req[q].new : inst'[i].state = "none"
    <3>1. \A i \in req[q].new : i \notin S
      BY <1>2 DEF Unused
    <3>2. QED
      BY <1>1, <2>1, <2>3, <3>1 DEF Claimed
  <2>5. Claimed(req[q])'
    BY <1>3, <2>1, <2>2, <2>3, <2>4 DEF Claimed, Paid, Holds
  <2>6. QED
    BY <1>3, <2>1, <2>5
<1>11. \A q, s \in Requests : q # s => Apart(req[q], req[s])'
  BY <1>3 DEF IInv, Apart
<1>12. QED
  BY <1>6, <1>7, <1>9, <1>10, <1>11 DEF IInv

\* Every step of the system keeps the invariant, and so does a stutter.
LEMMA NextIInv == IInv /\ [Next]_vars => IInv'
<1> SUFFICES ASSUME IInv, [Next]_vars PROVE IInv'
  OBVIOUS
<1>1. CASE UNCHANGED vars
  BY <1>1
     DEF vars, IInv, TypeOK, RowsInv, LedgerMatchesPaid, Paid, Shape, Claimed, Apart, Holds
<1>2. ASSUME NEW p \in Requests, Continue(p) PROVE IInv'
  BY <1>2, RepayStepsIInv, SetStepsIInv, LoanStepsIInv, CommitPayIInv, CommitReverseIInv,
     CommitSetIInv, CommitLoanIInv DEF Continue
<1>3. ASSUME NEW p \in Requests, Rollback(p) PROVE IInv'
  BY <1>3, EndIInv DEF Rollback
<1>4. QED
  BY <1>1, <1>2, <1>3, StartIInv, CreateIInv DEF Next

-----------------------------------------------------------------------------
(* What follows for every behaviour.                                       *)

\* The inductive invariant holds in every behaviour of loans.
THEOREM LoanInvariant == Spec => []IInv
BY InitIInv, NextIInv, PTL DEF Spec

\* Every variable keeps its type.
THEOREM LoanTypes == Spec => []TypeOK
<1>1. IInv => TypeOK
  BY DEF IInv
<1>2. QED
  BY <1>1, LoanInvariant, PTL

\* The ledger holds the repayment of a paid instalment once, on the account it
\* was paid from, and nothing of any other instalment (payInstalment,
\* reverseInstalment).
THEOREM LedgerAlwaysMatchesPaid == Spec => []LedgerMatchesPaid
<1>1. IInv => LedgerMatchesPaid
  BY DEF IInv
<1>2. QED
  BY <1>1, LoanInvariant, PTL

\* A paid row changes only by the reversal of its payment (setInstalments).
THEOREM PaidRowsAlwaysStay == Spec => PaidRowsStay
<1> DEFINE Stays == \A i \in Instalments :
                       Paid(i) => \/ inst'[i] = inst[i]
                                  \/ \E p \in Requests : req[p].inst = i /\ CommitReverse(p)
<1>1. IInv /\ Next => Stays
  <2> SUFFICES ASSUME IInv, Next, NEW i \in Instalments, Paid(i), inst'[i] # inst[i]
               PROVE  \E p \in Requests : req[p].inst = i /\ CommitReverse(p)
    OBVIOUS
  <2>1. inst[i].state = "there" /\ inst \in [Instalments -> InstalmentRow]
    BY DEF IInv, RowsInv, TypeOK
  <2>2. ASSUME NEW l \in Loans, CreateLoan(l) PROVE FALSE
    <3>1. PICK S \in SUBSET {j \in Instalments : Unused(j)} :
             inst' = [j \in Instalments |->
                         IF j \in S THEN [state |-> "there", loan |-> l, paidFrom |-> NoAccount]
                                    ELSE inst[j]]
      BY <2>2 DEF CreateLoan, DrawRows
    <3>2. i \notin S
      BY <2>1 DEF Unused
    <3>3. QED
      BY <3>1, <3>2
  <2>3. PICK p \in Requests : Start(p) \/ Continue(p) \/ Rollback(p)
    BY <2>2 DEF Next
  <2>4. ~Unwritten
    BY DEF Unwritten
  <2>5. CommitPay(p) \/ CommitReverse(p) \/ CommitSet(p) \/ CommitRemove(p) \/ CommitClose(p)
    BY <2>3, <2>4
       DEF Start, Continue, Rollback, PayInstalment, ReverseInstalment, Repay, SetInstalments,
           CloseLoan, RemoveLoan, Begin, Claim, CountRemaining, ReverseRepayment, CountPaid,
           FindUnpaid, DeleteUnpaid, InsertInstalments, CheckUnpaid, ReverseReceived, UpdateLoan
  <2>6. ASSUME CommitPay(p) PROVE FALSE
    <3>1. req[p].op = "pay" /\ Holds(req[p], req[p].inst)
      BY <2>6 DEF CommitPay, Commit, Holds
    <3>2. ~Paid(req[p].inst)
      BY <3>1 DEF IInv, Claimed
    <3>3. QED
      BY <2>1, <2>6, <3>2 DEF CommitPay
  <2>7. ASSUME CommitSet(p) PROVE FALSE
    <3>1. req[p].op = "set" /\ req[p].pc = "commit"
      BY <2>7 DEF CommitSet, Commit
    <3>2. i \notin req[p].rows /\ i \notin req[p].new
      BY <2>1, <3>1 DEF IInv, Claimed
    <3>3. QED
      BY <2>7, <3>2 DEF CommitSet
  <2>8. CommitReverse(p)
    BY <2>5, <2>6, <2>7 DEF CommitRemove, CommitClose
  <2>9. req[p].inst = i
    BY <2>1, <2>8 DEF CommitReverse
  <2>10. QED
    BY <2>8, <2>9
<1>2. IInv /\ [Next]_vars => [Stays]_vars
  BY <1>1
<1>3. QED
  BY <1>2, LoanInvariant, PTL DEF Spec, PaidRowsStay

-----------------------------------------------------------------------------
(***************************************************************************)
(* What a loan's status says of its schedule.  A request that nobody has   *)
(* overtaken still knows what it read; whoever commits on a loan makes     *)
(* every other request on it stale.                                        *)
(***************************************************************************)

\* What a request is about to write of its loan.
Drafted(r) ==
    /\ r.write = "active" => r.op = "reverse"
    /\ r.write = "deleted" => r.op = "remove" /\ r.pc \in {"loanRow", "commit"}
    /\ r.op = "pay" /\ r.pc = "loanRow" => r.write = "settled"

\* What a request names stays what it was when the request named it.
Refers(r) ==
    /\ r.op # "none" => loan[r.loan].status # "none"
    /\ r.op \in {"pay", "reverse"} => inst[r.inst].loan = r.loan /\ inst[r.inst].state # "none"
    /\ \A i \in r.rows : inst[i].loan = r.loan /\ inst[i].state # "none"
    /\ r.op = "set" => r.length \in Lengths
    /\ r.op = "set" /\ r.pc = "commit" => r.new # {}

\* What a request read still holds, unless it was overtaken.
Knows(r) ==
    r.op # "none" /\ ~r.stale =>
        /\ ~loan[r.loan].deleted
        /\ r.op = "pay" /\ r.pc = "commit" /\ r.write # "settled" => Unpaid(r.loan) \ {r.inst} # {}
        /\ r.op = "pay" /\ r.write = "settled" => Unpaid(r.loan) \ {r.inst} = {}
        /\ r.op = "remove" /\ r.pc \in {"reverse", "loanRow", "commit"}
              => \A i \in Schedule(r.loan) : ~Paid(i)
        /\ r.op = "remove" /\ r.pc \in {"loanRow", "commit"} => r.owed = received[r.loan]

Fits(r) == Drafted(r) /\ Refers(r) /\ Knows(r)

SettleInv == IInv /\ LoanHoldsUnlessRaced /\ \A p \in Requests : Fits(req[p])

\* An idle request knows nothing.
LEMMA IdleFits == Fits(Idle) /\ Fits(Idle)'
BY DEF Idle, Fits, Drafted, Refers, Knows

\* Before any request there is no loan.
LEMMA InitSettle == Init => SettleInv
<1> SUFFICES ASSUME Init PROVE SettleInv
  OBVIOUS
<1>1. \A p \in Requests : req[p] = Idle
  BY DEF Init
<1>2. LoanHoldsUnlessRaced
  BY DEF Init, NoSuchLoan, LoanHoldsUnlessRaced, ActiveMeansOwedUnlessRaced,
         RemovedLeavesNothingUnlessRaced
<1>3. QED
  BY <1>1, <1>2, InitIInv, IdleFits DEF SettleInv

\* A request that only moves on, with a record that fits.
LEMMA SettleLocal ==
    ASSUME SettleInv, IInv', NEW p \in Requests, NEW r,
           req' = [req EXCEPT ![p] = r], Unwritten, Fits(r)
    PROVE  SettleInv'
<1>1. LoanHoldsUnlessRaced'
  BY DEF SettleInv, Unwritten, LoanHoldsUnlessRaced, ActiveMeansOwedUnlessRaced,
         RemovedLeavesNothingUnlessRaced, Unpaid, Schedule, Paid
<1>2. \A q \in Requests : req'[q] = r \/ req'[q] = req[q]
  BY DEF SettleInv, IInv, TypeOK
<1>3. ASSUME NEW s, Fits(s) PROVE Fits(s)'
  BY <1>3 DEF Unwritten, Fits, Drafted, Refers, Knows, Unpaid, Schedule, Paid
<1>4. ASSUME NEW q \in Requests PROVE Fits(req[q])'
  <2>1. Fits(r)' /\ Fits(req[q]) /\ (Fits(req[q]) => (req'[q] = req[q] => Fits(req[q])'))
    <3>1. Fits(req[q])
      BY DEF SettleInv
    <3>2. ASSUME req'[q] = req[q] PROVE Fits(req[q])'
      BY <3>1, <3>2 DEF Unwritten, Fits, Drafted, Refers, Knows, Unpaid, Schedule, Paid
    <3>3. QED
      BY <1>3, <3>1, <3>2
  <2>2. CASE req'[q] = r
    BY <2>1, <2>2
  <2>3. CASE req'[q] = req[q]
    BY <2>1, <2>3
  <2>4. QED
    BY <1>2, <2>2, <2>3
<1>5. QED
  BY <1>1, <1>4 DEF SettleInv

\* The first statement of a request.
LEMMA SettleStart ==
    ASSUME SettleInv, NEW p \in Requests, Start(p)
    PROVE  SettleInv'
<1>1. IInv' /\ SettleInv
  BY StartIInv DEF SettleInv
<1>2. ASSUME NEW op \in {"pay", "reverse"}, NEW i \in Instalments, NEW a, Repay(p, op, i, a)
      PROVE  SettleInv'
  <2> DEFINE r == [Idle EXCEPT !.pc = "claim", !.op = op, !.loan = inst[i].loan,
                               !.inst = i, !.acct = a]
  <2>1. Fits(r)
    BY <1>2 DEF Repay, Idle, Fits, Drafted, Refers, Knows, LiveLoan
  <2>2. QED
    BY <1>1, <1>2, <2>1, SettleLocal DEF Repay, Begin
<1>3. ASSUME NEW l \in Loans, LiveLoan(l), NEW r, Begin(p, r),
             r.loan = l, r.rows = {}, r.stale = FALSE,
             \/ r.op = "set" /\ r.pc = "countPaid" /\ r.write = "nothing" /\ r.length \in Lengths
             \/ r.op = "close" /\ r.pc = "loanRow" /\ r.write = "closed"
             \/ r.op = "remove" /\ r.pc = "countPaid" /\ r.write = "nothing"
      PROVE  SettleInv'
  <2>1. Drafted(r) /\ Refers(r)
    BY <1>3 DEF Drafted, Refers, LiveLoan
  <2>2. Knows(r)
    BY <1>3 DEF Knows, LiveLoan
  <2>3. req' = [req EXCEPT ![p] = r] /\ Unwritten
    BY <1>3 DEF Begin
  <2>4. QED
    BY <1>1, <2>1, <2>2, <2>3, SettleLocal DEF Fits
<1>4. CASE PayInstalment(p) \/ ReverseInstalment(p)
  BY <1>2, <1>4 DEF PayInstalment, ReverseInstalment
<1>5. CASE SetInstalments(p)
  <2>1. PICK l \in Loans, n \in Lengths :
           /\ LiveLoan(l)
           /\ Begin(p, [Idle EXCEPT !.pc = "countPaid", !.op = "set", !.loan = l, !.length = n])
    BY <1>5 DEF SetInstalments
  <2> DEFINE r == [Idle EXCEPT !.pc = "countPaid", !.op = "set", !.loan = l, !.length = n]
  <2>2. /\ r.loan = l /\ r.rows = {} /\ r.stale = FALSE /\ r.op = "set" /\ r.pc = "countPaid"
        /\ r.write = "nothing" /\ r.length \in Lengths
    BY DEF Idle
  <2>3. LiveLoan(l) /\ Begin(p, r)
    BY <2>1
  <2> HIDE DEF r
  <2>4. QED
    BY <1>3, <2>2, <2>3
<1>6. CASE CloseLoan(p)
  <2>1. PICK l \in Loans :
           /\ LiveLoan(l)
           /\ Begin(p, [Idle EXCEPT !.pc = "loanRow", !.op = "close", !.loan = l,
                                    !.write = "closed"])
    BY <1>6 DEF CloseLoan
  <2> DEFINE r == [Idle EXCEPT !.pc = "loanRow", !.op = "close", !.loan = l, !.write = "closed"]
  <2>2. /\ r.loan = l /\ r.rows = {} /\ r.stale = FALSE /\ r.op = "close" /\ r.pc = "loanRow"
        /\ r.write = "closed"
    BY DEF Idle
  <2>3. LiveLoan(l) /\ Begin(p, r)
    BY <2>1
  <2> HIDE DEF r
  <2>4. QED
    BY <1>3, <2>2, <2>3
<1>7. CASE RemoveLoan(p)
  <2>1. PICK l \in Loans :
           /\ LiveLoan(l)
           /\ Begin(p, [Idle EXCEPT !.pc = "countPaid", !.op = "remove", !.loan = l])
    BY <1>7 DEF RemoveLoan
  <2> DEFINE r == [Idle EXCEPT !.pc = "countPaid", !.op = "remove", !.loan = l]
  <2>2. /\ r.loan = l /\ r.rows = {} /\ r.stale = FALSE /\ r.op = "remove" /\ r.pc = "countPaid"
        /\ r.write = "nothing"
    BY DEF Idle
  <2>3. LiveLoan(l) /\ Begin(p, r)
    BY <2>1
  <2> HIDE DEF r
  <2>4. QED
    BY <1>3, <2>2, <2>3
<1>8. QED
  BY <1>4, <1>5, <1>6, <1>7 DEF Start

\* Paying and reversing count what is left, and read what the ledger holds.
LEMMA SettleRepay ==
    ASSUME SettleInv, NEW p \in Requests,
           Claim(p) \/ CountRemaining(p) \/ ReverseRepayment(p)
    PROVE  SettleInv'
<1>1. IInv' /\ req[p] \in Request /\ Fits(req[p]) /\ Shape(req[p]) /\ Unwritten
  BY RepayStepsIInv DEF SettleInv, IInv, TypeOK, Claim, CountRemaining, ReverseRepayment
<1>2. CASE End(p)
  BY <1>1, <1>2, IdleFits, SettleLocal DEF End
<1>3. CASE Claim(p) /\ ~End(p)
  <2> DEFINE pc == IF req[p].op = "pay" THEN "remaining" ELSE "reverse"
             r == [req[p] EXCEPT !.pc = pc]
  <2>1. req' = [req EXCEPT ![p] = r] /\ req[p].op \in {"pay", "reverse"}
    BY <1>1, <1>3 DEF Claim, Goto, Shape
  <2>2. /\ r.pc = pc /\ r.op = req[p].op /\ r.loan = req[p].loan /\ r.inst = req[p].inst
        /\ r.rows = req[p].rows /\ r.write = req[p].write /\ r.stale = req[p].stale
    BY <1>1 DEF Request
  <2> HIDE DEF r
  <2>3. Fits(r)
    BY <1>1, <2>1, <2>2 DEF Fits, Drafted, Refers, Knows
  <2>4. QED
    BY <1>1, <2>1, <2>3, SettleLocal
<1>4. CASE CountRemaining(p) /\ Remaining(p) = {}
  <2> DEFINE r == [req[p] EXCEPT !.pc = "loanRow", !.write = "settled"]
  <2>1. req' = [req EXCEPT ![p] = r] /\ req[p].op = "pay"
    BY <1>1, <1>4 DEF CountRemaining, Shape
  <2>2. /\ r.pc = "loanRow" /\ r.op = "pay" /\ r.loan = req[p].loan /\ r.inst = req[p].inst
        /\ r.rows = req[p].rows /\ r.write = "settled" /\ r.stale = req[p].stale
    BY <1>1, <2>1 DEF Request
  <2> HIDE DEF r
  <2>3. Fits(r)
    BY <1>1, <1>4, <2>1, <2>2 DEF Fits, Drafted, Refers, Knows, Remaining
  <2>4. QED
    BY <1>1, <2>1, <2>3, SettleLocal
<1>5. CASE CountRemaining(p) /\ Remaining(p) # {}
  <2> DEFINE r == [req[p] EXCEPT !.pc = "commit"]
  <2>1. req' = [req EXCEPT ![p] = r] /\ req[p].op = "pay" /\ req[p].pc = "remaining"
    BY <1>1, <1>5 DEF CountRemaining, Goto, Shape
  <2>2. /\ r.pc = "commit" /\ r.op = "pay" /\ r.loan = req[p].loan /\ r.inst = req[p].inst
        /\ r.rows = req[p].rows /\ r.write = req[p].write /\ r.stale = req[p].stale
    BY <1>1, <2>1 DEF Request
  <2> HIDE DEF r
  <2>3. Fits(r)
    BY <1>1, <1>5, <2>1, <2>2 DEF Fits, Drafted, Refers, Knows, Remaining
  <2>4. QED
    BY <1>1, <2>1, <2>3, SettleLocal
<1>6. CASE ReverseRepayment(p)
  <2> DEFINE r == [req[p] EXCEPT !.pc = "loanRow", !.open = held[req[p].inst],
                                 !.write = "active"]
  <2>1. req' = [req EXCEPT ![p] = r] /\ req[p].op = "reverse"
    BY <1>1, <1>6 DEF ReverseRepayment
  <2>2. /\ r.pc = "loanRow" /\ r.op = "reverse" /\ r.loan = req[p].loan /\ r.inst = req[p].inst
        /\ r.rows = req[p].rows /\ r.write = "active" /\ r.stale = req[p].stale
    BY <1>1, <2>1 DEF Request
  <2> HIDE DEF r
  <2>3. Fits(r)
    BY <1>1, <2>1, <2>2 DEF Fits, Drafted, Refers, Knows
  <2>4. QED
    BY <1>1, <2>1, <2>3, SettleLocal
<1>7. QED
  BY <1>2, <1>3, <1>4, <1>5, <1>6

\* Rows drawn for a place are not nothing.
LEMMA DrawnNotEmpty ==
    ASSUME NEW seqs, NEW n \in seqs, NEW S \in DrawRows(seqs)
    PROVE  S # {}
<1>1. Cardinality({i \in S : SeqOf[i] = n}) = 1
  BY DEF DrawRows
<1>2. {i \in S : SeqOf[i] = n} # {}
  BY <1>1, FS_EmptySet
<1>3. QED
  BY <1>2

\* Replacing a schedule draws at least one row, from a place that nobody has.
LEMMA SettleSet ==
    ASSUME SettleInv, NEW p \in Requests,
           CountPaid(p) \/ FindUnpaid(p) \/ DeleteUnpaid(p) \/ InsertInstalments(p)
    PROVE  SettleInv'
<1>1. IInv' /\ req[p] \in Request /\ Fits(req[p]) /\ Shape(req[p]) /\ Unwritten
  BY SetStepsIInv
     DEF SettleInv, IInv, TypeOK, CountPaid, FindUnpaid, DeleteUnpaid, InsertInstalments
<1>2. req[p].op = "set" /\ req[p].pc # "commit"
  BY <1>1 DEF Shape, CountPaid, FindUnpaid, DeleteUnpaid, InsertInstalments
<1>3. ASSUME NEW r, req' = [req EXCEPT ![p] = r], r.op = "set", r.loan = req[p].loan,
             r.length = req[p].length, r.write = req[p].write, r.stale = req[p].stale,
             r.pc = "commit" => r.new # {},
             \A i \in r.rows : inst[i].loan = r.loan /\ inst[i].state # "none"
      PROVE  SettleInv'
  <2>1. Fits(r)
    BY <1>1, <1>2, <1>3 DEF Fits, Drafted, Refers, Knows
  <2>2. QED
    BY <1>1, <1>3, <2>1, SettleLocal
<1>4. CASE CountPaid(p)
  <2> DEFINE r == [req[p] EXCEPT !.pc = "findUnpaid",
                      !.paid = Cardinality({i \in Schedule(req[p].loan) : Paid(i)})]
  <2>1. /\ r.pc = "findUnpaid" /\ r.op = "set" /\ r.loan = req[p].loan /\ r.rows = req[p].rows
        /\ r.length = req[p].length /\ r.write = req[p].write /\ r.stale = req[p].stale
    BY <1>1, <1>2 DEF Request
  <2>2. req' = [req EXCEPT ![p] = r]
    BY <1>4 DEF CountPaid
  <2> HIDE DEF r
  <2>3. QED
    BY <1>1, <1>3, <2>1, <2>2 DEF Fits, Refers
<1>5. CASE FindUnpaid(p)
  <2> DEFINE r == [req[p] EXCEPT !.pc = "delete", !.rows = Unpaid(req[p].loan)]
  <2>1. /\ r.pc = "delete" /\ r.op = "set" /\ r.loan = req[p].loan /\ r.rows = Unpaid(r.loan)
        /\ r.length = req[p].length /\ r.write = req[p].write /\ r.stale = req[p].stale
    BY <1>1, <1>2 DEF Request
  <2>2. req' = [req EXCEPT ![p] = r]
    BY <1>5 DEF FindUnpaid
  <2> HIDE DEF r
  <2>3. QED
    BY <1>3, <2>1, <2>2 DEF Unpaid, Schedule
<1>6. CASE DeleteUnpaid(p)
  <2> DEFINE r == [req[p] EXCEPT !.pc = "insert", !.rows = StillUnpaid(req[p].rows)]
  <2>1. /\ r.pc = "insert" /\ r.op = "set" /\ r.loan = req[p].loan
        /\ r.rows = StillUnpaid(req[p].rows)
        /\ r.length = req[p].length /\ r.write = req[p].write /\ r.stale = req[p].stale
    BY <1>1, <1>2 DEF Request
  <2>2. req' = [req EXCEPT ![p] = r]
    BY <1>6 DEF DeleteUnpaid
  <2> HIDE DEF r
  <2>3. QED
    BY <1>1, <1>3, <2>1, <2>2 DEF StillUnpaid, Fits, Refers
<1>7. CASE InsertInstalments(p) /\ End(p)
  BY <1>1, <1>7, IdleFits, SettleLocal DEF End
<1>8. CASE InsertInstalments(p) /\ ~End(p)
  <2>1. PICK S \in DrawRows(NewSeqs(p)) :
           req' = [req EXCEPT ![p] = [req[p] EXCEPT !.pc = "commit", !.new = S]]
    BY <1>1, <1>8 DEF InsertInstalments, SettleInv, IInv, TypeOK
  <2> DEFINE r == [req[p] EXCEPT !.pc = "commit", !.new = S]
  <2>2. S # {}
    <3>1. req[p].paid \in Nat /\ req[p].length \in Nat \ {0}
      BY <1>1, <1>2, LoanAssumption DEF Request, Fits, Refers
    <3>2. req[p].paid + 1 \in NewSeqs(p)
      BY <3>1 DEF NewSeqs
    <3>3. QED
      BY <3>2, DrawnNotEmpty
  <2>3. /\ r.pc = "commit" /\ r.op = "set" /\ r.loan = req[p].loan /\ r.rows = req[p].rows
        /\ r.length = req[p].length /\ r.write = req[p].write /\ r.stale = req[p].stale
        /\ r.new = S
    BY <1>1, <1>2 DEF Request
  <2>4. req' = [req EXCEPT ![p] = r]
    BY <2>1
  <2> HIDE DEF r
  <2>5. QED
    BY <1>1, <1>3, <2>2, <2>3, <2>4 DEF Fits, Refers
<1>9. QED
  BY <1>4, <1>5, <1>6, <1>7, <1>8

\* What removing a loan reads stays read, and the update of its row waits its turn.
LEMMA SettleLoanSteps ==
    ASSUME SettleInv, NEW p \in Requests,
           CheckUnpaid(p) \/ ReverseReceived(p) \/ UpdateLoan(p)
    PROVE  SettleInv'
<1>1. IInv' /\ req[p] \in Request /\ Fits(req[p]) /\ Shape(req[p]) /\ Unwritten
  BY LoanStepsIInv DEF SettleInv, IInv, TypeOK, CheckUnpaid, ReverseReceived, UpdateLoan
<1>2. CASE End(p)
  BY <1>1, <1>2, IdleFits, SettleLocal DEF End
<1>3. CASE CheckUnpaid(p) /\ ~End(p)
  <2> DEFINE r == [req[p] EXCEPT !.pc = "reverse"]
  <2>1. /\ r.pc = "reverse" /\ r.op = req[p].op /\ r.loan = req[p].loan /\ r.rows = req[p].rows
        /\ r.write = req[p].write /\ r.stale = req[p].stale
    BY <1>1 DEF Request
  <2>2. /\ req' = [req EXCEPT ![p] = r] /\ req[p].op = "remove" /\ req[p].pc = "countPaid"
        /\ \A i \in Schedule(req[p].loan) : ~Paid(i)
    BY <1>3 DEF CheckUnpaid, Goto
  <2> HIDE DEF r
  <2>3. Fits(r)
    BY <1>1, <2>1, <2>2 DEF Fits, Drafted, Refers, Knows
  <2>4. QED
    BY <1>1, <2>2, <2>3, SettleLocal
<1>4. CASE ReverseReceived(p)
  <2> DEFINE r == [req[p] EXCEPT !.pc = "loanRow", !.owed = received[req[p].loan],
                                 !.write = "deleted"]
  <2>1. /\ r.pc = "loanRow" /\ r.op = req[p].op /\ r.loan = req[p].loan /\ r.rows = req[p].rows
        /\ r.write = "deleted" /\ r.stale = req[p].stale /\ r.owed = received[req[p].loan]
    BY <1>1 DEF Request
  <2>2. req' = [req EXCEPT ![p] = r] /\ req[p].op = "remove" /\ req[p].pc = "reverse"
    BY <1>4 DEF ReverseReceived
  <2> HIDE DEF r
  <2>3. Fits(r)
    BY <1>1, <2>1, <2>2 DEF Fits, Drafted, Refers, Knows
  <2>4. QED
    BY <1>1, <2>2, <2>3, SettleLocal
<1>5. CASE UpdateLoan(p)
  <2> DEFINE r == [req[p] EXCEPT !.pc = "commit"]
  <2>1. /\ r.pc = "commit" /\ r.op = req[p].op /\ r.loan = req[p].loan /\ r.rows = req[p].rows
        /\ r.inst = req[p].inst
        /\ r.write = req[p].write /\ r.stale = req[p].stale /\ r.owed = req[p].owed
    BY <1>1 DEF Request
  <2>2. req' = [req EXCEPT ![p] = r] /\ req[p].pc = "loanRow"
    BY <1>5 DEF UpdateLoan, Goto
  <2>3. req[p].op # "set"
    BY <1>1, <2>2 DEF Shape
  <2> HIDE DEF r
  <2>4. Fits(r)
    <3>1. Drafted(r) /\ Refers(r)
      BY <1>1, <2>1, <2>2, <2>3 DEF Fits, Drafted, Refers
    <3>2. Knows(r)
      BY <1>1, <2>1, <2>2, <2>3 DEF Fits, Drafted, Knows
    <3>3. QED
      BY <3>1, <3>2 DEF Fits
  <2>5. QED
    BY <1>1, <2>2, <2>4, SettleLocal
<1>6. QED
  BY <1>2, <1>3, <1>4, <1>5

\* What a commit leaves of the rows other requests refer to.
LEMMA CommitKeepsStatus ==
    ASSUME SettleInv, NEW p \in Requests, NEW op \in Ops \ {"none"}, Commit(p, op)
    PROVE  /\ \A l \in Loans : loan[l].status # "none" => loan'[l].status # "none"
           /\ \A l \in Loans \ {req[p].loan} : loan'[l] = loan[l]
<1>1. loan \in [Loans -> LoanRow] /\ req[p] \in Request /\ req[p].loan \in Loans
  BY DEF SettleInv, IInv, TypeOK, Shape, Commit
<1>2. loan' = [loan EXCEPT ![req[p].loan] = WrittenLoan(p)]
  BY DEF Commit
<1>3. loan[req[p].loan].status # "none" => WrittenLoan(p).status # "none"
  <2>1. loan[req[p].loan] \in LoanRow
    BY <1>1
  <2>2. req[p].write \in {"nothing", "active", "settled", "closed", "deleted"}
    BY <1>1 DEF Request
  <2>3. CASE req[p].write = "nothing"
    BY <2>3 DEF WrittenLoan
  <2>4. CASE req[p].write = "deleted"
    BY <2>1, <2>4 DEF WrittenLoan, LoanRow
  <2>5. CASE req[p].write \in {"active", "settled", "closed"}
    BY <2>1, <2>5 DEF WrittenLoan, LoanRow
  <2>6. QED
    BY <2>2, <2>3, <2>4, <2>5
<1>4. QED
  BY <1>1, <1>2, <1>3

\* A commit leaves the other requests on its loan behind, and the requests on
\* another loan with what they read.
LEMMA CommitFits ==
    ASSUME SettleInv, NEW p \in Requests, NEW op \in Ops \ {"none"}, Commit(p, op),
           \A i \in Instalments :
               inst[i].state # "none" => inst'[i].loan = inst[i].loan /\ inst'[i].state # "none",
           \A k \in Loans \ {req[p].loan} :
               /\ Schedule(k)' = Schedule(k) /\ received'[k] = received[k]
               /\ \A i \in Schedule(k) : inst'[i] = inst[i],
           NEW q \in Requests
    PROVE  Fits(req[q])'
<1>1. req[q] \in Request /\ Shape(req[q]) /\ Fits(req[q])
  BY DEF SettleInv, IInv, TypeOK
<1>2. /\ \A l \in Loans : loan[l].status # "none" => loan'[l].status # "none"
      /\ \A l \in Loans \ {req[p].loan} : loan'[l] = loan[l]
  BY CommitKeepsStatus
<1>3. CASE q = p
  <2>1. req'[q] = Idle
    BY <1>3 DEF Commit, EndAndOvertake
  <2>2. QED
    BY <2>1, IdleFits DEF Fits, Drafted, Refers, Knows
<1>4. ASSUME NEW r, r.op = req[q].op, r.inst = req[q].inst, r.loan = req[q].loan,
             r.rows = req[q].rows, r.length = req[q].length, r.pc = req[q].pc, r.new = req[q].new
      PROVE  Refers(r)'
  <2>1. /\ req[q].rows \subseteq Instalments
        /\ req[q].op \in {"pay", "reverse"} => req[q].inst \in Instalments
        /\ req[q].op # "none" => req[q].loan \in Loans
    BY <1>1 DEF Request, Shape
  <2>2. QED
    BY <1>1, <1>2, <1>4, <2>1 DEF Fits, Refers
<1>5. CASE q # p /\ req[q].loan = req[p].loan
  <2>0. PICK r : r = [req[q] EXCEPT !.stale = TRUE]
    OBVIOUS
  <2>1. req'[q] = r
    BY <1>5, <2>0 DEF Commit, EndAndOvertake
  <2>2. /\ r.op = req[q].op /\ r.inst = req[q].inst /\ r.loan = req[q].loan /\ r.rows = req[q].rows
        /\ r.length = req[q].length /\ r.pc = req[q].pc /\ r.new = req[q].new
        /\ r.write = req[q].write /\ r.stale
    BY <1>1, <2>0 DEF Request
  <2>3. Refers(r)'
    BY <1>4, <2>2
  <2>4. Drafted(r)' /\ Knows(r)'
    BY <1>1, <2>2 DEF Fits, Drafted, Knows
  <2>5. QED
    BY <2>1, <2>3, <2>4 DEF Fits, Refers, Drafted, Knows
<1>6. CASE q # p /\ req[q].loan # req[p].loan
  <2>1. req'[q] = req[q]
    BY <1>6 DEF Commit, EndAndOvertake
  <2>2. Refers(req[q])'
    <3>1. \A r : r = req[q] => Refers(r)'
      BY <1>4
    <3>2. QED
      BY <2>1, <3>1 DEF Refers
  <2>3. Drafted(req[q])'
    BY <1>1, <2>1 DEF Fits, Drafted
  <2>4. Knows(req[q])'
    <3>1. CASE req[q].op = "none"
      BY <2>1, <3>1 DEF Knows
    <3>2. CASE req[q].op # "none"
      <4>1. PICK k \in Loans \ {req[p].loan} : k = req[q].loan
        BY <1>1, <1>6, <3>2 DEF Shape
      <4>2. /\ loan'[k] = loan[k] /\ received'[k] = received[k] /\ Schedule(k)' = Schedule(k)
            /\ \A i \in Schedule(k) : inst'[i] = inst[i]
        BY <1>2, <4>1
      <4>3. Unpaid(k)' = Unpaid(k) /\ \A i \in Schedule(k) : Paid(i)' = Paid(i)
        BY <4>2 DEF Unpaid, Paid
      <4>4. PICK s : s = req[q]
        OBVIOUS
      <4>5. Knows(s)
        BY <1>1, <4>4 DEF Fits
      <4>6. Knows(s)'
        BY <3>2, <4>1, <4>2, <4>3, <4>4, <4>5 DEF Knows
      <4>7. QED
        BY <2>1, <4>4, <4>6 DEF Knows
    <3>3. QED
      BY <3>1, <3>2
  <2>5. QED
    BY <2>2, <2>3, <2>4 DEF Fits
<1>7. QED
  BY <1>3, <1>5, <1>6

\* A commit that leaves its own loan settled leaves every loan settled.
LEMMA SettleCommit ==
    ASSUME SettleInv, IInv', NEW p \in Requests, NEW op \in Ops \ {"none"}, Commit(p, op),
           NEW l \in Loans, l = req[p].loan,
           \A i \in Instalments :
               inst[i].state # "none" => inst'[i].loan = inst[i].loan /\ inst'[i].state # "none",
           \A k \in Loans \ {l} :
               /\ Schedule(k)' = Schedule(k) /\ received'[k] = received[k]
               /\ \A i \in Schedule(k) : inst'[i] = inst[i] /\ held'[i] = held[i],
           \/ req[p].stale
           \/ l \in raced
           \/ /\ loan'[l].status = "active" => Unpaid(l)' # {}
              /\ loan'[l].deleted => received'[l] = 0 /\ \A i \in Schedule(l)' : held'[i] = Zero
    PROVE  SettleInv'
<1>1. \A k \in Loans \ {l} : loan'[k] = loan[k]
  BY CommitKeepsStatus
<1>2. \A q \in Requests : Fits(req[q])'
  BY CommitFits
<1>3. raced \subseteq raced' /\ (req[p].stale => l \in raced')
  BY DEF Commit
<1>4. ASSUME NEW k \in Loans, k \notin raced'
      PROVE  /\ loan'[k].status = "active" => Unpaid(k)' # {}
             /\ loan'[k].deleted => received'[k] = 0 /\ \A i \in Schedule(k)' : held'[i] = Zero
  <2>1. CASE k = l
    BY <1>3, <1>4, <2>1
  <2>2. CASE k # l
    <3>1. /\ loan[k].status = "active" => Unpaid(k) # {}
          /\ loan[k].deleted => received[k] = 0 /\ \A i \in Schedule(k) : held[i] = Zero
      BY <1>3, <1>4 DEF SettleInv, LoanHoldsUnlessRaced, ActiveMeansOwedUnlessRaced,
                        RemovedLeavesNothingUnlessRaced
    <3>2. /\ loan'[k] = loan[k] /\ Schedule(k)' = Schedule(k) /\ received'[k] = received[k]
          /\ \A i \in Schedule(k) : inst'[i] = inst[i] /\ held'[i] = held[i]
      BY <1>1, <2>2
    <3>3. Unpaid(k)' = Unpaid(k)
      BY <3>2 DEF Unpaid, Paid
    <3>4. QED
      BY <3>1, <3>2, <3>3
  <2>3. QED
    BY <2>1, <2>2
<1>5. LoanHoldsUnlessRaced'
  BY <1>4 DEF LoanHoldsUnlessRaced, ActiveMeansOwedUnlessRaced, RemovedLeavesNothingUnlessRaced
<1>6. QED
  BY <1>2, <1>5 DEF SettleInv

\* What a commit knows when it starts.
LEMMA CommitFacts ==
    ASSUME SettleInv, NEW p \in Requests, NEW op \in Ops \ {"none"}, Commit(p, op)
    PROVE  /\ req[p] \in Request /\ req[p].op = op /\ req[p].pc = "commit" /\ req[p].loan \in Loans
           /\ Shape(req[p]) /\ Claimed(req[p]) /\ Fits(req[p])
           /\ loan \in [Loans -> LoanRow] /\ inst \in [Instalments -> InstalmentRow]
           /\ held \in [Instalments -> Legs] /\ received \in [Loans -> Int]
           /\ loan'[req[p].loan] = WrittenLoan(p)
           /\ loan[req[p].loan] \in LoanRow
BY DEF SettleInv, IInv, TypeOK, Shape, Commit

\* A payment: what it counted is what it leaves.
LEMMA CommitPaySettles ==
    ASSUME SettleInv, NEW p \in Requests, CommitPay(p)
    PROVE  SettleInv' /\ (req[p].write = "settled" /\ ~req[p].stale
                            => \A l \in Loans : l = req[p].loan => Unpaid(l)' = {})
<1>1. PICK i : i = req[p].inst
  OBVIOUS
<1>2. PICK l : l = req[p].loan
  OBVIOUS
<1>3. IInv' /\ Commit(p, "pay") /\ "pay" \in Ops \ {"none"}
  BY CommitPayIInv DEF SettleInv, CommitPay, Ops
<1>4. /\ Fits(req[p]) /\ req[p].op = "pay" /\ req[p].pc = "commit" /\ l \in Loans
      /\ inst \in [Instalments -> InstalmentRow]
      /\ loan[l] \in LoanRow /\ loan'[l] = WrittenLoan(p)
  BY <1>2, <1>3, CommitFacts
<1>5. i \in Instalments /\ inst[i].loan = l /\ inst[i].state = "there" /\ req[p].acct # NoAccount
  <2>1. Shape(req[p]) /\ Claimed(req[p])
    BY <1>3, CommitFacts
  <2>2. QED
    BY <1>1, <1>2, <1>4, <2>1, LoanAssumption DEF Shape, Claimed, Holds, Fits, Refers
<1>6. /\ inst' = [inst EXCEPT ![i].paidFrom = req[p].acct] /\ received' = received
      /\ \A j \in Instalments \ {i} : held'[j] = held[j]
  <2>1. \E h : held' = [held EXCEPT ![i] = h]
    BY <1>1 DEF CommitPay
  <2>2. held \in [Instalments -> Legs]
    BY <1>3, CommitFacts
  <2>3. QED
    BY <1>1, <2>1, <2>2 DEF CommitPay
<1>7. /\ inst'[i].loan = l /\ inst'[i].state = "there" /\ inst'[i].paidFrom = req[p].acct
      /\ \A j \in Instalments \ {i} : inst'[j] = inst[j]
  BY <1>4, <1>5, <1>6 DEF InstalmentRow
<1>8. \A j \in Instalments :
         inst[j].state # "none" => inst'[j].loan = inst[j].loan /\ inst'[j].state # "none"
  BY <1>5, <1>7
<1>9. \A k \in Loans : Schedule(k)' = Schedule(k)
  BY <1>5, <1>7 DEF Schedule
<1>10. \A k \in Loans \ {l} : \A j \in Schedule(k) : inst'[j] = inst[j] /\ held'[j] = held[j]
  BY <1>5, <1>6, <1>7 DEF Schedule
<1>11. Unpaid(l)' = Unpaid(l) \ {i}
  BY <1>4, <1>5, <1>7, <1>9 DEF Unpaid, Paid, Schedule
<1>12. ASSUME ~req[p].stale
       PROVE  /\ loan'[l].status = "active" => Unpaid(l)' # {}
              /\ ~loan'[l].deleted
              /\ req[p].write = "settled" => Unpaid(l)' = {}
  <2>1. /\ ~loan[l].deleted /\ req[p].write # "deleted"
        /\ req[p].write = "settled" => Unpaid(l) \ {i} = {}
        /\ req[p].write # "settled" => Unpaid(l) \ {i} # {}
    BY <1>1, <1>2, <1>4, <1>12 DEF Fits, Drafted, Knows
  <2>2. req[p].write = "settled" => WrittenLoan(p) = [loan[l] EXCEPT !.status = "settled"]
    BY <1>2 DEF WrittenLoan
  <2>3. ~WrittenLoan(p).deleted
    BY <1>2, <1>4, <2>1 DEF WrittenLoan, LoanRow
  <2>4. QED
    BY <1>4, <1>11, <2>1, <2>2, <2>3 DEF LoanRow
<1>13. SettleInv'
  BY <1>2, <1>3, <1>4, <1>6, <1>8, <1>9, <1>10, <1>12, SettleCommit
<1>14. QED
  BY <1>2, <1>12, <1>13

\* A reversal leaves the row it reversed to be paid.
LEMMA CommitReverseSettles ==
    ASSUME SettleInv, NEW p \in Requests, CommitReverse(p)
    PROVE  SettleInv'
<1>1. PICK i : i = req[p].inst
  OBVIOUS
<1>2. PICK l : l = req[p].loan
  OBVIOUS
<1>3. IInv' /\ Commit(p, "reverse") /\ "reverse" \in Ops \ {"none"}
  BY CommitReverseIInv DEF SettleInv, CommitReverse, Ops
<1>4. /\ Fits(req[p]) /\ req[p].op = "reverse" /\ req[p].pc = "commit" /\ l \in Loans
      /\ inst \in [Instalments -> InstalmentRow]
      /\ loan[l] \in LoanRow /\ loan'[l] = WrittenLoan(p)
  BY <1>2, <1>3, CommitFacts
<1>5. i \in Instalments /\ inst[i].loan = l /\ inst[i].state = "there"
  <2>1. Shape(req[p]) /\ Claimed(req[p])
    BY <1>3, CommitFacts
  <2>2. QED
    BY <1>1, <1>2, <1>4, <2>1 DEF Shape, Claimed, Holds, Fits, Refers
<1>6. /\ inst' = [inst EXCEPT ![i].paidFrom = NoAccount] /\ received' = received
      /\ \A j \in Instalments \ {i} : held'[j] = held[j]
  <2>1. \E h : held' = [held EXCEPT ![i] = h]
    BY <1>1 DEF CommitReverse
  <2>2. held \in [Instalments -> Legs]
    BY <1>3, CommitFacts
  <2>3. QED
    BY <1>1, <2>1, <2>2 DEF CommitReverse
<1>7. /\ inst'[i].loan = l /\ inst'[i].state = "there" /\ inst'[i].paidFrom = NoAccount
      /\ \A j \in Instalments \ {i} : inst'[j] = inst[j]
  BY <1>4, <1>5, <1>6 DEF InstalmentRow
<1>8. \A j \in Instalments :
         inst[j].state # "none" => inst'[j].loan = inst[j].loan /\ inst'[j].state # "none"
  BY <1>5, <1>7
<1>9. \A k \in Loans : Schedule(k)' = Schedule(k)
  BY <1>5, <1>7 DEF Schedule
<1>10. \A k \in Loans \ {l} : \A j \in Schedule(k) : inst'[j] = inst[j] /\ held'[j] = held[j]
  BY <1>5, <1>6, <1>7 DEF Schedule
<1>11. Unpaid(l)' # {}
  BY <1>5, <1>7 DEF Unpaid, Paid, Schedule
<1>12. req[p].stale \/ ~loan'[l].deleted
  <2>1. SUFFICES ASSUME ~req[p].stale PROVE ~WrittenLoan(p).deleted
    BY <1>4
  <2>2. ~loan[l].deleted /\ req[p].write # "deleted"
    BY <1>2, <1>4, <2>1 DEF Fits, Drafted, Knows
  <2>3. QED
    BY <1>2, <1>4, <2>2 DEF WrittenLoan, LoanRow
<1>13. QED
  BY <1>2, <1>3, <1>4, <1>6, <1>8, <1>9, <1>10, <1>11, <1>12, SettleCommit

\* A new schedule has a row to pay, and takes no row of another loan.
LEMMA CommitSetSettles ==
    ASSUME SettleInv, NEW p \in Requests, CommitSet(p)
    PROVE  SettleInv'
<1>1. PICK l : l = req[p].loan
  OBVIOUS
<1>2. IInv' /\ Commit(p, "set") /\ "set" \in Ops \ {"none"}
  BY CommitSetIInv DEF SettleInv, CommitSet, Ops
<1>3. /\ req[p] \in Request /\ Fits(req[p]) /\ req[p].op = "set" /\ req[p].pc = "commit"
      /\ l \in Loans /\ inst \in [Instalments -> InstalmentRow]
      /\ loan[l] \in LoanRow /\ loan'[l] = WrittenLoan(p)
  BY <1>1, <1>2, CommitFacts
<1>4. PICK rows, new : rows = req[p].rows /\ new = req[p].new
  OBVIOUS
<1>5. /\ rows \subseteq Instalments /\ new \subseteq Instalments /\ new # {}
      /\ \A i \in rows : inst[i].loan = l /\ inst[i].state = "there"
      /\ \A i \in new : inst[i].state = "none"
  <2>1. Claimed(req[p])
    BY <1>2, CommitFacts
  <2>2. QED
    BY <1>1, <1>3, <1>4, <2>1 DEF Request, Fits, Refers, Claimed
<1>6. /\ inst' = [i \in Instalments |->
                    IF i \in rows THEN [inst[i] EXCEPT !.state = "deleted"]
                    ELSE IF i \in new
                    THEN [state |-> "there", loan |-> l, paidFrom |-> NoAccount]
                    ELSE inst[i]]
      /\ held' = held /\ received' = received
  BY <1>1, <1>4 DEF CommitSet
<1>7. /\ \A i \in rows : inst'[i].state = "deleted" /\ inst'[i].loan = l
      /\ \A i \in new : inst'[i] = [state |-> "there", loan |-> l, paidFrom |-> NoAccount]
      /\ \A i \in Instalments \ (rows \cup new) : inst'[i] = inst[i]
  BY <1>3, <1>5, <1>6 DEF InstalmentRow
<1>8. \A i \in Instalments :
         inst[i].state # "none" => inst'[i].loan = inst[i].loan /\ inst'[i].state # "none"
  BY <1>5, <1>7
<1>9. \A k \in Loans \ {l} : Schedule(k)' = Schedule(k)
  BY <1>5, <1>7 DEF Schedule
<1>10. \A k \in Loans \ {l} : \A i \in Schedule(k) : inst'[i] = inst[i] /\ held'[i] = held[i]
  BY <1>5, <1>6, <1>7 DEF Schedule
<1>11. Unpaid(l)' # {}
  BY <1>5, <1>7 DEF Unpaid, Paid, Schedule
<1>12. req[p].stale \/ ~loan'[l].deleted
  <2>1. SUFFICES ASSUME ~req[p].stale PROVE ~WrittenLoan(p).deleted
    BY <1>3
  <2>2. ~loan[l].deleted /\ req[p].write # "deleted"
    BY <1>1, <1>3, <2>1 DEF Fits, Drafted, Knows
  <2>3. QED
    BY <1>1, <1>3, <2>2 DEF WrittenLoan, LoanRow
<1>13. \A k \in Loans \ {l} : received'[k] = received[k]
  BY <1>6
<1>14. QED
  BY <1>1, <1>2, <1>3, <1>8, <1>9, <1>10, <1>11, <1>12, <1>13,
     SettleCommit

\* A loan is removed with everything it left on the accounts, or closed.
LEMMA CommitLoanSettles ==
    ASSUME SettleInv, NEW p \in Requests, CommitRemove(p) \/ CommitClose(p)
    PROVE  SettleInv'
<1>1. PICK l : l = req[p].loan
  OBVIOUS
<1>2. PICK op \in {"remove", "close"} :
         Commit(p, op) /\ (op = "remove" => CommitRemove(p)) /\ (op = "close" => CommitClose(p))
  BY DEF CommitRemove, CommitClose
<1>3. IInv' /\ op \in Ops \ {"none"}
  BY CommitLoanIInv DEF SettleInv, Ops
<1>4. /\ req[p] \in Request /\ Fits(req[p]) /\ req[p].op = op /\ req[p].pc = "commit"
      /\ l \in Loans /\ received \in [Loans -> Int]
      /\ loan[l] \in LoanRow /\ loan'[l] = WrittenLoan(p)
  BY <1>1, <1>2, <1>3, CommitFacts
<1>5. /\ inst' = inst /\ held' = held
      /\ op = "remove" => received' = [received EXCEPT ![l] = @ - req[p].owed]
      /\ op = "close" => received' = received
  BY <1>1, <1>2 DEF CommitRemove, CommitClose
<1>6. \A k \in Loans \ {l} : received'[k] = received[k]
  BY <1>2, <1>4, <1>5
<1>7. \A k \in Loans : Schedule(k)' = Schedule(k) /\ Unpaid(k)' = Unpaid(k)
  BY <1>5 DEF Schedule, Unpaid, Paid
<1>8. CASE req[p].stale \/ l \in raced
  BY <1>1, <1>2, <1>3, <1>4, <1>5, <1>6, <1>7, <1>8, SettleCommit
<1>9. CASE ~req[p].stale /\ l \notin raced
  <2>1. loan[l].status = "active" => Unpaid(l) # {}
    BY <1>4, <1>9 DEF SettleInv, LoanHoldsUnlessRaced, ActiveMeansOwedUnlessRaced
  <2>2. req[p].write # "active" /\ ~loan[l].deleted
    BY <1>1, <1>2, <1>4, <1>9 DEF Fits, Drafted, Knows
  <2>3. loan'[l].status = "active" => Unpaid(l)' # {}
    <3>1. WrittenLoan(p).status = "active" => loan[l].status = "active"
      BY <1>1, <1>4, <2>2 DEF WrittenLoan, LoanRow, Request
    <3>2. QED
      BY <1>4, <1>7, <2>1, <3>1
  <2>4. ASSUME loan'[l].deleted
        PROVE  received'[l] = 0 /\ \A i \in Schedule(l)' : held'[i] = Zero
    <3>1. req[p].write = "deleted"
      BY <1>1, <1>4, <2>2, <2>4 DEF WrittenLoan, LoanRow, Request
    <3>2. /\ op = "remove" /\ req[p].owed = received[l]
          /\ \A i \in Schedule(l) : ~Paid(i)
      BY <1>1, <1>4, <1>9, <3>1 DEF Fits, Drafted, Knows
    <3>3. received'[l] = 0
      BY <1>4, <1>5, <3>2
    <3>4. \A i \in Schedule(l) : held[i] = Zero
      BY <3>2 DEF SettleInv, IInv, LedgerMatchesPaid, Schedule
    <3>5. QED
      BY <1>4, <1>5, <1>7, <3>3, <3>4
  <2>5. QED
    BY <1>1, <1>2, <1>3, <1>4, <1>5, <1>6, <1>7, <2>3, <2>4, SettleCommit
<1>10. QED
  BY <1>8, <1>9
\* A new loan has a row to pay, and nobody is working on it.
LEMMA CreateSettles ==
    ASSUME SettleInv, NEW l \in Loans, CreateLoan(l)
    PROVE  SettleInv'
<1>1. PICK n \in Lengths :
         \E S \in DrawRows(1..n) :
            inst' = [i \in Instalments |->
                        IF i \in S THEN [state |-> "there", loan |-> l, paidFrom |-> NoAccount]
                                   ELSE inst[i]]
  BY DEF CreateLoan
<1>2. PICK S \in DrawRows(1..n) :
         inst' = [i \in Instalments |->
                     IF i \in S THEN [state |-> "there", loan |-> l, paidFrom |-> NoAccount]
                                ELSE inst[i]]
  BY <1>1
<1>3. /\ S \subseteq Instalments /\ S # {}
      /\ \A i \in S : inst[i].state = "none" /\ inst'[i].state = "there" /\ inst'[i].loan = l
                                           /\ inst'[i].paidFrom = NoAccount
      /\ \A i \in Instalments \ S : inst'[i] = inst[i]
  <2>1. S \subseteq Instalments /\ \A i \in S : inst[i].state = "none"
    BY DEF DrawRows, Unused
  <2>2. 1 \in 1..n
    BY LoanAssumption
  <2>3. S # {}
    BY <2>2, DrawnNotEmpty
  <2>4. QED
    BY <1>2, <2>1, <2>3
<1>4. IInv' /\ loan \in [Loans -> LoanRow] /\ received \in [Loans -> Int]
  BY CreateIInv DEF SettleInv, IInv, TypeOK
<1>5. /\ loan[l].status = "none" /\ loan'[l].status = "active" /\ loan'[l].deleted = FALSE
      /\ \A k \in Loans \ {l} : loan'[k] = loan[k] /\ received'[k] = received[k]
      /\ held' = held /\ req' = req /\ raced' = raced
  BY <1>4 DEF CreateLoan, NoSuchLoan
<1>6. \A k \in Loans \ {l} : Schedule(k)' = Schedule(k) /\ Unpaid(k)' = Unpaid(k)
  BY <1>3 DEF Schedule, Unpaid, Paid
<1>7. Unpaid(l)' # {}
  BY <1>3 DEF Schedule, Unpaid, Paid
<1>8. ASSUME NEW k \in Loans, k \notin raced
      PROVE  /\ loan'[k].status = "active" => Unpaid(k)' # {}
             /\ loan'[k].deleted => received'[k] = 0 /\ \A i \in Schedule(k)' : held'[i] = Zero
  BY <1>5, <1>6, <1>7, <1>8
     DEF SettleInv, LoanHoldsUnlessRaced, ActiveMeansOwedUnlessRaced,
         RemovedLeavesNothingUnlessRaced
<1>9. LoanHoldsUnlessRaced'
  BY <1>5, <1>8
     DEF LoanHoldsUnlessRaced, ActiveMeansOwedUnlessRaced, RemovedLeavesNothingUnlessRaced
<1>10. ASSUME NEW q \in Requests PROVE Fits(req[q])'
  <2>1. PICK r : r = req[q]
    OBVIOUS
  <2>2. Fits(r) /\ Shape(r) /\ r \in Request
    BY <2>1 DEF SettleInv, IInv, TypeOK
  <2>3. r.op # "none" => r.loan \in Loans \ {l}
    BY <1>5, <2>2 DEF Fits, Refers, Shape
  <2>4. Refers(r)'
    <3>1. \A i \in Instalments : inst[i].state # "none" => inst'[i] = inst[i]
      BY <1>3
    <3>2. r.rows \subseteq Instalments /\ (r.op \in {"pay", "reverse"} => r.inst \in Instalments)
      BY <2>2 DEF Request, Shape
    <3>3. QED
      BY <1>5, <2>2, <2>3, <3>1, <3>2 DEF Fits, Refers
  <2>5. Knows(r)'
    <3>1. CASE r.op = "none"
      BY <3>1 DEF Knows
    <3>2. CASE r.op # "none"
      <4>1. PICK k \in Loans \ {l} : k = r.loan
        BY <2>3, <3>2
      <4>2. /\ Schedule(k)' = Schedule(k) /\ Unpaid(k)' = Unpaid(k)
            /\ \A i \in Schedule(k) : Paid(i)' = Paid(i)
        BY <1>3, <1>6 DEF Schedule, Paid
      <4>3. QED
        BY <1>5, <2>2, <3>2, <4>1, <4>2 DEF Fits, Knows
    <3>3. QED
      BY <3>1, <3>2
  <2>6. QED
    BY <1>5, <2>1, <2>2, <2>4, <2>5 DEF Fits, Drafted, Refers, Knows
<1>11. QED
  BY <1>4, <1>9, <1>10 DEF SettleInv

\* Every step keeps what is known of a loan's schedule.
LEMMA NextSettle == SettleInv /\ [Next]_vars => SettleInv'
<1> SUFFICES ASSUME SettleInv, [Next]_vars PROVE SettleInv'
  OBVIOUS
<1>1. IInv'
  BY NextIInv DEF SettleInv
<1>2. CASE UNCHANGED vars
  BY <1>1, <1>2
     DEF vars, SettleInv, Fits, Drafted, Refers, Knows, Schedule, Unpaid, Paid,
         LoanHoldsUnlessRaced, ActiveMeansOwedUnlessRaced, RemovedLeavesNothingUnlessRaced
<1>3. ASSUME NEW p \in Requests, Continue(p) PROVE SettleInv'
  BY <1>3, SettleRepay, SettleSet, SettleLoanSteps, CommitPaySettles, CommitReverseSettles,
     CommitSetSettles, CommitLoanSettles DEF Continue
<1>4. ASSUME NEW p \in Requests, Rollback(p) PROVE SettleInv'
  BY <1>1, <1>4, IdleFits, SettleLocal DEF Rollback, End
<1>5. QED
  BY <1>2, <1>3, <1>4, SettleStart, CreateSettles DEF Next

\* What a request has read of its loan, in every behaviour.
LEMMA LoanSettleInv == Spec => []SettleInv
BY InitSettle, NextSettle, PTL DEF Spec

\* An active loan has something left to pay and a removed one left nothing behind,
\* until a request on it was overtaken (payInstalment, setInstalments, remove).
THEOREM LoanHolds == Spec => []LoanHoldsUnlessRaced
<1>1. SettleInv => LoanHoldsUnlessRaced
  BY DEF SettleInv
<1>2. QED
  BY <1>1, LoanSettleInv, PTL

\* A payment that settles its loan, and was not overtaken, leaves no row unpaid
\* (payInstalment counts what remains after its claim).
THEOREM PaymentsSettleOnlyRepaidLoans == Spec => SettlesOnlyWhenRepaid
<1> DEFINE Settles == \A p \in Requests, l \in Loans :
                         CommitPay(p) /\ req[p].loan = l /\ req[p].write = "settled"
                           /\ ~req[p].stale => Unpaid(l)' = {}
<1>1. SettleInv => Settles
  BY CommitPaySettles
<1>2. SettleInv /\ [Next]_vars => [Settles]_vars
  BY <1>1
<1>3. QED
  BY <1>2, LoanSettleInv, PTL DEF Spec, SettlesOnlyWhenRepaid
=============================================================================
