----------------------------- MODULE TimeSheet -----------------------------
(***************************************************************************)
(* Hours logged on projects and their tasks, and their approval            *)
(* (timeEntry.service.ts), with who is on which project                    *)
(* (projectMember.service.ts), since that decides who may log.  What a     *)
(* request decides on, it has read before it writes.                       *)
(***************************************************************************)
EXTENDS Naturals, FiniteSets

CONSTANTS Workers,           \* people; each has one request under way at most
          Approvers,         \* those of them who see and edit everybody's time, and every project
          Jobs, NoJob,       \* projects
          Pieces, NoPiece,   \* tasks
          Entries, NoEntry,
          Hours

ASSUME TimeSheetAssumption ==
    /\ Approvers \subseteq Workers /\ Hours \subseteq Nat /\ 0 \notin Hours
    /\ NoJob \notin Jobs /\ NoPiece \notin Pieces /\ NoEntry \notin Entries

VARIABLES onJob,      \* rows of project_members
          pieceOf,    \* pieceOf[t]: the project of task t
          entry,      \* entry[e]: a row of time_entries
          worker,     \* worker[u]: what the request of u is about to write
          signed,     \* ghost: signed[e], the hours and the project of e when it was approved
          disputed    \* ghost: entries written by a request that another had overtaken

timeVars == <<onJob, pieceOf, entry, worker, signed, disputed>>

-----------------------------------------------------------------------------
EntryRows == [by : Workers, job : Jobs, piece : Pieces \cup {NoPiece}, hours : Hours,
              approved : BOOLEAN, deleted : BOOLEAN]
Slips == [job : Jobs, hours : Hours]
Off == [op |-> "none", of |-> NoEntry, stale |-> FALSE]

Logged == DOMAIN entry

TimeSheetInit ==
    /\ onJob = {}
    /\ pieceOf \in [Pieces -> Jobs]
    /\ entry = [e \in {} |-> NoEntry]
    /\ worker = [u \in Workers |-> Off]
    /\ signed = [e \in {} |-> NoEntry]
    /\ disputed = {}

\* assertReferences: the project is one the caller sees, and the task one of its own.
Sees(u, job) == u \in Approvers \/ <<u, job>> \in onJob
BelongsTo(piece, job) == piece # NoPiece => pieceOf[piece] = job

\* An approver's own membership decides nothing here.
AssignMember(u, job) ==
    /\ u \notin Approvers
    /\ onJob' = onJob \cup {<<u, job>>}
    /\ UNCHANGED <<pieceOf, entry, worker, signed, disputed>>

RemoveMember(u, job) ==
    /\ <<u, job>> \in onJob
    /\ onJob' = onJob \ {<<u, job>>}
    /\ UNCHANGED <<pieceOf, entry, worker, signed, disputed>>

\* updateTask with a project_id.
MovePiece(t) ==
    /\ \E job \in Jobs : pieceOf' = [pieceOf EXCEPT ![t] = job]
    /\ UNCHANGED <<onJob, entry, worker, signed, disputed>>

-----------------------------------------------------------------------------
CreateEntry(u, e) ==
    /\ e \notin Logged
    /\ \E job \in Jobs, piece \in Pieces \cup {NoPiece}, hours \in Hours :
          /\ Sees(u, job) /\ BelongsTo(piece, job)
          /\ entry' = [x \in Logged \cup {e} |->
                          IF x # e THEN entry[x]
                          ELSE [by |-> u, job |-> job, piece |-> piece, hours |-> hours,
                                approved |-> FALSE, deleted |-> FALSE]]
    /\ UNCHANGED <<onJob, pieceOf, worker, signed, disputed>>

Present(e) == e \in Logged /\ ~entry[e].deleted

\* Mutant of Correctable: approval does not stop the hours from being changed.
WhileOnFile(u, e) == Present(e) /\ (entry[e].by = u \/ u \in Approvers)

Correctable(u, e) ==
    Present(e) /\ (entry[e].by = u \/ u \in Approvers) /\ ~entry[e].approved

Take(u, r) ==
    /\ worker[u] = Off
    /\ worker' = [worker EXCEPT ![u] = r]
    /\ UNCHANGED <<onJob, pieceOf, entry, signed, disputed>>

\* Of the pair of project and task a payload gives any part; the rest is the entry's.
\* The scope is asked for a project that is given, the pair is compared once it is touched.
UpdateEntry(u, e) ==
    /\ Correctable(u, e)
    /\ \E gives \in SUBSET {"project", "task"},
          job \in Jobs, piece \in Pieces \cup {NoPiece}, hours \in Hours :
          /\ IF "project" \in gives THEN Sees(u, job) ELSE job = entry[e].job
          /\ "task" \in gives \/ piece = entry[e].piece
          /\ gives = {} \/ BelongsTo(piece, job)
          /\ Take(u, [op |-> "update", of |-> e, stale |-> FALSE, gives |-> gives,
                      job |-> job, piece |-> piece, hours |-> hours])

DeleteEntry(u, e) ==
    Correctable(u, e) /\ Take(u, [op |-> "delete", of |-> e, stale |-> FALSE])

SetApproval(u, e) ==
    /\ u \in Approvers /\ Present(e) /\ entry[e].by # u
    /\ \E op \in {"approve", "unapprove"} : Take(u, [op |-> op, of |-> e, stale |-> FALSE])

Written(u) ==
    LET r == worker[u] IN
    CASE r.op = "update"    -> [entry[r.of] EXCEPT
                                   !.job = IF "project" \in r.gives THEN r.job ELSE @,
                                   !.piece = IF "task" \in r.gives THEN r.piece ELSE @,
                                   !.hours = r.hours]
      [] r.op = "delete"    -> [entry[r.of] EXCEPT !.deleted = TRUE]
      [] r.op = "approve"   -> [entry[r.of] EXCEPT !.approved = TRUE]
      [] r.op = "unapprove" -> [entry[r.of] EXCEPT !.approved = FALSE]

WriteEntry(u) ==
    LET r == worker[u] IN
    /\ r.op # "none"
    /\ entry' = [entry EXCEPT ![r.of] = Written(u)]
    /\ signed' = [e \in DOMAIN signed \cup {x \in {r.of} : r.op = "approve"} |->
                     IF r.op = "approve" /\ e = r.of
                     THEN [job |-> entry[e].job, hours |-> entry[e].hours] ELSE signed[e]]
    /\ disputed' = IF r.stale THEN disputed \cup {r.of} ELSE disputed
    /\ worker' = [v \in Workers |->
                     IF v = u THEN Off
                     ELSE [worker[v] EXCEPT !.stale = @ \/ worker[v].of = r.of]]
    /\ UNCHANGED <<onJob, pieceOf>>

TimeSheetNext ==
    \/ \E u \in Workers, job \in Jobs : AssignMember(u, job) \/ RemoveMember(u, job)
    \/ \E t \in Pieces : MovePiece(t)
    \/ \E u \in Workers, e \in Entries :
          CreateEntry(u, e) \/ UpdateEntry(u, e) \/ DeleteEntry(u, e) \/ SetApproval(u, e)
    \/ \E u \in Workers : WriteEntry(u)

TimeSheetSpec == TimeSheetInit /\ [][TimeSheetNext]_timeVars

-----------------------------------------------------------------------------
TimeSheetTypeOK ==
    /\ onJob \subseteq Workers \X Jobs /\ pieceOf \in [Pieces -> Jobs]
    /\ Logged \subseteq Entries /\ \A e \in Logged : entry[e] \in EntryRows
    /\ \A u \in Workers : /\ worker[u].op \in {"none", "update", "delete", "approve", "unapprove"}
                          /\ worker[u].of \in Entries \cup {NoEntry}
                          /\ worker[u].stale \in BOOLEAN
    /\ DOMAIN signed \subseteq Logged /\ \A e \in DOMAIN signed : signed[e] \in Slips
    /\ disputed \subseteq Entries

(***************************************************************************)
(* "Approved entries are frozen" (timeEntry.service.ts:18): an approved    *)
(* entry is still there, with the hours and the project it had when it was *)
(* approved.  An edit is refused on what was read before it: an approval   *)
(* that comes in between is overtaken.                                     *)
(***************************************************************************)
ApprovedIsFrozenUnlessRaced ==
    \A e \in Logged \ disputed :
        entry[e].approved => /\ ~entry[e].deleted
                             /\ signed[e] = [job |-> entry[e].job, hours |-> entry[e].hours]

=============================================================================
