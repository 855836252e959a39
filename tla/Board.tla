------------------------------- MODULE Board -------------------------------
(***************************************************************************)
(* A company's task board: its columns (workflowStatus.service.ts) and the *)
(* tasks on them (task.service.ts).  The project board keeps its columns   *)
(* by the same code.  A transaction reads when it begins and writes when   *)
(* it commits: in between it holds nothing that would stop another from    *)
(* inserting or deleting a column.  A column's name and place are left     *)
(* out, and so is switching it off: where new work starts is any column.   *)
(***************************************************************************)
EXTENDS FiniteSets

CONSTANTS Editors,   \* requests under way
          Columns, NoColumn,
          Tasks

ASSUME BoardAssumption == NoColumn \notin Columns

VARIABLES column,     \* column[k]: a row of workflow_statuses
          task,       \* task[t]: a row of tasks
          editor,     \* editor[p]: what request p has read and is about to write
          reshaped,   \* ghost: some request wrote a column that was overtaken by another
          waived,     \* ghost: a PATCH has switched off the default since one was last set
          drifted,    \* ghost: tasks written, or whose column was given another meaning, since read
          createdDone \* ghost: tasks created in a done column that have not left done since

boardVars == <<column, task, editor, reshaped, waived, drifted, createdDone>>

-----------------------------------------------------------------------------
\* Of the category only one thing matters here, whether it is StatusCategory.done.
ColumnRows   == [there : BOOLEAN, done : BOOLEAN, default : BOOLEAN]
NoSuchColumn == [there |-> FALSE, done |-> FALSE, default |-> FALSE]

TaskRows  == [column : Columns \cup {NoColumn}, completed : BOOLEAN, deleted : BOOLEAN]
NotOnBoard == [column |-> NoColumn, completed |-> FALSE, deleted |-> FALSE]

\* The fields of a payload that matter here; an edit gives any of them.
Fields == {"done", "default"}

Idle == [op |-> "none", column |-> NoColumn, gives |-> {}, row |-> NoSuchColumn, seen |-> {},
         tasks |-> {}, completed |-> FALSE, stale |-> FALSE]

Existing == {k \in Columns : column[k].there}
OnColumn(k) == {t \in Tasks : task[t].column = k}   \* soft-deleted ones included
Done(k) == column[k].done

\* seedWorkflowStatuses, cut down to one column that starts work and one that ends it.
BoardInit ==
    /\ \E first, last \in Columns :
          /\ first # last
          /\ column = [k \in Columns |->
                CASE k = first -> [there |-> TRUE, done |-> FALSE, default |-> TRUE]
                  [] k = last  -> [there |-> TRUE, done |-> TRUE, default |-> FALSE]
                  [] OTHER     -> NoSuchColumn]
    /\ task = [t \in Tasks |-> NotOnBoard]
    /\ editor = [p \in Editors |-> Idle]
    /\ reshaped = FALSE /\ waived = FALSE /\ drifted = {} /\ createdDone = {}

Begin(p, r) ==
    /\ editor[p].op = "none"
    /\ editor' = [editor EXCEPT ![p] = r]
    /\ UNCHANGED <<column, task, reshaped, waived, drifted, createdDone>>

\* What r writes is not as q has read it.  Two edits do not overtake one another: the
\* statement that clears the default waits for every row it has found, and looks at it again.
Overtakes(r, q) ==
    \/ q.op \in {"add", "edit"} /\ q.row.default /\ r.op = "add"
    \/ q.op = "remove" /\ (r.op = "remove" \/ "default" \in r.gives)
    \/ q.op = "move" /\ (r.op = "remove" \/ "done" \in r.gives)

Ended(p) ==
    /\ editor' = [q \in Editors |->
                     IF q = p THEN Idle
                     ELSE [editor[q] EXCEPT !.stale = @ \/ Overtakes(editor[p], editor[q])]]
    /\ reshaped' = (reshaped \/ editor[p].stale)

-----------------------------------------------------------------------------
(* Columns.                                                                *)

\* The columns that the statement which clears the old default finds: those there
\* were when it started, one inserted while it waited for a lock not among them.
Cleared(default) == IF default THEN Existing ELSE {}

AddColumn(p, k) ==
    /\ ~column[k].there
    /\ \E done, default \in BOOLEAN :
          Begin(p, [Idle EXCEPT !.op = "add", !.column = k, !.gives = Fields,
                    !.seen = Cleared(default),
                    !.row = [there |-> TRUE, done |-> done, default |-> default]])

EditColumn(p, k) ==
    /\ column[k].there
    /\ \E gives \in SUBSET Fields, done, default \in BOOLEAN :
          /\ done => "done" \in gives
          /\ default => "default" \in gives
          /\ Begin(p, [Idle EXCEPT !.op = "edit", !.column = k, !.gives = gives,
                       !.seen = Cleared(default),
                       !.row = [there |-> TRUE, done |-> done, default |-> default]])

\* The column after the write: what the payload does not give stays as it is by then.
Given(r) ==
    [there   |-> TRUE,
     done    |-> IF "done" \in r.gives THEN r.row.done ELSE Done(r.column),
     default |-> IF "default" \in r.gives THEN r.row.default ELSE column[r.column].default]

\* An edit of a column that has been deleted since fails.
WriteColumn(p) ==
    LET r == editor[p]
        k == r.column IN
    /\ r.op \in {"add", "edit"} /\ (column[k].there <=> r.op = "edit")
    /\ column' = [j \in Columns |->
                     IF j = k THEN Given(r)
                     ELSE IF j \in r.seen THEN [column[j] EXCEPT !.default = FALSE]
                     ELSE column[j]]
    /\ waived' = (~r.row.default /\ (waived \/ (column[k].default /\ ~Given(r).default)))
    /\ drifted' = IF Done(k) # Given(r).done THEN drifted \cup OnColumn(k) ELSE drifted
    /\ Ended(p)
    /\ UNCHANGED <<task, createdDone>>

MayRemove(k) == column[k].there /\ OnColumn(k) = {} /\ Existing \ {k} # {}

RemoveColumn(p, k) ==
    /\ MayRemove(k)
    /\ Begin(p, [Idle EXCEPT !.op = "remove", !.column = k,
                       !.row = [NoSuchColumn EXCEPT !.default = column[k].default]])

\* Mutant of Heirs: a default that is deleted is passed on to none.
NoHeirs(r) == {}

\* Who may take over where work starts from the column r removes: the first that is left.
Heirs(r) == IF r.row.default THEN Existing \ {r.column} ELSE {}

\* The foreign key refuses a column that a task has come to since.
DeleteColumn(p) ==
    LET r == editor[p] IN
    /\ r.op = "remove" /\ column[r.column].there /\ OnColumn(r.column) = {}
    /\ \E next \in IF Heirs(r) # {} THEN Heirs(r) ELSE {NoColumn} :
          column' = [j \in Columns |->
                        CASE j = r.column -> NoSuchColumn
                          [] j = next     -> [column[j] EXCEPT !.default = TRUE]
                          [] OTHER        -> column[j]]
    /\ Ended(p)
    /\ UNCHANGED <<task, waived, drifted, createdDone>>

-----------------------------------------------------------------------------
(* Tasks.                                                                  *)

\* In the column of the payload, or the one that defaultStatusId finds.
CreateTask(t) ==
    /\ task[t] = NotOnBoard
    /\ \E k \in Existing :
          /\ task' = [task EXCEPT ![t] = [NotOnBoard EXCEPT !.column = k]]
          /\ createdDone' = IF Done(k) THEN createdDone \cup {t} ELSE createdDone
    /\ UNCHANGED <<column, editor, reshaped, waived, drifted>>

\* completed_at after a move of t to k: set on the way in, cleared on the way out.
Completed(t, k) ==
    CASE Done(k) /\ ~Done(task[t].column) -> TRUE
      [] ~Done(k) /\ Done(task[t].column) -> FALSE
      [] OTHER                            -> task[t].completed

MoveTask(p, t) ==
    /\ task[t] # NotOnBoard /\ ~task[t].deleted
    /\ \E k \in Existing :
          Begin(p, [Idle EXCEPT !.op = "move", !.column = k, !.tasks = {t},
                    !.completed = Completed(t, k)])

WriteTask(p) ==
    LET r == editor[p]
        k == r.column IN
    /\ r.op = "move" /\ column[k].there
    /\ task' = [t \in Tasks |->
                   IF t \in r.tasks THEN [task[t] EXCEPT !.column = k, !.completed = r.completed]
                   ELSE task[t]]
    /\ drifted' = IF r.stale THEN drifted \cup r.tasks ELSE drifted
    /\ createdDone' = IF Done(k) THEN createdDone ELSE createdDone \ r.tasks
    /\ editor' = [q \in Editors |->
                     IF q = p THEN Idle
                     ELSE [editor[q] EXCEPT !.stale = @ \/ editor[q].tasks = r.tasks]]
    /\ UNCHANGED <<column, reshaped, waived>>

DeleteTask(t) ==
    /\ task[t] # NotOnBoard /\ ~task[t].deleted
    /\ task' = [task EXCEPT ![t].deleted = TRUE]
    /\ UNCHANGED <<column, editor, reshaped, waived, drifted, createdDone>>

BoardNext ==
    \/ \E p \in Editors, k \in Columns : AddColumn(p, k) \/ EditColumn(p, k) \/ RemoveColumn(p, k)
    \/ \E p \in Editors, t \in Tasks : MoveTask(p, t)
    \/ \E p \in Editors : WriteColumn(p) \/ DeleteColumn(p) \/ WriteTask(p)
    \/ \E t \in Tasks : CreateTask(t) \/ DeleteTask(t)

BoardSpec == BoardInit /\ [][BoardNext]_boardVars

-----------------------------------------------------------------------------
BoardTypeOK ==
    /\ column \in [Columns -> ColumnRows]
    /\ task \in [Tasks -> TaskRows]
    /\ editor \in [Editors -> [op : {"none", "add", "edit", "remove", "move"},
                               column : Columns \cup {NoColumn}, gives : SUBSET Fields,
                               row : ColumnRows, seen : SUBSET Columns, tasks : SUBSET Tasks,
                               completed : BOOLEAN, stale : BOOLEAN]]
    /\ reshaped \in BOOLEAN /\ waived \in BOOLEAN
    /\ drifted \subseteq Tasks /\ createdDone \subseteq Tasks

(***************************************************************************)
(* "One default per board" (workflowStatus.service.ts:130) and "Never      *)
(* leave a board without a default: the next thing created would land      *)
(* nowhere" (:213).  The code keeps the first, and that there is a column  *)
(* at all, unless a request overtook another.  The second it breaks        *)
(* without any race: a PATCH with is_default false gives the default away  *)
(* to nobody (:146).  What holds is that there is one unless such a PATCH  *)
(* came after the last that set one.                                       *)
(***************************************************************************)
OneDefaultUnlessRacedOrWaived ==
    ~reshaped => /\ Existing # {}
                 /\ \A k, j \in Existing : column[k].default /\ column[j].default => k = j
                 /\ waived \/ \E k \in Existing : column[k].default

(***************************************************************************)
(* A completion date and the column agree, as task.validation.ts:18 wants, *)
(* for every task but those created in a done column, those whose column   *)
(* was given another meaning and those that two requests moved at once.    *)
(***************************************************************************)
CompletionFollowsUnlessRaced ==
    \A t \in Tasks \ (drifted \cup createdDone) :
        task[t].column # NoColumn => (task[t].completed <=> Done(task[t].column))

=============================================================================
