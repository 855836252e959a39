--------------------------- MODULE DeliveryProofs ---------------------------
(***************************************************************************)
(* What holds of the boards, the hours, the leads, the projects and the    *)
(* milestones of a company for every set of requests and rows and every    *)
(* plan.  They share no variable, so each has an invariant of its own, and *)
(* each says the same: a request that nobody has overtaken still finds     *)
(* what it decided on.                                                     *)
(***************************************************************************)
EXTENDS MCDelivery, FiniteSetTheorems, SequenceTheorems, TLAPS

-----------------------------------------------------------------------------
(* The board.                                                              *)

\* What an editor that nobody has overtaken has read of the board is still so.
ColumnsAreAsRead(p) ==
    LET r == editor[p] IN
    ~r.stale =>
       /\ r.op \in {"add", "edit"} =>
             /\ r.column \in Columns /\ r.row.there
             /\ r.row.default => /\ Existing \subseteq r.seen /\ "default" \in r.gives
             /\ ~r.row.default => r.seen = {}
       /\ r.op = "remove" =>
             /\ r.column \in Columns /\ r.row.default = column[r.column].default
             /\ Existing \ {r.column} # {}

TasksAreAsRead(p) ==
    LET r == editor[p] IN
    r.op = "move" =>
       /\ r.column \in Columns
       /\ \E t \in Tasks : /\ r.tasks = {t} /\ task[t].column # NoColumn
                           /\ ~r.stale => r.completed = Completed(t, r.column)

CreatedStayDone == \A t \in createdDone : task[t].column # NoColumn /\ Done(task[t].column)

\* Only a task that there is not has no column.
RowsHaveColumns == \A t \in Tasks : task[t].column = NoColumn => task[t] = NotOnBoard

\* A column that there is not is the default of nothing.
GoneAreBare == \A k \in Columns : ~column[k].there => ~column[k].default

BoardInv ==
    /\ BoardTypeOK /\ RowsHaveColumns /\ GoneAreBare
    /\ OneDefaultUnlessRacedOrWaived /\ CompletionFollowsUnlessRaced
    /\ ~reshaped /\ drifted = {} =>
          /\ CreatedStayDone
          /\ \A p \in Editors : /\ editor[p].op # "none" => editor[p].column \in Columns
                                /\ ColumnsAreAsRead(p) /\ TasksAreAsRead(p)

\* An editor at rest.
LEMMA IdleIsOK == Idle.op = "none" /\ Idle.stale = FALSE /\ Idle.tasks = {}
    BY DEF Idle

\* A new board has one column that starts work, and no task.
LEMMA BoardBegins == BoardInit => BoardInv
<1> SUFFICES ASSUME BoardInit PROVE BoardInv
    OBVIOUS
<1>1. PICK first \in Columns, last \in Columns :
        /\ first # last
        /\ column = [k \in Columns |->
                CASE k = first -> [there |-> TRUE, done |-> FALSE, default |-> TRUE]
                  [] k = last  -> [there |-> TRUE, done |-> TRUE, default |-> FALSE]
                  [] OTHER     -> NoSuchColumn]
    BY DEF BoardInit
<1>2. BoardTypeOK
    BY <1>1 DEF BoardInit, BoardTypeOK, ColumnRows, NoSuchColumn, TaskRows, NotOnBoard, Idle
<1>3. OneDefaultUnlessRacedOrWaived
    BY <1>1 DEF OneDefaultUnlessRacedOrWaived, Existing, NoSuchColumn
<1>4. CompletionFollowsUnlessRaced
    BY DEF BoardInit, CompletionFollowsUnlessRaced, NotOnBoard
<1>5. CreatedStayDone
    BY DEF BoardInit, CreatedStayDone
<1>6. \A p \in Editors : editor[p].op = "none"
    BY IdleIsOK DEF BoardInit
<1>7. \A p \in Editors : ColumnsAreAsRead(p) /\ TasksAreAsRead(p)
    BY <1>6 DEF ColumnsAreAsRead, TasksAreAsRead
<1>8. RowsHaveColumns
    BY DEF BoardInit, RowsHaveColumns
<1>9. GoneAreBare
    BY <1>1 DEF GoneAreBare, NoSuchColumn
<1> QED BY <1>2, <1>3, <1>4, <1>5, <1>6, <1>7, <1>8, <1>9 DEF BoardInv

\* What a request on the board may be, as BoardTypeOK has it.
EditorRows == [op : {"none", "add", "edit", "remove", "move"},
               column : Columns \cup {NoColumn}, gives : SUBSET Fields, row : ColumnRows,
               seen : SUBSET Columns, tasks : SUBSET Tasks, completed : BOOLEAN,
               stale : BOOLEAN]

\* A board is followed this far (DeliveryNext).
Settled == ~reshaped /\ drifted = {}

\* A request that begins has read the board as it is.
LEMMA BeginKeeps ==
    ASSUME BoardInv, Settled, NEW p \in Editors, NEW r \in EditorRows, Begin(p, r),
           r.stale = FALSE,
           r.op # "none" => r.column \in Columns,
           r.op \in {"add", "edit"} =>
              /\ r.row.there
              /\ r.row.default => Existing \subseteq r.seen /\ "default" \in r.gives
              /\ ~r.row.default => r.seen = {},
           r.op = "remove" => /\ r.row.default = column[r.column].default
                              /\ Existing \ {r.column} # {},
           r.op = "move" => \E t \in Tasks : /\ r.tasks = {t} /\ task[t].column # NoColumn
                                             /\ r.completed = Completed(t, r.column)
    PROVE  BoardInv'
<1>1. /\ editor' = [editor EXCEPT ![p] = r]
      /\ UNCHANGED <<column, task, reshaped, waived, drifted, createdDone>>
    BY DEF Begin
<1>2. editor \in [Editors -> EditorRows]
    BY DEF BoardInv, BoardTypeOK, EditorRows
<1>3. editor' \in [Editors -> EditorRows]
    BY <1>1, <1>2
<1>4. BoardTypeOK'
    BY <1>1, <1>3 DEF BoardInv, BoardTypeOK, EditorRows
<1>5. /\ Existing' = Existing
      /\ OneDefaultUnlessRacedOrWaived' /\ CompletionFollowsUnlessRaced' /\ CreatedStayDone'
      /\ RowsHaveColumns' /\ GoneAreBare'
    BY <1>1 DEF BoardInv, Settled, Existing, OneDefaultUnlessRacedOrWaived,
                CompletionFollowsUnlessRaced, CreatedStayDone, Done, RowsHaveColumns, GoneAreBare
<1>6. ASSUME NEW q \in Editors
      PROVE  /\ (editor[q].op # "none" => editor[q].column \in Columns)'
             /\ ColumnsAreAsRead(q)' /\ TasksAreAsRead(q)'
    <2>1. CASE q # p
        <3>1. editor'[q] = editor[q]
            BY <1>1, <1>2, <2>1
        <3>2. /\ editor[q].op # "none" => editor[q].column \in Columns
              /\ ColumnsAreAsRead(q) /\ TasksAreAsRead(q)
            BY DEF BoardInv, Settled
        <3> QED BY <1>1, <1>5, <3>1, <3>2 DEF ColumnsAreAsRead, TasksAreAsRead, Completed, Done
    <2>2. CASE q = p
        <3>1. editor'[q] = r
            BY <1>1, <1>2, <2>2
        <3>2. ColumnsAreAsRead(q)'
            BY <1>1, <1>5, <3>1 DEF ColumnsAreAsRead
        <3>3. TasksAreAsRead(q)'
            BY <1>1, <3>1 DEF TasksAreAsRead, Completed, Done
        <3> QED BY <3>1, <3>2, <3>3
    <2> QED BY <2>1, <2>2
<1> QED BY <1>4, <1>5, <1>6 DEF BoardInv

\* What a request to add, edit or remove a column reads, and what it decides.
LEMMA ColumnEditsBegin ==
    ASSUME BoardInv, Settled, NEW p \in Editors, NEW k \in Columns,
           AddColumn(p, k) \/ EditColumn(p, k) \/ RemoveColumn(p, k)
    PROVE  BoardInv'
<1>1. /\ NoSuchColumn \in ColumnRows /\ NoSuchColumn.default = FALSE
      /\ Existing \subseteq Columns /\ NoColumn \notin Columns
      /\ column \in [Columns -> ColumnRows] /\ task \in [Tasks -> TaskRows]
    BY BoardAssumption DEF NoSuchColumn, ColumnRows, Existing, BoardInv, BoardTypeOK
<1>2. CASE AddColumn(p, k) \/ EditColumn(p, k)
    <2>1. PICK op \in {"add", "edit"}, gives \in SUBSET Fields, done \in BOOLEAN,
               default \in BOOLEAN :
            /\ default => "default" \in gives
            /\ Begin(p, [Idle EXCEPT !.op = op, !.column = k, !.gives = gives,
                         !.seen = Cleared(default),
                         !.row = [there |-> TRUE, done |-> done, default |-> default]])
        <3>1. CASE AddColumn(p, k)
            <4>1. Fields \in SUBSET Fields /\ "default" \in Fields
                BY DEF Fields
            <4> QED BY <3>1, <4>1 DEF AddColumn
        <3>2. CASE EditColumn(p, k)
            BY <3>2 DEF EditColumn
        <3> QED BY <1>2, <3>1, <3>2
    <2>2. PICK r : r = [Idle EXCEPT !.op = op, !.column = k, !.gives = gives,
                        !.seen = Cleared(default),
                        !.row = [there |-> TRUE, done |-> done, default |-> default]]
        OBVIOUS
    <2>3. /\ r.op = op /\ r.column = k /\ r.seen = Cleared(default) /\ r.stale = FALSE
          /\ r.row = [there |-> TRUE, done |-> done, default |-> default] /\ r.gives = gives
        BY <2>2 DEF Idle
    <2>4. /\ Cleared(default) \subseteq Columns /\ (default => Cleared(default) = Existing)
          /\ ~default => Cleared(default) = {}
        BY <1>1 DEF Cleared
    <2>5. r \in EditorRows
        BY <1>1, <2>2, <2>4 DEF Idle, EditorRows, ColumnRows
    <2>6. Begin(p, r)
        BY <2>1, <2>2
    <2>7. /\ r.op \in {"add", "edit"} =>
                /\ r.row.there
                /\ r.row.default => Existing \subseteq r.seen /\ "default" \in r.gives
                /\ ~r.row.default => r.seen = {}
          /\ r.op # "remove" /\ r.op # "move" /\ (r.op # "none" => r.column \in Columns)
        BY <2>1, <2>3, <2>4
    <2> QED BY <2>3, <2>5, <2>6, <2>7, BeginKeeps
<1>3. CASE RemoveColumn(p, k)
    <2>1. PICK r : r = [Idle EXCEPT !.op = "remove", !.column = k,
                        !.row = [NoSuchColumn EXCEPT !.default = column[k].default]]
        OBVIOUS
    <2>2. Begin(p, r) /\ MayRemove(k)
        BY <1>3, <2>1 DEF RemoveColumn
    <2>3. /\ r.op = "remove" /\ r.column = k /\ r.stale = FALSE
          /\ r.row.default = column[k].default
        BY <2>1 DEF Idle, NoSuchColumn
    <2>4. r \in EditorRows
        BY <1>1, <2>1 DEF Idle, EditorRows, ColumnRows, NoSuchColumn
    <2>5. Existing \ {r.column} # {}
        BY <2>2, <2>3 DEF MayRemove
    <2> QED BY <2>2, <2>3, <2>4, <2>5, BeginKeeps
<1> QED BY <1>2, <1>3

\* What a move reads: where the task is, and whether it was finished there.
LEMMA MovesBegin ==
    ASSUME BoardInv, Settled, NEW p \in Editors, NEW t \in Tasks, MoveTask(p, t)
    PROVE  BoardInv'
<1>1. /\ NoSuchColumn \in ColumnRows /\ NoSuchColumn.default = FALSE
      /\ Existing \subseteq Columns /\ NoColumn \notin Columns
      /\ column \in [Columns -> ColumnRows] /\ task \in [Tasks -> TaskRows]
    BY BoardAssumption DEF NoSuchColumn, ColumnRows, Existing, BoardInv, BoardTypeOK
<1>2. PICK j \in Existing :
        Begin(p, [Idle EXCEPT !.op = "move", !.column = j, !.tasks = {t},
                  !.completed = Completed(t, j)])
    BY DEF MoveTask
<1>3. PICK r : r = [Idle EXCEPT !.op = "move", !.column = j, !.tasks = {t},
                    !.completed = Completed(t, j)]
    OBVIOUS
<1>4. /\ r.op = "move" /\ r.column = j /\ r.stale = FALSE /\ r.tasks = {t}
      /\ r.completed = Completed(t, j)
    BY <1>3 DEF Idle
<1>5. Completed(t, j) \in BOOLEAN
    BY <1>1 DEF Completed, TaskRows
<1>6. r \in EditorRows
    BY <1>1, <1>3, <1>5 DEF Idle, EditorRows
<1>7. task[t].column # NoColumn
    BY DEF MoveTask, RowsHaveColumns, BoardInv
<1> QED BY <1>1, <1>2, <1>3, <1>4, <1>6, <1>7, BeginKeeps

\* What a request on the columns leaves of the others: those it has not overtaken
\* are not of the kinds it overtakes.
LEMMA EndedKeeps ==
    ASSUME BoardInv, Settled, NEW p \in Editors, Ended(p)
    PROVE  /\ editor' \in [Editors -> EditorRows] /\ reshaped' = (reshaped \/ editor[p].stale)
           /\ reshaped' \in BOOLEAN /\ editor'[p] = Idle
           /\ \A q \in Editors \ {p} :
                 /\ editor'[q] = [editor[q] EXCEPT !.stale = editor'[q].stale]
                 /\ ~editor'[q].stale => ~editor[q].stale /\ ~Overtakes(editor[p], editor[q])
<1>1. /\ editor \in [Editors -> EditorRows] /\ reshaped \in BOOLEAN /\ Idle \in EditorRows
      /\ editor' = [q \in Editors |->
                       IF q = p THEN Idle
                       ELSE [editor[q] EXCEPT !.stale = @ \/ Overtakes(editor[p], editor[q])]]
      /\ reshaped' = (reshaped \/ editor[p].stale)
    BY DEF BoardInv, BoardTypeOK, EditorRows, Ended, Idle, ColumnRows, NoSuchColumn
<1>2. ASSUME NEW q \in Editors \ {p}
      PROVE  /\ editor'[q] \in EditorRows
             /\ editor'[q] = [editor[q] EXCEPT !.stale = editor'[q].stale]
             /\ ~editor'[q].stale => ~editor[q].stale /\ ~Overtakes(editor[p], editor[q])
    <2>1. PICK late : late = (editor[q].stale \/ Overtakes(editor[p], editor[q]))
        OBVIOUS
    <2>2. late \in BOOLEAN
        BY <2>1
    <2>3. editor'[q] = [editor[q] EXCEPT !.stale = late] /\ editor[q] \in EditorRows
        BY <1>1, <2>1
    <2>4. editor'[q] \in EditorRows /\ editor'[q].stale = late
        BY <2>2, <2>3 DEF EditorRows
    <2> QED BY <2>1, <2>3, <2>4
<1>3. \A q \in Editors : editor'[q] \in EditorRows
    BY <1>1, <1>2
<1>4. editor' \in [Editors -> EditorRows] /\ editor'[p] = Idle
    BY <1>1, <1>3
<1>5. (reshaped \/ editor[p].stale) \in BOOLEAN
    OBVIOUS
<1> QED BY <1>1, <1>2, <1>4, <1>5

\* What another request has read, and nobody has changed since, it still finds.
LEMMA OthersRead ==
    ASSUME BoardInv, Settled, NEW p \in Editors, Ended(p), UNCHANGED task,
           NEW q \in Editors, NEW r, r = editor[p],
           r.op # "add" => Existing' \subseteq Existing,
           r.op # "remove" => Existing \subseteq Existing',
           r.op # "remove" /\ "default" \notin r.gives =>
              \A i \in Columns : column'[i].default = column[i].default,
           r.op # "remove" /\ "done" \notin r.gives =>
              \A i \in Columns : Done(i)' = Done(i)
    PROVE  /\ (editor[q].op # "none" => editor[q].column \in Columns)'
           /\ ColumnsAreAsRead(q)' /\ TasksAreAsRead(q)'
<1>1. /\ editor' \in [Editors -> EditorRows] /\ editor'[p] = Idle
      /\ q # p => /\ editor'[q] = [editor[q] EXCEPT !.stale = editor'[q].stale]
                  /\ ~editor'[q].stale => ~editor[q].stale /\ ~Overtakes(r, editor[q])
    BY EndedKeeps
<1>2. CASE q = p
    <2>1. editor'[q].op = "none"
        BY <1>1, <1>2, IdleIsOK
    <2> QED BY <2>1 DEF ColumnsAreAsRead, TasksAreAsRead
<1>3. CASE q # p
    <2>1. PICK s : s = editor[q]
        OBVIOUS
    <2>2. PICK s1 : s1 = editor'[q]
        OBVIOUS
    <2>3. s \in EditorRows /\ task \in [Tasks -> TaskRows]
        BY <2>1 DEF BoardInv, BoardTypeOK, EditorRows
    <2>4. /\ s1.op = s.op /\ s1.column = s.column /\ s1.gives = s.gives /\ s1.row = s.row
          /\ s1.seen = s.seen /\ s1.tasks = s.tasks /\ s1.completed = s.completed
          /\ ~s1.stale => ~s.stale /\ ~Overtakes(r, s)
        BY <1>1, <1>3, <2>1, <2>2, <2>3 DEF EditorRows
    <2>5. /\ s.op # "none" => s.column \in Columns
          /\ ColumnsAreAsRead(q) /\ TasksAreAsRead(q)
        BY <2>1 DEF BoardInv, Settled
    <2>6. ASSUME ~s1.stale, s.op \in {"add", "edit"}
          PROVE  s1.row.default => Existing' \subseteq s1.seen
        <3>1. s.row.default => r.op # "add"
            BY <2>4, <2>6 DEF Overtakes
        <3>2. s.row.default => Existing \subseteq s.seen
            BY <2>1, <2>4, <2>5, <2>6 DEF ColumnsAreAsRead
        <3> QED BY <2>4, <3>1, <3>2
    <2>7. ASSUME ~s1.stale, s.op = "remove"
          PROVE  /\ s1.row.default = column'[s1.column].default
                 /\ Existing' \ {s1.column} # {}
        <3>1. r.op # "remove" /\ "default" \notin r.gives
            BY <2>4, <2>7 DEF Overtakes
        <3>2. /\ s.row.default = column[s.column].default /\ s.column \in Columns
              /\ Existing \ {s.column} # {}
            BY <2>1, <2>4, <2>5, <2>7 DEF ColumnsAreAsRead
        <3> QED BY <2>4, <3>1, <3>2
    <2>8. ColumnsAreAsRead(q)'
        <3>1. ~s.stale /\ s.op \in {"add", "edit"} =>
                 /\ s.column \in Columns /\ s.row.there
                 /\ s.row.default => "default" \in s.gives
                 /\ ~s.row.default => s.seen = {}
            BY <2>1, <2>5 DEF ColumnsAreAsRead
        <3>2. ~s.stale /\ s.op = "remove" => s.column \in Columns
            BY <2>1, <2>5 DEF ColumnsAreAsRead
        <3> QED BY <2>2, <2>4, <2>6, <2>7, <3>1, <3>2 DEF ColumnsAreAsRead
    <2>9. ASSUME s.op = "move", ~s1.stale, NEW t \in Tasks, task[t].column # NoColumn
          PROVE  Completed(t, s.column)' = Completed(t, s.column)
        <3>1. r.op # "remove" /\ "done" \notin r.gives
            BY <2>4, <2>9 DEF Overtakes
        <3>2. s.column \in Columns /\ task[t].column \in Columns
            BY <2>3, <2>5, <2>9 DEF TaskRows
        <3> QED BY <3>1, <3>2 DEF Completed
    <2>10. TasksAreAsRead(q)'
        <3> SUFFICES ASSUME s.op = "move" PROVE TasksAreAsRead(q)'
            BY <2>2, <2>4 DEF TasksAreAsRead
        <3>1. PICK t \in Tasks : /\ s.tasks = {t} /\ task[t].column # NoColumn
                                 /\ ~s.stale => s.completed = Completed(t, s.column)
            BY <2>1, <2>5 DEF TasksAreAsRead
        <3>2. ~s1.stale => s1.completed = Completed(t, s1.column)'
            BY <2>4, <2>9, <3>1
        <3>3. s1.op = "move" /\ s1.column \in Columns /\ s1.tasks = {t}
            BY <2>4, <2>5, <3>1
        <3>4. task'[t].column # NoColumn
            BY <3>1
        <3> QED BY <2>2, <3>2, <3>3, <3>4 DEF TasksAreAsRead
    <2> QED BY <2>2, <2>4, <2>5, <2>8, <2>10
<1> QED BY <1>2, <1>3

\* A column that takes over where work starts takes it from all there are.
LEMMA WriteColumnKeeps ==
    ASSUME BoardInv, Settled, NEW p \in Editors, WriteColumn(p)
    PROVE  BoardInv'
<1>1. PICK r : r = editor[p]
    OBVIOUS
<1>2. PICK k : k = r.column
    OBVIOUS
<1>3. PICK row : row = Given(r)
    OBVIOUS
<1>4. /\ r.op \in {"add", "edit"} /\ (column[k].there <=> r.op = "edit")
      /\ column' = [j \in Columns |->
                       IF j = k THEN row
                       ELSE IF j \in r.seen THEN [column[j] EXCEPT !.default = FALSE]
                       ELSE column[j]]
      /\ waived' = (~r.row.default /\ (waived \/ (column[k].default /\ ~row.default)))
      /\ drifted' = IF Done(k) # row.done THEN drifted \cup OnColumn(k) ELSE drifted
      /\ Ended(p)
      /\ task' = task /\ createdDone' = createdDone
    BY <1>1, <1>2, <1>3 DEF WriteColumn
<1>5. /\ column \in [Columns -> ColumnRows] /\ task \in [Tasks -> TaskRows]
      /\ r \in EditorRows /\ k \in Columns
      /\ ColumnsAreAsRead(p) /\ drifted = {} /\ reshaped = FALSE /\ createdDone \subseteq Tasks
      /\ waived \in BOOLEAN
    BY <1>1, <1>2, <1>4 DEF BoardInv, BoardTypeOK, EditorRows, Settled
<1>6. /\ editor' \in [Editors -> EditorRows] /\ reshaped' = (reshaped \/ r.stale)
      /\ reshaped' \in BOOLEAN
    BY <1>1, <1>4, EndedKeeps
<1>7. /\ row \in ColumnRows /\ row.there
      /\ row.done = IF "done" \in r.gives THEN r.row.done ELSE Done(k)
      /\ row.default = IF "default" \in r.gives THEN r.row.default ELSE column[k].default
    <2>1. row = [there   |-> TRUE,
                 done    |-> IF "done" \in r.gives THEN r.row.done ELSE Done(k),
                 default |-> IF "default" \in r.gives THEN r.row.default ELSE column[k].default]
        BY <1>2, <1>3 DEF Given
    <2>2. /\ r.row.done \in BOOLEAN /\ r.row.default \in BOOLEAN
          /\ Done(k) \in BOOLEAN /\ column[k].default \in BOOLEAN
        BY <1>5 DEF EditorRows, ColumnRows, Done
    <2> QED BY <2>1, <2>2 DEF ColumnRows
<1>8. column' \in [Columns -> ColumnRows]
    <2>1. ASSUME NEW j \in Columns
          PROVE  [column[j] EXCEPT !.default = FALSE] \in ColumnRows
        BY <1>5 DEF ColumnRows
    <2> QED BY <1>4, <1>5, <1>7, <2>1 DEF EditorRows
<1>9. drifted' \subseteq Tasks /\ waived' \in BOOLEAN
    <2>1. drifted' \subseteq Tasks
        BY <1>4, <1>5 DEF OnColumn
    <2>2. waived' \in BOOLEAN
        BY <1>4
    <2> QED BY <2>1, <2>2
<1>10. BoardTypeOK'
    BY <1>4, <1>5, <1>6, <1>8, <1>9 DEF BoardTypeOK, EditorRows
<1>11. RowsHaveColumns'
    BY <1>4 DEF BoardInv, RowsHaveColumns
<1>12. ASSUME NEW j \in Columns
       PROVE  /\ column'[j].done = IF j = k THEN row.done ELSE column[j].done
              /\ column'[j].there = IF j = k THEN row.there ELSE column[j].there
              /\ column'[j].default = IF j = k THEN row.default
                                      ELSE column[j].default /\ j \notin r.seen
    BY <1>4, <1>5 DEF ColumnRows
<1>13. /\ k \in Existing' /\ \A j \in Existing' : j \in Columns /\ (j = k \/ j \in Existing)
       /\ \A j \in Existing : j \in Columns /\ j \in Existing'
    BY <1>5, <1>7, <1>12 DEF Existing
<1>14. ASSUME ~reshaped'
       PROVE  /\ r.row.default => Existing \subseteq r.seen /\ "default" \in r.gives
              /\ ~r.row.default => r.seen = {}
    BY <1>1, <1>4, <1>5, <1>6, <1>14 DEF ColumnsAreAsRead
<1>15. OneDefaultUnlessRacedOrWaived'
    <2> SUFFICES ASSUME ~reshaped'
                 PROVE  /\ Existing' # {}
                        /\ \A i, j \in Existing' :
                              column'[i].default /\ column'[j].default => i = j
                        /\ waived' \/ \E i \in Existing' : column'[i].default
        BY DEF OneDefaultUnlessRacedOrWaived
    <2>1. /\ \A i, j \in Existing : column[i].default /\ column[j].default => i = j
          /\ waived \/ \E i \in Existing : column[i].default
        BY <1>5 DEF BoardInv, OneDefaultUnlessRacedOrWaived
    <2>2. CASE r.row.default
        <3>1. row.default /\ Existing \subseteq r.seen
            BY <1>7, <1>14, <2>2
        <3>2. \A i \in Existing' : column'[i].default <=> i = k
            BY <1>12, <1>13, <3>1
        <3> QED BY <1>13, <3>2
    <2>3. CASE ~r.row.default
        <3>1. r.seen = {} /\ (row.default => column[k].default)
            BY <1>7, <1>14, <2>3
        <3>2. \A i \in Existing' \ {k} : i \in Existing /\ column'[i].default = column[i].default
            <4>1. \A i \in Columns : column[i].default \in BOOLEAN
                BY <1>5 DEF ColumnRows
            <4> QED BY <1>12, <1>13, <3>1, <4>1
        <3>3. row.default => k \in Existing
            <4>1. CASE r.op = "edit"
                BY <1>4, <1>5, <4>1 DEF Existing
            <4>2. CASE r.op = "add"
                <5>1. \A i \in Columns : ~column[i].there => ~column[i].default
                    BY DEF BoardInv, GoneAreBare
                <5> QED BY <1>4, <1>5, <3>1, <4>2, <5>1
            <4> QED BY <1>4, <4>1, <4>2
        <3>4. column'[k].default = row.default
            BY <1>5, <1>12
        <3>5. ASSUME NEW i \in Existing', NEW j \in Existing',
                     column'[i].default, column'[j].default
              PROVE  i = j
            <4>1. i \in Existing /\ column[i].default
                BY <3>1, <3>2, <3>3, <3>4, <3>5
            <4>2. j \in Existing /\ column[j].default
                BY <3>1, <3>2, <3>3, <3>4, <3>5
            <4> QED BY <2>1, <4>1, <4>2
        <3>6. CASE waived
            BY <1>4, <1>13, <2>3, <3>5, <3>6
        <3>7. CASE ~waived
            <4>1. PICK i \in Existing : column[i].default
                BY <2>1, <3>7
            <4>2. CASE i # k
                <5>1. i \in Existing' /\ column'[i].default = column[i].default
                    BY <1>13, <3>2, <4>2
                <5> QED BY <1>13, <3>5, <4>1, <5>1
            <4>3. CASE i = k
                <5>1. row.default \/ waived'
                    BY <1>4, <2>3, <4>1, <4>3
                <5> QED BY <1>13, <3>4, <3>5, <5>1
            <4> QED BY <4>2, <4>3
        <3> QED BY <3>6, <3>7
    <2> QED BY <2>2, <2>3
<1>16. GoneAreBare'
    BY <1>5, <1>7, <1>12 DEF GoneAreBare, BoardInv
<1>17. ASSUME NEW t \in Tasks, task[t].column # NoColumn, t \notin drifted'
       PROVE  task[t].column \in Columns /\ Done(task[t].column)' = Done(task[t].column)
    <2>1. task[t].column \in Columns
        BY <1>5, <1>17 DEF TaskRows
    <2>2. task[t].column = k => Done(k) = row.done
        BY <1>4, <1>17 DEF OnColumn
    <2> QED BY <1>4, <1>12, <2>1, <2>2 DEF Done
<1>18. CompletionFollowsUnlessRaced'
    BY <1>4, <1>5, <1>17 DEF BoardInv, CompletionFollowsUnlessRaced
<1>19. drifted' = {} => CreatedStayDone'
    BY <1>4, <1>5, <1>17 DEF BoardInv, Settled, CreatedStayDone
<1>20. ASSUME ~reshaped', NEW q \in Editors
       PROVE  /\ (editor[q].op # "none" => editor[q].column \in Columns)'
              /\ ColumnsAreAsRead(q)' /\ TasksAreAsRead(q)'
    <2>1. r.op # "add" => Existing' \subseteq Existing
        BY <1>4, <1>5, <1>13 DEF Existing
    <2>2. Existing \subseteq Existing'
        BY <1>13
    <2>3. ASSUME "default" \notin r.gives, NEW i \in Columns
          PROVE  column'[i].default = column[i].default
        <3>1. r.seen = {} /\ row.default = column[k].default
            BY <1>7, <1>14, <1>20, <2>3
        <3> QED BY <1>5, <1>12, <3>1 DEF ColumnRows
    <2>4. ASSUME "done" \notin r.gives, NEW i \in Columns
          PROVE  Done(i)' = Done(i)
        BY <1>7, <1>12, <2>4 DEF Done
    <2> QED BY <1>1, <1>4, <2>1, <2>2, <2>3, <2>4, OthersRead
<1> QED BY <1>10, <1>11, <1>15, <1>16, <1>18, <1>19, <1>20 DEF BoardInv

\* A deleted column passes on where work starts, and leaves another column.
LEMMA DeleteColumnKeeps ==
    ASSUME BoardInv, Settled, NEW p \in Editors, DeleteColumn(p)
    PROVE  BoardInv'
<1>1. PICK r : r = editor[p]
    OBVIOUS
<1>2. PICK k : k = r.column
    OBVIOUS
<1>3. PICK next \in IF r.row.default /\ Existing \ {k} # {} THEN Existing \ {k}
                   ELSE {NoColumn} :
        column' = [j \in Columns |->
                      CASE j = k    -> NoSuchColumn
                        [] j = next -> [column[j] EXCEPT !.default = TRUE]
                        [] OTHER    -> column[j]]
    BY <1>1, <1>2 DEF DeleteColumn, Heirs
<1>4. /\ r.op = "remove" /\ column[k].there /\ OnColumn(k) = {} /\ Ended(p)
      /\ task' = task /\ drifted' = drifted /\ createdDone' = createdDone /\ waived' = waived
    BY <1>1, <1>2 DEF DeleteColumn
<1>5. /\ column \in [Columns -> ColumnRows] /\ task \in [Tasks -> TaskRows]
      /\ r \in EditorRows /\ k \in Columns /\ NoColumn \notin Columns
      /\ ColumnsAreAsRead(p) /\ drifted = {} /\ reshaped = FALSE /\ createdDone \subseteq Tasks
    BY <1>1, <1>2, <1>4, BoardAssumption DEF BoardInv, BoardTypeOK, EditorRows, Settled
<1>6. /\ editor' \in [Editors -> EditorRows] /\ reshaped' = (reshaped \/ r.stale)
      /\ reshaped' \in BOOLEAN
    BY <1>1, <1>4, EndedKeeps
<1>7. ASSUME NEW j \in Columns
      PROVE  /\ column'[j] \in ColumnRows
             /\ j # k => /\ column'[j].done = column[j].done
                         /\ column'[j].there = column[j].there
                         /\ column'[j].default = (column[j].default \/ j = next)
             /\ j = k => column'[j].there = FALSE /\ column'[j].default = FALSE
    <2>0. next # k
        BY <1>3, <1>5
    <2>1. CASE j = k
        <3>1. column'[j] = NoSuchColumn
            BY <1>3, <2>0, <2>1
        <3> QED BY <2>1, <3>1 DEF NoSuchColumn, ColumnRows
    <2>2. CASE j # k /\ j = next
        <3>1. column'[j] = [column[j] EXCEPT !.default = TRUE] /\ column[j] \in ColumnRows
            BY <1>3, <1>5, <2>2
        <3> QED BY <2>2, <3>1 DEF ColumnRows
    <2>3. CASE j # k /\ j # next
        <3>1. column'[j] = column[j] /\ column[j] \in ColumnRows
            BY <1>3, <1>5, <2>3
        <3> QED BY <2>3, <3>1 DEF ColumnRows
    <2> QED BY <2>1, <2>2, <2>3
<1>8. column' \in [Columns -> ColumnRows]
    <2>1. column' = [j \in Columns |-> column'[j]]
        BY <1>3
    <2> QED BY <1>7, <2>1
<1>9. BoardTypeOK'
    BY <1>4, <1>5, <1>6, <1>8 DEF BoardInv, BoardTypeOK, EditorRows
<1>10. RowsHaveColumns'
    BY <1>4 DEF BoardInv, RowsHaveColumns
<1>11. Existing' = Existing \ {k} /\ k \in Existing /\ Existing \subseteq Columns
    BY <1>4, <1>5, <1>7 DEF Existing
<1>12. OneDefaultUnlessRacedOrWaived'
    <2> SUFFICES ASSUME ~reshaped'
                 PROVE  /\ Existing' # {}
                        /\ \A i, j \in Existing' :
                              column'[i].default /\ column'[j].default => i = j
                        /\ waived' \/ \E i \in Existing' : column'[i].default
        BY DEF OneDefaultUnlessRacedOrWaived
    <2>1. r.row.default = column[k].default /\ Existing \ {k} # {}
        BY <1>1, <1>2, <1>4, <1>5, <1>6 DEF ColumnsAreAsRead
    <2>3. /\ \A i, j \in Existing : column[i].default /\ column[j].default => i = j
          /\ waived \/ \E i \in Existing : column[i].default
        BY <1>5 DEF BoardInv, OneDefaultUnlessRacedOrWaived
    <2>5. /\ next \in Existing \ {k} => column[k].default
          /\ column[k].default => next \in Existing \ {k}
        BY <1>3, <1>5, <1>11, <2>1
    <2>6. \A j \in Existing \ {k} : column'[j].default = (column[j].default \/ j = next)
        BY <1>7, <1>11
    <2>7. ASSUME NEW i \in Existing', NEW j \in Existing', column'[i].default, column'[j].default
          PROVE  i = j
        <3>1. /\ i \in Existing \ {k} /\ (column[i].default \/ i = next)
              /\ j \in Existing \ {k} /\ (column[j].default \/ j = next)
            BY <1>11, <2>6, <2>7
        <3>2. i = next => column[k].default
            BY <2>5, <3>1
        <3>3. j = next => column[k].default
            BY <2>5, <3>1
        <3> QED BY <1>11, <2>3, <3>1, <3>2, <3>3
    <2>8. waived \/ \E i \in Existing' : column'[i].default
        <3>1. CASE column[k].default
            BY <1>11, <2>5, <2>6, <3>1
        <3>2. CASE ~column[k].default
            BY <1>11, <2>3, <2>6, <3>2
        <3> QED BY <3>1, <3>2
    <2> QED BY <1>4, <1>11, <2>1, <2>7, <2>8
<1>13. GoneAreBare'
    <2> SUFFICES ASSUME NEW i \in Columns, ~column'[i].there PROVE ~column'[i].default
        BY DEF GoneAreBare
    <2>1. CASE i = k
        BY <1>7, <2>1
    <2>2. CASE i # k
        <3>1. ~column[i].there /\ ~column[i].default
            BY <1>7, <2>2 DEF BoardInv, GoneAreBare
        <3>2. i \notin Existing
            BY <3>1 DEF Existing
        <3>3. i # next
            BY <1>3, <1>5, <2>2, <3>2
        <3> QED BY <1>7, <2>2, <3>1, <3>3
    <2> QED BY <2>1, <2>2
<1>14. ASSUME NEW t \in Tasks, task[t].column # NoColumn
       PROVE  task[t].column \in Columns /\ Done(task[t].column)' = Done(task[t].column)
    <2>1. task[t].column \in Columns
        BY <1>5, <1>14 DEF TaskRows
    <2>2. task[t].column # k
        BY <1>4 DEF OnColumn
    <2> QED BY <1>4, <1>7, <2>1, <2>2 DEF Done
<1>15. CompletionFollowsUnlessRaced'
    BY <1>4, <1>5, <1>14 DEF BoardInv, CompletionFollowsUnlessRaced
<1>16. CreatedStayDone'
    BY <1>4, <1>5, <1>14 DEF BoardInv, Settled, CreatedStayDone
<1>17. ASSUME ~reshaped', NEW q \in Editors
       PROVE  /\ (editor[q].op # "none" => editor[q].column \in Columns)'
              /\ ColumnsAreAsRead(q)' /\ TasksAreAsRead(q)'
    BY <1>1, <1>4, <1>11, OthersRead
<1> QED BY <1>9, <1>10, <1>15, <1>16, <1>12, <1>13, <1>17 DEF BoardInv

\* A move leaves the task finished in a done column, and open in any other.
LEMMA WriteTaskKeeps ==
    ASSUME BoardInv, Settled, NEW p \in Editors, WriteTask(p)
    PROVE  BoardInv'
<1>1. PICK r : r = editor[p]
    OBVIOUS
<1>2. PICK k : k = r.column
    OBVIOUS
<1>3. /\ r.op = "move" /\ column[k].there
      /\ task' = [x \in Tasks |->
                     IF x \in r.tasks
                     THEN [task[x] EXCEPT !.column = k, !.completed = r.completed]
                     ELSE task[x]]
      /\ drifted' = IF r.stale THEN drifted \cup r.tasks ELSE drifted
      /\ createdDone' = IF Done(k) THEN createdDone ELSE createdDone \ r.tasks
      /\ editor' = [q \in Editors |->
                       IF q = p THEN Idle
                       ELSE [editor[q] EXCEPT !.stale = @ \/ editor[q].tasks = r.tasks]]
      /\ column' = column /\ reshaped' = reshaped /\ waived' = waived
    BY <1>1, <1>2 DEF WriteTask
<1>4. /\ column \in [Columns -> ColumnRows] /\ task \in [Tasks -> TaskRows]
      /\ editor \in [Editors -> EditorRows] /\ Idle \in EditorRows
      /\ r \in EditorRows /\ k \in Columns /\ NoColumn \notin Columns
      /\ drifted = {} /\ reshaped = FALSE /\ createdDone \subseteq Tasks
    BY <1>1, <1>2, <1>3, BoardAssumption
    DEF BoardInv, BoardTypeOK, EditorRows, Settled, Idle, ColumnRows, NoSuchColumn
<1>5. PICK t \in Tasks : /\ r.tasks = {t} /\ task[t].column # NoColumn
                         /\ ~r.stale => r.completed = Completed(t, k)
    BY <1>1, <1>2, <1>3 DEF BoardInv, Settled, TasksAreAsRead
<1>6. /\ task[t] \in TaskRows /\ r.completed \in BOOLEAN
      /\ task'[t] = [task[t] EXCEPT !.column = k, !.completed = r.completed]
      /\ \A x \in Tasks \ {t} : task'[x] = task[x]
    BY <1>3, <1>4, <1>5 DEF EditorRows
<1>7. /\ task'[t] \in TaskRows /\ task'[t].column = k /\ task'[t].completed = r.completed
    BY <1>4, <1>6 DEF TaskRows
<1>8. task' \in [Tasks -> TaskRows]
    <2>1. task' = [x \in Tasks |-> task'[x]] /\ \A x \in Tasks : task'[x] \in TaskRows
        BY <1>3, <1>4, <1>6, <1>7
    <2> QED BY <2>1
<1>9. ASSUME NEW q \in Editors
      PROVE  /\ editor'[q] \in EditorRows
             /\ editor'[q].op = IF q = p THEN "none" ELSE editor[q].op
             /\ q # p => /\ editor'[q].column = editor[q].column
                         /\ editor'[q].gives = editor[q].gives
                         /\ editor'[q].row = editor[q].row /\ editor'[q].seen = editor[q].seen
                         /\ editor'[q].tasks = editor[q].tasks
                         /\ editor'[q].completed = editor[q].completed
                         /\ ~editor'[q].stale => ~editor[q].stale /\ editor[q].tasks # {t}
    <2>1. CASE q = p
        <3>1. editor'[q] = Idle
            BY <1>3, <2>1
        <3> QED BY <1>4, <2>1, <3>1, IdleIsOK
    <2>2. CASE q # p
        <3>1. /\ editor[q] \in EditorRows
              /\ (editor[q].stale \/ editor[q].tasks = r.tasks) \in BOOLEAN
              /\ editor'[q] = [editor[q] EXCEPT !.stale = @ \/ editor[q].tasks = r.tasks]
            BY <1>3, <1>4, <2>2
        <3> QED BY <1>5, <2>2, <3>1 DEF EditorRows
    <2> QED BY <2>1, <2>2
<1>10. editor' \in [Editors -> EditorRows]
    <2>1. editor' = [q \in Editors |-> editor'[q]]
        BY <1>3
    <2> QED BY <1>9, <2>1
<1>11. drifted' \subseteq Tasks /\ createdDone' \subseteq Tasks
    BY <1>3, <1>4, <1>5
<1>12. BoardTypeOK'
    BY <1>3, <1>4, <1>8, <1>10, <1>11 DEF BoardInv, BoardTypeOK, EditorRows
<1>13. RowsHaveColumns'
    BY <1>4, <1>6, <1>7 DEF BoardInv, RowsHaveColumns
<1>14. OneDefaultUnlessRacedOrWaived' /\ GoneAreBare' /\ Existing' = Existing
    BY <1>3 DEF BoardInv, OneDefaultUnlessRacedOrWaived, GoneAreBare, Existing
<1>15. \A j : Done(j)' = Done(j)
    BY <1>3 DEF Done
<1>16. CompletionFollowsUnlessRaced'
    <2> SUFFICES ASSUME NEW x \in Tasks, x \notin drifted', x \notin createdDone',
                        task'[x].column # NoColumn
                 PROVE  task'[x].completed <=> Done(task'[x].column)
        BY <1>15 DEF CompletionFollowsUnlessRaced
    <2>1. CASE x # t
        <3>1. x \notin createdDone /\ x \notin drifted /\ task'[x] = task[x]
            BY <1>3, <1>4, <1>5, <1>6, <2>1
        <3> QED BY <3>1 DEF BoardInv, CompletionFollowsUnlessRaced
    <2>2. CASE x = t
        <3>1. ~r.stale /\ r.completed = Completed(t, k)
            BY <1>3, <1>5, <2>2
        <3>2. t \in createdDone => Done(task[t].column)
            BY DEF BoardInv, Settled, CreatedStayDone
        <3>3. t \notin createdDone => (task[t].completed <=> Done(task[t].column))
            BY <1>4, <1>5 DEF BoardInv, CompletionFollowsUnlessRaced
        <3>4. t \in createdDone => ~Done(k)
            BY <1>3, <2>2
        <3>5. Done(k) \in BOOLEAN /\ Done(task[t].column) \in BOOLEAN
            BY <1>4, <1>5, <1>6 DEF Done, ColumnRows, TaskRows
        <3>6. Completed(t, k) <=> Done(k)
            BY <3>2, <3>3, <3>4, <3>5 DEF Completed
        <3> QED BY <1>7, <2>2, <3>1, <3>6
    <2> QED BY <2>1, <2>2
<1>17. drifted' = {} => CreatedStayDone'
    <2> SUFFICES ASSUME NEW x \in createdDone'
                 PROVE  task'[x].column # NoColumn /\ Done(task'[x].column)
        BY <1>15 DEF CreatedStayDone
    <2>1. x \in createdDone /\ x \in Tasks /\ (x = t => Done(k))
        BY <1>3, <1>4, <1>5
    <2>2. task[x].column # NoColumn /\ Done(task[x].column)
        BY <2>1 DEF BoardInv, Settled, CreatedStayDone
    <2> QED BY <1>4, <1>6, <1>7, <2>1, <2>2
<1>18. ASSUME NEW q \in Editors
       PROVE  /\ (editor[q].op # "none" => editor[q].column \in Columns)'
              /\ ColumnsAreAsRead(q)' /\ TasksAreAsRead(q)'
    <2>1. CASE q = p
        <3>1. editor'[q].op = "none"
            BY <1>9, <2>1
        <3> QED BY <3>1 DEF ColumnsAreAsRead, TasksAreAsRead
    <2>2. CASE q # p
        <3>1. /\ editor[q].op # "none" => editor[q].column \in Columns
              /\ ColumnsAreAsRead(q) /\ TasksAreAsRead(q)
            BY DEF BoardInv, Settled
        <3>2. ColumnsAreAsRead(q)'
            <4>1. /\ editor'[q].op = editor[q].op /\ editor'[q].column = editor[q].column
                  /\ editor'[q].row = editor[q].row /\ editor'[q].seen = editor[q].seen
                  /\ editor'[q].gives = editor[q].gives
                  /\ ~editor'[q].stale => ~editor[q].stale
                BY <1>9, <2>2
            <4> QED BY <1>3, <1>14, <3>1, <4>1 DEF ColumnsAreAsRead
        <3>3. TasksAreAsRead(q)'
            <4> SUFFICES ASSUME editor[q].op = "move"
                         PROVE  /\ editor'[q].column \in Columns
                                /\ \E x \in Tasks :
                                      /\ editor'[q].tasks = {x} /\ task'[x].column # NoColumn
                                      /\ ~editor'[q].stale =>
                                            editor'[q].completed = Completed(x, editor[q].column)'
                BY <1>9, <2>2 DEF TasksAreAsRead
            <4>1. PICK x \in Tasks : /\ editor[q].tasks = {x} /\ task[x].column # NoColumn
                                     /\ ~editor[q].stale =>
                                           editor[q].completed = Completed(x, editor[q].column)
                BY <3>1 DEF TasksAreAsRead
            <4>2. task'[x].column # NoColumn
                BY <1>4, <1>6, <1>7, <4>1
            <4>3. ASSUME ~editor'[q].stale
                  PROVE  editor'[q].completed = Completed(x, editor[q].column)'
                <5>1. ~editor[q].stale /\ x # t
                    BY <1>9, <2>2, <4>1, <4>3
                <5>2. task'[x] = task[x]
                    BY <1>6, <5>1
                <5>3. Completed(x, editor[q].column)' = Completed(x, editor[q].column)
                    BY <1>3, <1>9, <2>2, <5>2 DEF Completed, Done
                <5> QED BY <1>9, <2>2, <4>1, <5>1, <5>3
            <4> QED BY <1>9, <2>2, <3>1, <4>1, <4>2, <4>3
        <3> QED BY <1>9, <2>2, <3>1, <3>2, <3>3
    <2> QED BY <2>1, <2>2
<1> QED BY <1>12, <1>13, <1>14, <1>16, <1>17, <1>18 DEF BoardInv

\* A task that is created, or deleted, moves nothing else.
LEMMA TasksComeAndGo ==
    ASSUME BoardInv, Settled, NEW t \in Tasks, CreateTask(t) \/ DeleteTask(t)
    PROVE  BoardInv'
<1>1. /\ column \in [Columns -> ColumnRows] /\ task \in [Tasks -> TaskRows]
      /\ NoColumn \notin Columns /\ drifted = {} /\ createdDone \subseteq Tasks
      /\ NotOnBoard \in TaskRows
    BY BoardAssumption DEF BoardInv, BoardTypeOK, Settled, NotOnBoard, TaskRows
<1>2. UNCHANGED <<column, editor, reshaped, waived, drifted>>
    BY DEF CreateTask, DeleteTask
<1>3. /\ Existing' = Existing /\ OneDefaultUnlessRacedOrWaived' /\ GoneAreBare'
      /\ \A j : Done(j)' = Done(j)
    BY <1>2 DEF BoardInv, OneDefaultUnlessRacedOrWaived, GoneAreBare, Existing, Done
<1>4. PICK row : row = task'[t]
    OBVIOUS
<1>5. /\ task' = [task EXCEPT ![t] = row] /\ row \in TaskRows /\ row.column \in Columns
      /\ createdDone' \subseteq Tasks
      /\ \A x \in Tasks \ {t} : x \in createdDone' <=> x \in createdDone
      /\ t \in createdDone' => Done(row.column)
      /\ t \notin createdDone' => (row.completed <=> Done(row.column))
      /\ task[t].column # NoColumn =>
            row.column = task[t].column /\ row.completed = task[t].completed
    <2>1. CASE CreateTask(t)
        <3>1. PICK k \in Existing :
                /\ task' = [task EXCEPT ![t] = [NotOnBoard EXCEPT !.column = k]]
                /\ createdDone' = IF Done(k) THEN createdDone \cup {t} ELSE createdDone
            BY <2>1 DEF CreateTask
        <3>2. k \in Columns /\ row = [NotOnBoard EXCEPT !.column = k]
            BY <1>1, <1>4, <3>1 DEF Existing
        <3>3. /\ row \in TaskRows /\ row.column = k /\ row.completed = FALSE
              /\ task[t] = NotOnBoard
            BY <1>1, <2>1, <3>2 DEF TaskRows, NotOnBoard, CreateTask
        <3>4. t \notin createdDone /\ task[t].column = NoColumn
            BY <3>3 DEF BoardInv, Settled, CreatedStayDone, NotOnBoard
        <3>5. task' = [task EXCEPT ![t] = row]
            BY <3>1, <3>2
        <3> QED BY <1>1, <3>1, <3>2, <3>3, <3>4, <3>5
    <2>2. CASE DeleteTask(t)
        <3>1. /\ task' = [task EXCEPT ![t].deleted = TRUE] /\ createdDone' = createdDone
              /\ task[t] # NotOnBoard /\ task[t] \in TaskRows
            BY <1>1, <2>2 DEF DeleteTask
        <3>2. row = [task[t] EXCEPT !.deleted = TRUE]
            BY <1>1, <1>4, <3>1
        <3>3. /\ row \in TaskRows /\ row.column = task[t].column
              /\ row.completed = task[t].completed
            BY <3>1, <3>2 DEF TaskRows
        <3>4. task[t].column # NoColumn
            BY <3>1 DEF BoardInv, RowsHaveColumns
        <3>5. task' = [task EXCEPT ![t] = row]
            BY <3>1, <3>2
        <3>6. row.column \in Columns
            BY <3>1, <3>3, <3>4 DEF TaskRows
        <3>7. t \in createdDone => Done(row.column)
            BY <3>3 DEF BoardInv, Settled, CreatedStayDone
        <3>8. t \notin createdDone => (row.completed <=> Done(row.column))
            BY <1>1, <3>3, <3>4 DEF BoardInv, CompletionFollowsUnlessRaced
        <3> QED BY <1>1, <3>1, <3>3, <3>5, <3>6, <3>7, <3>8
    <2> QED BY <2>1, <2>2
<1>6. /\ task' \in [Tasks -> TaskRows] /\ task'[t] = row
      /\ \A x \in Tasks \ {t} : task'[x] = task[x]
    BY <1>1, <1>5
<1>7. BoardTypeOK'
    BY <1>2, <1>5, <1>6 DEF BoardInv, BoardTypeOK
<1>8. RowsHaveColumns'
    BY <1>1, <1>5, <1>6 DEF BoardInv, RowsHaveColumns
<1>9. CompletionFollowsUnlessRaced'
    BY <1>1, <1>2, <1>3, <1>5, <1>6 DEF BoardInv, CompletionFollowsUnlessRaced
<1>10. CreatedStayDone'
    BY <1>1, <1>3, <1>5, <1>6 DEF BoardInv, Settled, CreatedStayDone
<1>11. ASSUME NEW q \in Editors
       PROVE  /\ (editor[q].op # "none" => editor[q].column \in Columns)'
              /\ ColumnsAreAsRead(q)' /\ TasksAreAsRead(q)'
    <2>1. /\ editor[q].op # "none" => editor[q].column \in Columns
          /\ ColumnsAreAsRead(q) /\ TasksAreAsRead(q)
        BY DEF BoardInv, Settled
    <2>2. ColumnsAreAsRead(q)'
        BY <1>2, <1>3, <2>1 DEF ColumnsAreAsRead
    <2>3. ASSUME NEW x \in Tasks, task[x].column # NoColumn, NEW k
          PROVE  task'[x].column # NoColumn /\ Completed(x, k)' = Completed(x, k)
        <3>1. task'[x].column = task[x].column /\ task'[x].completed = task[x].completed
            BY <1>5, <1>6, <2>3
        <3> QED BY <1>3, <2>3, <3>1 DEF Completed
    <2>4. TasksAreAsRead(q)'
        BY <1>2, <2>1, <2>3 DEF TasksAreAsRead
    <2> QED BY <1>2, <2>1, <2>2, <2>4
<1> QED BY <1>3, <1>7, <1>8, <1>9, <1>10, <1>11 DEF BoardInv

\* Every step of a board that is followed.
LEMMA BoardStep ==
    ASSUME BoardInv, (~reshaped /\ drifted = {} /\ BoardNext) \/ UNCHANGED boardVars
    PROVE  BoardInv'
<1>1. CASE UNCHANGED boardVars
    <2>1. UNCHANGED <<column, task, editor, reshaped, waived, drifted, createdDone>>
        BY <1>1 DEF boardVars
    <2>2. Existing' = Existing /\ (\A k : Done(k)' = Done(k))
          /\ (\A t, k : Completed(t, k)' = Completed(t, k))
        BY <2>1 DEF Existing, Done, Completed
    <2>3. /\ BoardTypeOK' <=> BoardTypeOK
          /\ RowsHaveColumns' <=> RowsHaveColumns
          /\ GoneAreBare' <=> GoneAreBare
          /\ OneDefaultUnlessRacedOrWaived' <=> OneDefaultUnlessRacedOrWaived
        BY <2>1, <2>2 DEF BoardTypeOK, RowsHaveColumns, GoneAreBare,
                                 OneDefaultUnlessRacedOrWaived
    <2>4. /\ CompletionFollowsUnlessRaced' <=> CompletionFollowsUnlessRaced
          /\ CreatedStayDone' <=> CreatedStayDone
        BY <2>1, <2>2 DEF CompletionFollowsUnlessRaced, CreatedStayDone
    <2>5. ASSUME NEW p \in Editors
          PROVE  /\ ColumnsAreAsRead(p)' <=> ColumnsAreAsRead(p)
                 /\ TasksAreAsRead(p)' <=> TasksAreAsRead(p)
        BY <2>1, <2>2 DEF ColumnsAreAsRead, TasksAreAsRead
    <2> QED BY <2>1, <2>3, <2>4, <2>5 DEF BoardInv
<1>2. CASE ~reshaped /\ drifted = {} /\ BoardNext
    <2>1. Settled
        BY <1>2 DEF Settled
    <2>2. ASSUME NEW p \in Editors, NEW k \in Columns,
                 AddColumn(p, k) \/ EditColumn(p, k) \/ RemoveColumn(p, k)
          PROVE  BoardInv'
        BY <2>1, <2>2, ColumnEditsBegin
    <2>3. ASSUME NEW p \in Editors, NEW t \in Tasks, MoveTask(p, t)
          PROVE  BoardInv'
        BY <2>1, <2>3, MovesBegin
    <2>4. ASSUME NEW p \in Editors, WriteColumn(p) \/ DeleteColumn(p) \/ WriteTask(p)
          PROVE  BoardInv'
        BY <2>1, <2>4, WriteColumnKeeps, DeleteColumnKeeps, WriteTaskKeeps
    <2>5. ASSUME NEW t \in Tasks, CreateTask(t) \/ DeleteTask(t)
          PROVE  BoardInv'
        BY <2>1, <2>5, TasksComeAndGo
    <2> QED BY <1>2, <2>2, <2>3, <2>4, <2>5 DEF BoardNext
<1> QED BY <1>1, <1>2

-----------------------------------------------------------------------------
(* The hours.                                                              *)

\* What a worker does; only an update says more than which entry it is of.
WorkerRows ==
    {Off} \cup [op : {"delete", "approve", "unapprove"}, of : Entries, stale : BOOLEAN]
          \cup [op : {"update"}, of : Entries, stale : BOOLEAN,
                gives : SUBSET {"project", "task"}, job : Jobs,
                piece : Pieces \cup {NoPiece}, hours : Hours]

\* The entry of a request is on file, and unless it was overtaken it is as it was read.
EntryIsAsRead(u) ==
    LET r == worker[u] IN
    r.op # "none" => /\ r.of \in Logged
                     /\ ~r.stale => /\ ~entry[r.of].deleted
                                    /\ r.op \in {"update", "delete"} => ~entry[r.of].approved

ApprovedAreSigned == \A e \in Logged : entry[e].approved => e \in DOMAIN signed

TimeInv ==
    /\ TimeSheetTypeOK
    /\ entry \in [Logged -> EntryRows] /\ signed \in [DOMAIN signed -> Slips]
    /\ worker \in [Workers -> WorkerRows]
    /\ \A u \in Workers : EntryIsAsRead(u)
    /\ ApprovedAreSigned
    /\ ApprovedIsFrozenUnlessRaced

\* A worker without a request.
LEMMA OffIsOK ==
    /\ Off \in WorkerRows /\ Off.op = "none" /\ Off.of = NoEntry /\ Off.stale = FALSE
    /\ NoEntry \notin Entries
    BY TimeSheetAssumption DEF Off, WorkerRows

\* At first nothing is logged.
LEMMA TimeSheetBegins == TimeSheetInit => TimeInv
<1> SUFFICES ASSUME TimeSheetInit PROVE TimeInv
    OBVIOUS
<1>1. /\ onJob = {} /\ pieceOf \in [Pieces -> Jobs] /\ entry = [e \in {} |-> NoEntry]
      /\ worker = [u \in Workers |-> Off] /\ signed = [e \in {} |-> NoEntry] /\ disputed = {}
    BY DEF TimeSheetInit
<1>2. Logged = {} /\ DOMAIN signed = {}
    BY <1>1 DEF Logged
<1>3. TimeSheetTypeOK
    BY <1>1, <1>2, OffIsOK DEF TimeSheetTypeOK
<1>4. entry \in [Logged -> EntryRows] /\ signed \in [DOMAIN signed -> Slips]
    BY <1>1, <1>2
<1>5. worker \in [Workers -> WorkerRows] /\ \A u \in Workers : EntryIsAsRead(u)
    BY <1>1, OffIsOK DEF EntryIsAsRead
<1>6. ApprovedAreSigned /\ ApprovedIsFrozenUnlessRaced
    BY <1>2 DEF ApprovedAreSigned, ApprovedIsFrozenUnlessRaced
<1> QED BY <1>3, <1>4, <1>5, <1>6 DEF TimeInv

\* What a worker's request may be.
LEMMA WorkersHaveTypes ==
    ASSUME worker \in [Workers -> WorkerRows], NEW u \in Workers
    PROVE  /\ worker[u].op \in {"none", "update", "delete", "approve", "unapprove"}
           /\ worker[u].of \in Entries \cup {NoEntry}
           /\ worker[u].stale \in BOOLEAN
           /\ worker[u].op # "none" => worker[u].of \in Entries
           /\ worker[u].op = "none" => worker[u] = Off
           /\ worker[u].op = "update" => /\ worker[u].job \in Jobs /\ worker[u].hours \in Hours
                                         /\ worker[u].piece \in Pieces \cup {NoPiece}
<1>1. worker[u] \in WorkerRows
    OBVIOUS
<1>2. CASE worker[u] = Off
    BY <1>2, OffIsOK
<1>3. CASE worker[u] \in [op : {"delete", "approve", "unapprove"}, of : Entries, stale : BOOLEAN]
    BY <1>3
<1>4. CASE worker[u] \in [op : {"update"}, of : Entries, stale : BOOLEAN,
                          gives : SUBSET {"project", "task"}, job : Jobs,
                          piece : Pieces \cup {NoPiece}, hours : Hours]
    BY <1>4
<1> QED BY <1>1, <1>2, <1>3, <1>4 DEF WorkerRows

\* A request that begins has read its entry as it is.
LEMMA TakeKeeps ==
    ASSUME TimeInv, NEW u \in Workers, NEW e \in Entries, NEW r \in WorkerRows, Take(u, r),
           r.of = e, Present(e), r.op \in {"update", "delete"} => ~entry[e].approved
    PROVE  TimeInv'
<1>1. /\ worker' = [worker EXCEPT ![u] = r] /\ worker \in [Workers -> WorkerRows]
      /\ UNCHANGED <<onJob, pieceOf, entry, signed, disputed>>
    BY DEF Take, TimeInv
<1>2. worker' \in [Workers -> WorkerRows] /\ Logged' = Logged /\ e \in Logged /\ ~entry[e].deleted
    BY <1>1 DEF Logged, Present
<1>3. ASSUME NEW v \in Workers
      PROVE  /\ worker'[v].op \in {"none", "update", "delete", "approve", "unapprove"}
             /\ worker'[v].of \in Entries \cup {NoEntry}
             /\ worker'[v].stale \in BOOLEAN
    <2>1. CASE v # u
        <3>1. worker'[v] = worker[v]
            BY <1>1, <2>1
        <3> QED BY <1>1, <3>1, WorkersHaveTypes
    <2>2. CASE v = u
        <3>1. worker'[v] = r
            BY <1>1, <2>2
        <3> QED BY <3>1, OffIsOK DEF WorkerRows
    <2> QED BY <2>1, <2>2
<1>4. TimeSheetTypeOK'
    BY <1>1, <1>2, <1>3 DEF TimeInv, TimeSheetTypeOK
<1>5. ASSUME NEW v \in Workers
      PROVE  EntryIsAsRead(v)'
    <2>1. CASE v # u
        BY <1>1, <1>2, <2>1 DEF TimeInv, EntryIsAsRead
    <2>2. CASE v = u
        BY <1>1, <1>2, <2>2 DEF EntryIsAsRead
    <2> QED BY <2>1, <2>2
<1>6. ApprovedAreSigned' /\ ApprovedIsFrozenUnlessRaced'
    BY <1>1, <1>2 DEF TimeInv, ApprovedAreSigned, ApprovedIsFrozenUnlessRaced
<1> QED BY <1>1, <1>2, <1>4, <1>5, <1>6 DEF TimeInv

\* An approved entry is neither corrected nor deleted.
LEMMA RequestsOnEntriesBegin ==
    ASSUME TimeInv, NEW u \in Workers, NEW e \in Entries,
           UpdateEntry(u, e) \/ DeleteEntry(u, e) \/ SetApproval(u, e)
    PROVE  TimeInv'
<1>1. CASE UpdateEntry(u, e)
    <2>1. PICK gives \in SUBSET {"project", "task"}, job \in Jobs,
               piece \in Pieces \cup {NoPiece}, hours \in Hours :
            Take(u, [op |-> "update", of |-> e, stale |-> FALSE, gives |-> gives,
                     job |-> job, piece |-> piece, hours |-> hours])
        BY <1>1 DEF UpdateEntry
    <2>2. PICK r : r = [op |-> "update", of |-> e, stale |-> FALSE, gives |-> gives,
                        job |-> job, piece |-> piece, hours |-> hours]
        OBVIOUS
    <2>3. r \in WorkerRows /\ r.of = e /\ Take(u, r)
        BY <2>1, <2>2 DEF WorkerRows
    <2>4. Present(e) /\ ~entry[e].approved
        BY <1>1 DEF UpdateEntry, Correctable
    <2> QED BY <2>3, <2>4, TakeKeeps
<1>2. CASE DeleteEntry(u, e)
    <2>1. PICK r : r = [op |-> "delete", of |-> e, stale |-> FALSE]
        OBVIOUS
    <2>2. r \in WorkerRows /\ r.of = e /\ Take(u, r)
        BY <1>2, <2>1 DEF WorkerRows, DeleteEntry
    <2>3. Present(e) /\ ~entry[e].approved
        BY <1>2 DEF DeleteEntry, Correctable
    <2> QED BY <2>2, <2>3, TakeKeeps
<1>3. CASE SetApproval(u, e)
    <2>1. PICK op \in {"approve", "unapprove"} : Take(u, [op |-> op, of |-> e, stale |-> FALSE])
        BY <1>3 DEF SetApproval
    <2>2. PICK r : r = [op |-> op, of |-> e, stale |-> FALSE]
        OBVIOUS
    <2>3. r \in WorkerRows /\ r.of = e /\ Take(u, r) /\ r.op = op
        BY <2>1, <2>2 DEF WorkerRows
    <2>4. Present(e)
        BY <1>3 DEF SetApproval
    <2> QED BY <2>3, <2>4, TakeKeeps
<1> QED BY <1>1, <1>2, <1>3

\* Who is on which project, and which task is of which, is in no entry.
LEMMA PeopleAndPiecesMove ==
    ASSUME TimeInv,
           \/ \E u \in Workers, job \in Jobs : AssignMember(u, job) \/ RemoveMember(u, job)
           \/ \E t \in Pieces : MovePiece(t)
    PROVE  TimeInv'
<1>1. UNCHANGED <<entry, worker, signed, disputed>>
    BY DEF AssignMember, RemoveMember, MovePiece
<1>2. onJob' \subseteq Workers \X Jobs /\ pieceOf' \in [Pieces -> Jobs]
    <2>1. onJob \subseteq Workers \X Jobs /\ pieceOf \in [Pieces -> Jobs]
        BY DEF TimeInv, TimeSheetTypeOK
    <2>2. CASE \E u \in Workers, job \in Jobs : AssignMember(u, job) \/ RemoveMember(u, job)
        BY <2>1, <2>2 DEF AssignMember, RemoveMember
    <2>3. CASE \E t \in Pieces : MovePiece(t)
        BY <2>1, <2>3 DEF MovePiece
    <2> QED BY <2>2, <2>3
<1>3. TimeSheetTypeOK'
    BY <1>1, <1>2 DEF TimeInv, TimeSheetTypeOK, Logged
<1> QED BY <1>1, <1>3 DEF TimeInv, Logged, EntryIsAsRead, ApprovedAreSigned,
                          ApprovedIsFrozenUnlessRaced

\* A new entry is not approved.
LEMMA CreateEntryKeeps ==
    ASSUME TimeInv, NEW u \in Workers, NEW e \in Entries, CreateEntry(u, e)
    PROVE  TimeInv'
<1>1. PICK job \in Jobs, piece \in Pieces \cup {NoPiece}, hours \in Hours :
        entry' = [x \in Logged \cup {e} |->
                     IF x # e THEN entry[x]
                     ELSE [by |-> u, job |-> job, piece |-> piece, hours |-> hours,
                           approved |-> FALSE, deleted |-> FALSE]]
    BY DEF CreateEntry
<1>2. e \notin Logged /\ UNCHANGED <<onJob, pieceOf, worker, signed, disputed>>
    BY DEF CreateEntry
<1>3. PICK row : row = [by |-> u, job |-> job, piece |-> piece, hours |-> hours,
                        approved |-> FALSE, deleted |-> FALSE]
    OBVIOUS
<1>4. row \in EntryRows /\ row.approved = FALSE
    BY <1>3 DEF EntryRows
<1>5. /\ Logged' = Logged \cup {e} /\ entry'[e] = row /\ \A x \in Logged : entry'[x] = entry[x]
      /\ entry' = [x \in Logged' |-> entry'[x]]
    BY <1>1, <1>2, <1>3 DEF Logged
<1>6. entry \in [Logged -> EntryRows] /\ \A x \in Logged' : entry'[x] \in EntryRows
    BY <1>4, <1>5 DEF TimeInv
<1>7. entry' \in [Logged' -> EntryRows]
    BY <1>5, <1>6
<1>8. TimeSheetTypeOK'
    BY <1>2, <1>5, <1>6 DEF TimeInv, TimeSheetTypeOK
<1>9. ASSUME NEW v \in Workers PROVE EntryIsAsRead(v)'
    BY <1>2, <1>5 DEF TimeInv, EntryIsAsRead
<1>10. ApprovedAreSigned' /\ ApprovedIsFrozenUnlessRaced'
    BY <1>2, <1>4, <1>5 DEF TimeInv, ApprovedAreSigned, ApprovedIsFrozenUnlessRaced
<1> QED BY <1>2, <1>7, <1>8, <1>9, <1>10 DEF TimeInv

\* What a write leaves of its entry, and whom it overtakes.
LEMMA WriteEntryKeeps ==
    ASSUME TimeInv, NEW u \in Workers, WriteEntry(u)
    PROVE  TimeInv'
<1>1. PICK r : r = worker[u]
    OBVIOUS
<1>2. PICK e : e = r.of
    OBVIOUS
<1>3. PICK row : row = Written(u)
    OBVIOUS
<1>4. /\ r.op # "none" /\ entry' = [entry EXCEPT ![e] = row]
      /\ signed' = [x \in DOMAIN signed \cup {x \in {e} : r.op = "approve"} |->
                       IF r.op = "approve" /\ x = e
                       THEN [job |-> entry[x].job, hours |-> entry[x].hours] ELSE signed[x]]
      /\ disputed' = IF r.stale THEN disputed \cup {e} ELSE disputed
      /\ worker' = [v \in Workers |->
                       IF v = u THEN Off
                       ELSE [worker[v] EXCEPT !.stale = @ \/ worker[v].of = e]]
      /\ onJob' = onJob /\ pieceOf' = pieceOf
    BY <1>1, <1>2, <1>3 DEF WriteEntry
<1>5. /\ worker \in [Workers -> WorkerRows] /\ entry \in [Logged -> EntryRows]
      /\ e \in Logged /\ Logged \subseteq Entries /\ disputed \subseteq Entries
      /\ ~r.stale => /\ ~entry[e].deleted
                     /\ r.op \in {"update", "delete"} => ~entry[e].approved
      /\ entry[e] \in EntryRows
    BY <1>1, <1>2, <1>4 DEF TimeInv, TimeSheetTypeOK, EntryIsAsRead
<1>6. /\ r.op \in {"update", "delete", "approve", "unapprove"} /\ r.stale \in BOOLEAN
      /\ r.op = "update" => /\ r.job \in Jobs /\ r.hours \in Hours
                            /\ r.piece \in Pieces \cup {NoPiece}
    BY <1>1, <1>4, <1>5, WorkersHaveTypes
<1>7. /\ row \in EntryRows
      /\ row.approved = CASE r.op = "approve"   -> TRUE
                          [] r.op = "unapprove" -> FALSE
                          [] OTHER              -> entry[e].approved
      /\ r.op = "approve" => /\ row.job = entry[e].job /\ row.hours = entry[e].hours
                             /\ row.deleted = entry[e].deleted
    <2>1. CASE r.op = "update"
        <3>1. row = [entry[e] EXCEPT
                         !.job = IF "project" \in r.gives THEN r.job ELSE @,
                         !.piece = IF "task" \in r.gives THEN r.piece ELSE @,
                         !.hours = r.hours]
            BY <1>1, <1>2, <1>3, <2>1 DEF Written
        <3> QED BY <1>5, <1>6, <2>1, <3>1 DEF EntryRows
    <2>2. CASE r.op = "delete"
        <3>1. row = [entry[e] EXCEPT !.deleted = TRUE]
            BY <1>1, <1>2, <1>3, <2>2 DEF Written
        <3> QED BY <1>5, <2>2, <3>1 DEF EntryRows
    <2>3. CASE r.op = "approve"
        <3>1. row = [entry[e] EXCEPT !.approved = TRUE]
            BY <1>1, <1>2, <1>3, <2>3 DEF Written
        <3> QED BY <1>5, <2>3, <3>1 DEF EntryRows
    <2>4. CASE r.op = "unapprove"
        <3>1. row = [entry[e] EXCEPT !.approved = FALSE]
            BY <1>1, <1>2, <1>3, <2>4 DEF Written
        <3> QED BY <1>5, <2>4, <3>1 DEF EntryRows
    <2> QED BY <1>6, <2>1, <2>2, <2>3, <2>4
<1>8. /\ Logged' = Logged /\ entry' \in [Logged' -> EntryRows] /\ entry'[e] = row
      /\ \A x \in Logged \ {e} : entry'[x] = entry[x]
    BY <1>4, <1>5, <1>7 DEF Logged
<1>9. /\ DOMAIN signed' = DOMAIN signed \cup {x \in {e} : r.op = "approve"}
      /\ DOMAIN signed \subseteq Logged /\ signed \in [DOMAIN signed -> Slips]
      /\ DOMAIN signed' \subseteq Logged'
    BY <1>4, <1>5, <1>8 DEF TimeInv, TimeSheetTypeOK
<1>10. \A x \in DOMAIN signed' : signed'[x] \in Slips
    <2>1. [job |-> entry[e].job, hours |-> entry[e].hours] \in Slips
        BY <1>5 DEF EntryRows, Slips
    <2>2. ASSUME NEW x \in DOMAIN signed' PROVE signed'[x] \in Slips
        <3>1. CASE r.op = "approve" /\ x = e
            BY <1>4, <1>9, <2>1, <2>2, <3>1
        <3>2. CASE ~(r.op = "approve" /\ x = e)
            <4>1. x \in DOMAIN signed /\ signed'[x] = signed[x]
                BY <1>4, <1>9, <2>2, <3>2
            <4> QED BY <1>9, <4>1
        <3> QED BY <3>1, <3>2
    <2> QED BY <2>2
<1>11. signed' \in [DOMAIN signed' -> Slips]
    <2>1. signed' = [x \in DOMAIN signed' |-> signed'[x]]
        BY <1>4
    <2> QED BY <1>10, <2>1
<1>12. ASSUME NEW v \in Workers
       PROVE  /\ worker'[v] \in WorkerRows
              /\ v # u => /\ worker'[v].op = worker[v].op /\ worker'[v].of = worker[v].of
                          /\ ~worker'[v].stale /\ worker[v].op # "none" =>
                                ~worker[v].stale /\ worker[v].of # e
              /\ v = u => worker'[v].op = "none"
    <2>1. CASE v = u
        BY <1>4, <2>1, OffIsOK
    <2>2. CASE v # u
        <3>1. worker'[v] = [worker[v] EXCEPT !.stale = @ \/ worker[v].of = e]
            BY <1>4, <2>2
        <3>2. worker[v] \in WorkerRows
            BY <1>5
        <3>3. (worker[v].stale \/ worker[v].of = e) \in BOOLEAN
            OBVIOUS
        <3>4. CASE worker[v] = Off
            <4>1. e # NoEntry /\ Off.of = NoEntry
                BY <1>5, OffIsOK
            <4>2. worker'[v] = [Off EXCEPT !.stale = FALSE]
                <5>1. (worker[v].stale \/ worker[v].of = e) = FALSE
                    BY <3>4, <4>1, OffIsOK
                <5> QED BY <3>1, <3>4, <5>1
            <4>3. worker'[v] = Off
                BY <4>2 DEF Off
            <4> QED BY <2>2, <3>4, <4>3, OffIsOK
        <3>5. CASE worker[v] \in [op : {"delete", "approve", "unapprove"}, of : Entries,
                                  stale : BOOLEAN]
            <4>1. worker'[v] \in [op : {"delete", "approve", "unapprove"}, of : Entries,
                                  stale : BOOLEAN]
                BY <3>1, <3>3, <3>5
            <4> QED BY <2>2, <3>1, <3>5, <4>1 DEF WorkerRows
        <3>6. CASE worker[v] \in [op : {"update"}, of : Entries, stale : BOOLEAN,
                                  gives : SUBSET {"project", "task"}, job : Jobs,
                                  piece : Pieces \cup {NoPiece}, hours : Hours]
            <4>1. worker'[v] \in [op : {"update"}, of : Entries, stale : BOOLEAN,
                                  gives : SUBSET {"project", "task"}, job : Jobs,
                                  piece : Pieces \cup {NoPiece}, hours : Hours]
                BY <3>1, <3>3, <3>6
            <4> QED BY <2>2, <3>1, <3>6, <4>1 DEF WorkerRows
        <3> QED BY <3>2, <3>4, <3>5, <3>6 DEF WorkerRows
    <2> QED BY <2>1, <2>2
<1>13. worker' \in [Workers -> WorkerRows]
    <2>1. worker' = [v \in Workers |-> worker'[v]]
        BY <1>4
    <2> QED BY <1>12, <2>1
<1>14. ASSUME NEW v \in Workers
       PROVE  /\ worker'[v].op \in {"none", "update", "delete", "approve", "unapprove"}
              /\ worker'[v].of \in Entries \cup {NoEntry}
              /\ worker'[v].stale \in BOOLEAN
    BY <1>12, OffIsOK DEF WorkerRows
<1>15. TimeSheetTypeOK'
    <2>1. onJob' \subseteq Workers \X Jobs /\ pieceOf' \in [Pieces -> Jobs]
        BY <1>4 DEF TimeInv, TimeSheetTypeOK
    <2>2. Logged' \subseteq Entries /\ \A x \in Logged' : entry'[x] \in EntryRows
        BY <1>5, <1>8
    <2>3. disputed' \subseteq Entries
        BY <1>4, <1>5
    <2> QED BY <1>9, <1>10, <1>14, <2>1, <2>2, <2>3 DEF TimeSheetTypeOK
<1>16. ASSUME NEW v \in Workers PROVE EntryIsAsRead(v)'
    BY <1>8, <1>12 DEF TimeInv, EntryIsAsRead
<1>17. ApprovedAreSigned'
    BY <1>6, <1>7, <1>8, <1>9 DEF TimeInv, ApprovedAreSigned
<1>18. ASSUME NEW x \in Logged, x \notin disputed', entry'[x].approved
       PROVE  /\ ~entry'[x].deleted
              /\ signed'[x] = [job |-> entry'[x].job, hours |-> entry'[x].hours]
    <2>1. x \notin disputed /\ (x = e => ~r.stale)
        BY <1>4, <1>18
    <2>2. CASE x # e
        <3>1. entry'[x] = entry[x] /\ entry[x].approved
            BY <1>8, <1>18, <2>2
        <3>2. x \in DOMAIN signed
            BY <3>1 DEF TimeInv, ApprovedAreSigned
        <3>3. signed'[x] = signed[x]
            BY <1>4, <2>2, <3>2
        <3> QED BY <2>1, <3>1, <3>3 DEF TimeInv, ApprovedIsFrozenUnlessRaced
    <2>3. CASE x = e
        <3>1. r.op = "approve"
            BY <1>5, <1>6, <1>7, <1>8, <1>18, <2>1, <2>3
        <3>2. signed'[x] = [job |-> entry[e].job, hours |-> entry[e].hours]
            BY <1>4, <2>3, <3>1
        <3> QED BY <1>5, <1>7, <1>8, <2>1, <2>3, <3>1, <3>2
    <2> QED BY <2>2, <2>3
<1>19. ApprovedIsFrozenUnlessRaced'
    BY <1>8, <1>18 DEF ApprovedIsFrozenUnlessRaced
<1> QED BY <1>8, <1>11, <1>13, <1>15, <1>16, <1>17, <1>19 DEF TimeInv

\* Every step of the hours.
LEMMA TimeSheetStep ==
    ASSUME TimeInv, [TimeSheetNext]_timeVars
    PROVE  TimeInv'
<1>1. CASE UNCHANGED timeVars
    BY <1>1 DEF timeVars, TimeInv, TimeSheetTypeOK, Logged, EntryIsAsRead, ApprovedAreSigned,
                ApprovedIsFrozenUnlessRaced
<1>2. CASE TimeSheetNext
    BY <1>2, RequestsOnEntriesBegin, PeopleAndPiecesMove, CreateEntryKeeps, WriteEntryKeeps
    DEF TimeSheetNext
<1> QED BY <1>1, <1>2

-----------------------------------------------------------------------------
(* The leads.                                                              *)

\* Unless it was overtaken, a request still finds the lead as it read it.
LeadIsAsRead(p) ==
    LET r == seller[p] IN
    IF r.op = "none" THEN r = Away
    ELSE /\ r.of \in Leads /\ r.to \in AllStages /\ lead[r.of].stage # NoStage
         /\ r.op = "convert" => r.to = "won"
         /\ ~r.stale => /\ lead[r.of].stage = r.from
                        /\ r.op = "convert" => ~lead[r.of].converted
                        /\ r.op = "delete" => r.to = r.from

\* What a request on a lead may be, as PipelineTypeOK has it.
SellerRows == [op : {"none", "update", "convert", "delete"},
               of : Leads \cup {NoLead}, from : AllStages \cup {NoStage},
               to : AllStages \cup {NoStage}, stale : BOOLEAN]

\* What HistoryHoldsUnlessRaced says of one lead: its history, and its client.
TellsAll(l) ==
    lead[l].stage # NoStage =>
        NoHoles(l) /\ \A n \in DOMAIN moves[l] : moves[l][n].from # moves[l][n].to
OneClient(l) == clientsOf[l] <= 1 /\ (clientsOf[l] = 1 <=> lead[l].converted)

PipelineInv ==
    /\ PipelineTypeOK
    /\ moves \in [Leads -> Seq(Moves)]
    /\ \A l \in Leads : lead[l].stage = NoStage => moves[l] = <<>>
    /\ \A p \in Sellers : LeadIsAsRead(p)
    /\ \A l \in Leads \ clashed : TellsAll(l) /\ OneClient(l)

\* A seller without a request.
LEMMA AwayIsOK ==
    /\ Away \in SellerRows /\ Away.op = "none" /\ Away.of = NoLead /\ Away.stale = FALSE
    /\ NoLead \notin Leads /\ NoStage \notin AllStages /\ "won" \in AllStages
    BY PipelineAssumption DEF Away, SellerRows, AllStages

\* At first there is no lead.
LEMMA PipelineBegins == PipelineInit => PipelineInv
<1> SUFFICES ASSUME PipelineInit PROVE PipelineInv
    OBVIOUS
<1>1. /\ lead = [l \in Leads |-> NotALead] /\ moves = [l \in Leads |-> <<>>]
      /\ clientsOf = [l \in Leads |-> 0] /\ seller = [p \in Sellers |-> Away] /\ clashed = {}
    BY DEF PipelineInit
<1>2. /\ NotALead \in LeadRows /\ NotALead.stage = NoStage /\ NotALead.converted = FALSE
    BY DEF NotALead, LeadRows
<1>3. /\ lead \in [Leads -> LeadRows] /\ clientsOf \in [Leads -> Nat]
      /\ seller \in [Sellers -> SellerRows] /\ clashed \subseteq Leads
    BY <1>1, <1>2, AwayIsOK
<1>4. moves \in [Leads -> Seq(Moves)]
    <2>1. <<>> \in Seq(Moves)
        OBVIOUS
    <2> QED BY <1>1, <2>1
<1>5. \A l \in Leads : moves[l] = <<>> /\ Len(moves[l]) <= MaxMoves /\ DOMAIN moves[l] = {}
    BY <1>1, PipelineAssumption
<1>6. PipelineTypeOK
    BY <1>3, <1>5 DEF PipelineTypeOK, SellerRows
<1>7. \A p \in Sellers : LeadIsAsRead(p)
    BY <1>1, AwayIsOK DEF LeadIsAsRead
<1>8. \A l \in Leads : TellsAll(l) /\ OneClient(l)
    BY <1>1, <1>2 DEF TellsAll, OneClient
<1> QED BY <1>4, <1>5, <1>6, <1>7, <1>8 DEF PipelineInv

\* A request that begins has read its lead as it is.
LEMMA PursueKeeps ==
    ASSUME PipelineInv, NEW p \in Sellers, NEW l \in Leads, NEW to \in AllStages,
           NEW op \in {"update", "convert", "delete"}, Pursue(p, op, l, to),
           op = "convert" => to = "won" /\ ~lead[l].converted,
           op = "delete" => to = lead[l].stage
    PROVE  PipelineInv'
<1>1. PICK r : r = [op |-> op, of |-> l, from |-> lead[l].stage, to |-> to, stale |-> FALSE]
    OBVIOUS
<1>2. /\ seller' = [seller EXCEPT ![p] = r] /\ OnFile(l)
      /\ UNCHANGED <<lead, moves, clientsOf, clashed>>
    BY <1>1 DEF Pursue
<1>3. /\ seller \in [Sellers -> SellerRows] /\ lead \in [Leads -> LeadRows]
    BY DEF PipelineInv, PipelineTypeOK, SellerRows
<1>4. r \in SellerRows
    BY <1>1, <1>3 DEF SellerRows, LeadRows
<1>5. seller' \in [Sellers -> SellerRows]
    BY <1>2, <1>3, <1>4
<1>6. PipelineTypeOK'
    BY <1>2, <1>5 DEF PipelineInv, PipelineTypeOK, SellerRows
<1>7. ASSUME NEW q \in Sellers PROVE LeadIsAsRead(q)'
    <2>1. CASE q # p
        <3>1. seller'[q] = seller[q] /\ LeadIsAsRead(q)
            BY <1>2, <1>3, <2>1 DEF PipelineInv
        <3> QED BY <1>2, <3>1 DEF LeadIsAsRead
    <2>2. CASE q = p
        <3>1. seller'[q] = r
            BY <1>2, <1>3, <2>2
        <3> QED BY <1>1, <1>2, <3>1 DEF LeadIsAsRead, OnFile
    <2> QED BY <2>1, <2>2
<1>8. \A x \in Leads \ clashed' : TellsAll(x)' /\ OneClient(x)'
    BY <1>2 DEF PipelineInv, TellsAll, OneClient, NoHoles
<1> QED BY <1>2, <1>6, <1>7, <1>8 DEF PipelineInv

\* Only a lead that has not been converted is converted.
LEMMA RequestsOnLeadsBegin ==
    ASSUME PipelineInv, NEW p \in Sellers, NEW l \in Leads,
           UpdateLead(p, l) \/ ConvertToClient(p, l) \/ DeleteLead(p, l)
    PROVE  PipelineInv'
<1>1. CASE UpdateLead(p, l)
    BY <1>1, PursueKeeps DEF UpdateLead
<1>2. CASE ConvertToClient(p, l)
    BY <1>2, PursueKeeps, AwayIsOK DEF ConvertToClient, Convertible
<1>3. CASE DeleteLead(p, l)
    <2>1. Pursue(p, "delete", l, lead[l].stage)
        BY <1>3 DEF DeleteLead
    <2>2. lead[l].stage \in AllStages
        <3>1. lead[l] \in LeadRows /\ lead[l].stage # NoStage
            BY <2>1 DEF Pursue, OnFile, PipelineInv, PipelineTypeOK
        <3> QED BY <3>1 DEF LeadRows
    <2> QED BY <2>1, <2>2, PursueKeeps
<1> QED BY <1>1, <1>2, <1>3

\* One more move from where the history has got to, or none at all.
LEMMA AMoveLeavesNoHole ==
    ASSUME NEW path \in Seq(Moves), NEW from \in AllStages \cup {NoStage},
           NEW to \in AllStages,
           path = <<>> => from = NoStage,
           path # <<>> => path[1].from = NoStage /\ path[Len(path)].to = from,
           \A n \in DOMAIN path : n > 1 => path[n].from = path[n - 1].to,
           \A n \in DOMAIN path : path[n].from # path[n].to,
           NEW more, more = Recorded(path, from, to)
    PROVE  /\ more \in Seq(Moves) /\ more # <<>>
           /\ more[1].from = NoStage /\ more[Len(more)].to = to
           /\ \A n \in DOMAIN more : n > 1 => more[n].from = more[n - 1].to
           /\ \A n \in DOMAIN more : more[n].from # more[n].to
<1>1. CASE from = to
    <2>1. more = path
        BY <1>1 DEF Recorded
    <2>2. path # <<>>
        BY <1>1, AwayIsOK
    <2> QED BY <1>1, <2>1, <2>2
<1>2. CASE from # to
    <2>1. PICK move : move = [from |-> from, to |-> to]
        OBVIOUS
    <2>2. move \in Moves /\ move.from = from /\ move.to = to
        BY <2>1 DEF Moves
    <2>3. more = Append(path, move)
        BY <1>2, <2>1 DEF Recorded
    <2>4. /\ more \in Seq(Moves) /\ Len(more) = Len(path) + 1 /\ Len(path) \in Nat
          /\ more[Len(path) + 1] = move /\ \A n \in 1 .. Len(path) : more[n] = path[n]
          /\ DOMAIN more = 1 .. Len(path) + 1 /\ DOMAIN path = 1 .. Len(path)
        BY <2>2, <2>3
    <2>5. path # <<>> => Len(path) > 0
        BY <2>4
    <2>6. more # <<>> /\ more[Len(more)].to = to
        BY <2>2, <2>4
    <2>7. more[1].from = NoStage
        <3>1. CASE path = <<>>
            <4>1. Len(path) = 0
                BY <3>1
            <4> QED BY <2>2, <2>4, <3>1, <4>1
        <3>2. CASE path # <<>>
            BY <2>4, <2>5, <3>2
        <3> QED BY <3>1, <3>2
    <2>8. ASSUME NEW n \in DOMAIN more
          PROVE  /\ n > 1 => more[n].from = more[n - 1].to
                 /\ more[n].from # more[n].to
        <3>1. CASE n \in 1 .. Len(path)
            <4>1. n \in DOMAIN path /\ more[n] = path[n]
                BY <2>4, <3>1
            <4>2. n > 1 => n - 1 \in 1 .. Len(path) /\ more[n - 1] = path[n - 1]
                BY <2>4, <3>1
            <4> QED BY <4>1, <4>2
        <3>2. CASE n = Len(path) + 1
            <4>1. more[n] = move
                BY <2>4, <3>2
            <4>2. ASSUME n > 1 PROVE more[n].from = more[n - 1].to
                <5>1. n - 1 = Len(path) /\ Len(path) \in 1 .. Len(path)
                    BY <2>4, <3>2, <4>2
                <5>2. more[n - 1] = path[Len(path)] /\ path # <<>>
                    BY <2>4, <5>1
                <5> QED BY <2>2, <4>1, <5>2
            <4> QED BY <1>2, <2>2, <4>1, <4>2
        <3> QED BY <2>4, <3>1, <3>2
    <2> QED BY <2>4, <2>6, <2>7, <2>8
<1> QED BY <1>1, <1>2

\* A move makes a history longer by one at most, whoever made it.
LEMMA RecordedIsAHistory ==
    ASSUME NEW path \in Seq(Moves), NEW from \in AllStages \cup {NoStage}, NEW to \in AllStages,
           Len(path) < MaxMoves
    PROVE  /\ Recorded(path, from, to) \in Seq(Moves)
           /\ Len(Recorded(path, from, to)) <= MaxMoves
<1>1. [from |-> from, to |-> to] \in Moves
    BY DEF Moves
<1>2. /\ Append(path, [from |-> from, to |-> to]) \in Seq(Moves)
      /\ Len(Append(path, [from |-> from, to |-> to])) = Len(path) + 1 /\ Len(path) \in Nat
    BY <1>1
<1> QED BY <1>2, PipelineAssumption DEF Recorded

\* The entries of a history are moves.
LEMMA HistoriesHaveMoves ==
    ASSUME NEW path \in Seq(Moves)
    PROVE  \A n \in DOMAIN path : path[n] \in Moves
    OBVIOUS

\* The history of a new lead is its first stage.
LEMMA CreateLeadKeeps ==
    ASSUME PipelineInv, NEW l \in Leads, CreateLead(l)
    PROVE  PipelineInv'
<1>1. PICK stage \in AllStages :
        /\ lead' = [lead EXCEPT ![l].stage = stage]
        /\ moves' = [moves EXCEPT ![l] = Recorded(@, NoStage, stage)]
    BY DEF CreateLead
<1>2. lead[l] = NotALead /\ UNCHANGED <<clientsOf, seller, clashed>>
    BY DEF CreateLead
<1>3. /\ lead \in [Leads -> LeadRows] /\ moves \in [Leads -> Seq(Moves)]
      /\ moves[l] = <<>>
      /\ \A x \in Leads : Len(moves[x]) <= MaxMoves
    BY <1>2 DEF PipelineInv, PipelineTypeOK, NotALead
<1>4. PICK more : more = Recorded(moves[l], NoStage, stage)
    OBVIOUS
<1>5. /\ more \in Seq(Moves) /\ more # <<>>
      /\ more[1].from = NoStage /\ more[Len(more)].to = stage
      /\ \A n \in DOMAIN more : n > 1 => more[n].from = more[n - 1].to
      /\ \A n \in DOMAIN more : more[n].from # more[n].to
    <2>1. PICK move : move = [from |-> NoStage, to |-> stage]
        OBVIOUS
    <2>2. move \in Moves /\ move.from = NoStage /\ move.to = stage /\ stage # NoStage
        BY <2>1, AwayIsOK DEF Moves
    <2>3. more = <<move>>
        BY <1>3, <1>4, <2>1, <2>2 DEF Recorded
    <2>4. DOMAIN more = {1} /\ Len(more) = 1 /\ more[1] = move /\ more \in Seq(Moves)
        BY <2>2, <2>3
    <2> QED BY <2>2, <2>3, <2>4
<1>6. Len(more) <= MaxMoves
    <2>1. Len(moves[l]) = 0 /\ 0 < MaxMoves
        BY <1>3, PipelineAssumption
    <2> QED BY <1>3, <1>4, <2>1, RecordedIsAHistory
<1>7. /\ lead' \in [Leads -> LeadRows] /\ lead'[l].stage = stage /\ stage # NoStage
      /\ lead'[l].converted = FALSE /\ lead[l].converted = FALSE /\ lead[l].stage = NoStage
      /\ \A x \in Leads \ {l} : lead'[x] = lead[x]
    <2>1. PICK row : row = [NotALead EXCEPT !.stage = stage]
        OBVIOUS
    <2>2. lead' = [lead EXCEPT ![l] = row]
        BY <1>1, <1>2, <1>3, <2>1
    <2>3. row \in LeadRows /\ row.stage = stage /\ row.converted = FALSE
        BY <2>1 DEF NotALead, LeadRows
    <2> QED BY <1>2, <1>3, <2>2, <2>3, AwayIsOK DEF NotALead
<1>8. /\ moves' \in [Leads -> Seq(Moves)] /\ moves'[l] = more
      /\ \A x \in Leads \ {l} : moves'[x] = moves[x]
    BY <1>1, <1>3, <1>4, <1>5
<1>9. PipelineTypeOK'
    <2>1. ASSUME NEW x \in Leads
          PROVE  Len(moves'[x]) <= MaxMoves /\ \A n \in DOMAIN moves'[x] : moves'[x][n] \in Moves
        <3>1. moves'[x] \in Seq(Moves)
            BY <1>8
        <3> QED BY <1>3, <1>6, <1>8, <3>1, HistoriesHaveMoves
    <2> QED BY <1>2, <1>7, <2>1 DEF PipelineInv, PipelineTypeOK
<1>10. ASSUME NEW p \in Sellers PROVE LeadIsAsRead(p)'
    <2>1. LeadIsAsRead(p)
        BY DEF PipelineInv
    <2>2. seller[p].op # "none" => seller[p].of \in Leads \ {l}
        BY <1>7, <2>1 DEF LeadIsAsRead
    <2> QED BY <1>2, <1>7, <2>1, <2>2 DEF LeadIsAsRead
<1>11. \A x \in Leads : (lead[x].stage = NoStage => moves[x] = <<>>)'
    BY <1>7, <1>8 DEF PipelineInv
<1>12. ASSUME NEW x \in Leads \ clashed' PROVE TellsAll(x)' /\ OneClient(x)'
    <2>1. TellsAll(x) /\ OneClient(x)
        BY <1>2 DEF PipelineInv
    <2>2. CASE x # l
        BY <1>2, <1>7, <1>8, <2>1, <2>2 DEF TellsAll, OneClient, NoHoles
    <2>3. CASE x = l
        <3>1. OneClient(x)'
            BY <1>2, <1>7, <2>1, <2>3 DEF OneClient
        <3>2. NoHoles(x)' /\ \A n \in DOMAIN moves'[x] : moves'[x][n].from # moves'[x][n].to
            BY <1>5, <1>7, <1>8, <2>3 DEF NoHoles
        <3> QED BY <3>1, <3>2 DEF TellsAll
    <2> QED BY <2>2, <2>3
<1> QED BY <1>8, <1>9, <1>10, <1>11, <1>12 DEF PipelineInv

\* A write records the move from the stage that was read.
LEMMA WriteLeadKeeps ==
    ASSUME PipelineInv, NEW p \in Sellers, WriteLead(p)
    PROVE  PipelineInv'
<1>1. PICK r : r = seller[p]
    OBVIOUS
<1>2. PICK l : l = r.of
    OBVIOUS
<1>3. /\ r.op # "none" /\ Len(moves[l]) < MaxMoves
      /\ lead' = [lead EXCEPT ![l] =
                     CASE r.op = "update"  -> [@ EXCEPT !.stage = r.to]
                       [] r.op = "convert" -> [@ EXCEPT !.stage = "won", !.converted = TRUE]
                       [] r.op = "delete"  -> [@ EXCEPT !.deleted = TRUE]]
      /\ moves' = [moves EXCEPT ![l] = Recorded(@, r.from, r.to)]
      /\ clientsOf' = IF r.op = "convert" THEN [clientsOf EXCEPT ![l] = @ + 1] ELSE clientsOf
      /\ clashed' = IF r.stale THEN clashed \cup {l} ELSE clashed
      /\ seller' = [q \in Sellers |->
                       IF q = p THEN Away
                       ELSE [seller[q] EXCEPT !.stale = @ \/ seller[q].of = l]]
    BY <1>1, <1>2 DEF WriteLead
<1>4. /\ lead \in [Leads -> LeadRows] /\ moves \in [Leads -> Seq(Moves)]
      /\ clientsOf \in [Leads -> Nat] /\ seller \in [Sellers -> SellerRows]
      /\ clashed \subseteq Leads /\ r \in SellerRows
      /\ \A x \in Leads : Len(moves[x]) <= MaxMoves
    BY <1>1 DEF PipelineInv, PipelineTypeOK, SellerRows
<1>5. /\ r.op \in {"update", "convert", "delete"} /\ r.stale \in BOOLEAN
      /\ r.from \in AllStages \cup {NoStage}
      /\ l \in Leads /\ r.to \in AllStages /\ lead[l].stage # NoStage
      /\ r.op = "convert" => r.to = "won"
      /\ ~r.stale => /\ lead[l].stage = r.from
                     /\ r.op = "convert" => ~lead[l].converted
                     /\ r.op = "delete" => r.to = r.from
      /\ lead[l] \in LeadRows
    BY <1>1, <1>2, <1>3, <1>4 DEF PipelineInv, LeadIsAsRead, SellerRows
<1>6. PICK row : row = lead'[l]
    OBVIOUS
<1>7. /\ row \in LeadRows /\ row.stage # NoStage /\ lead' = [lead EXCEPT ![l] = row]
      /\ row.stage = IF r.op = "delete" THEN lead[l].stage ELSE r.to
      /\ row.converted = IF r.op = "convert" THEN TRUE ELSE lead[l].converted
    <2>1. CASE r.op = "update"
        <3>1. row = [lead[l] EXCEPT !.stage = r.to] /\ lead' = [lead EXCEPT ![l] = row]
            BY <1>3, <1>4, <1>5, <1>6, <2>1
        <3>2. r.to \in AllStages \cup {NoStage} /\ r.to # NoStage
            BY <1>5, AwayIsOK
        <3> QED BY <1>5, <2>1, <3>1, <3>2 DEF LeadRows
    <2>2. CASE r.op = "convert"
        <3>1. /\ row = [lead[l] EXCEPT !.stage = "won", !.converted = TRUE]
              /\ lead' = [lead EXCEPT ![l] = row]
            BY <1>3, <1>4, <1>5, <1>6, <2>2
        <3>2. "won" \in AllStages \cup {NoStage} /\ "won" # NoStage
            BY AwayIsOK
        <3> QED BY <1>5, <2>2, <3>1, <3>2 DEF LeadRows
    <2>3. CASE r.op = "delete"
        <3>1. row = [lead[l] EXCEPT !.deleted = TRUE] /\ lead' = [lead EXCEPT ![l] = row]
            BY <1>3, <1>4, <1>5, <1>6, <2>3
        <3> QED BY <1>5, <2>3, <3>1 DEF LeadRows
    <2> QED BY <1>5, <2>1, <2>2, <2>3
<1>8. /\ lead' \in [Leads -> LeadRows] /\ lead'[l] = row
      /\ \A x \in Leads \ {l} : lead'[x] = lead[x]
    BY <1>4, <1>5, <1>7
<1>9. PICK more : more = Recorded(moves[l], r.from, r.to)
    OBVIOUS
<1>10. more \in Seq(Moves) /\ Len(more) <= MaxMoves
    <2>1. moves[l] \in Seq(Moves)
        BY <1>4, <1>5
    <2> QED BY <1>3, <1>5, <1>9, <2>1, RecordedIsAHistory
<1>11. /\ moves' \in [Leads -> Seq(Moves)] /\ moves'[l] = more
       /\ \A x \in Leads \ {l} : moves'[x] = moves[x]
    <2>1. moves' = [moves EXCEPT ![l] = more]
        BY <1>3, <1>4, <1>5, <1>9
    <2> QED BY <1>4, <1>5, <1>10, <2>1
<1>12. /\ clientsOf' \in [Leads -> Nat]
       /\ clientsOf'[l] = IF r.op = "convert" THEN clientsOf[l] + 1 ELSE clientsOf[l]
       /\ \A x \in Leads \ {l} : clientsOf'[x] = clientsOf[x]
    BY <1>3, <1>4, <1>5
<1>13. ASSUME NEW q \in Sellers
       PROVE  /\ seller'[q] \in SellerRows
              /\ q = p => seller'[q] = Away
              /\ q # p /\ seller[q] = Away => seller'[q] = Away
              /\ q # p => /\ seller'[q].op = seller[q].op /\ seller'[q].of = seller[q].of
                          /\ seller'[q].from = seller[q].from /\ seller'[q].to = seller[q].to
                          /\ ~seller'[q].stale => ~seller[q].stale /\ seller[q].of # l
    <2>1. CASE q = p
        BY <1>3, <2>1, AwayIsOK
    <2>2. CASE q # p
        <3>1. /\ seller'[q] = [seller[q] EXCEPT !.stale = @ \/ seller[q].of = l]
              /\ seller[q] \in SellerRows
              /\ (seller[q].stale \/ seller[q].of = l) \in BOOLEAN
            BY <1>3, <1>4, <2>2
        <3>2. seller[q] = Away => seller'[q] = Away
            <4>1. ASSUME seller[q] = Away PROVE seller'[q] = Away
                <5>1. (seller[q].stale \/ seller[q].of = l) = FALSE
                    BY <1>5, <4>1, AwayIsOK
                <5>2. seller'[q] = [Away EXCEPT !.stale = FALSE]
                    BY <3>1, <4>1, <5>1
                <5> QED BY <5>2 DEF Away
            <4> QED BY <4>1
        <3> QED BY <2>2, <3>1, <3>2 DEF SellerRows
    <2> QED BY <2>1, <2>2
<1>14. seller' \in [Sellers -> SellerRows]
    <2>1. seller' = [q \in Sellers |-> seller'[q]]
        BY <1>3
    <2> QED BY <1>13, <2>1
<1>15. PipelineTypeOK'
    <2>1. ASSUME NEW x \in Leads
          PROVE  Len(moves'[x]) <= MaxMoves /\ \A n \in DOMAIN moves'[x] : moves'[x][n] \in Moves
        <3>1. moves'[x] \in Seq(Moves)
            BY <1>11
        <3> QED BY <1>4, <1>10, <1>11, <3>1, HistoriesHaveMoves
    <2>2. clashed' \subseteq Leads
        BY <1>3, <1>4, <1>5
    <2> QED BY <1>8, <1>12, <1>14, <2>1, <2>2 DEF PipelineTypeOK, SellerRows
<1>16. ASSUME NEW q \in Sellers PROVE LeadIsAsRead(q)'
    <2>1. LeadIsAsRead(q)
        BY DEF PipelineInv
    <2>2. CASE q = p
        BY <1>13, <2>2, AwayIsOK DEF LeadIsAsRead
    <2>3. CASE q # p /\ seller[q].op = "none"
        BY <1>13, <2>1, <2>3, AwayIsOK DEF LeadIsAsRead
    <2>4. CASE q # p /\ seller[q].op # "none"
        <3>1. /\ seller[q].of \in Leads /\ seller[q].to \in AllStages
              /\ lead[seller[q].of].stage # NoStage
              /\ seller[q].op = "convert" => seller[q].to = "won"
              /\ ~seller[q].stale => /\ lead[seller[q].of].stage = seller[q].from
                                     /\ seller[q].op = "convert" => ~lead[seller[q].of].converted
                                     /\ seller[q].op = "delete" => seller[q].to = seller[q].from
            BY <2>1, <2>4 DEF LeadIsAsRead
        <3>2. lead'[seller[q].of].stage # NoStage
            BY <1>7, <1>8, <3>1
        <3>3. seller[q].of # l => lead'[seller[q].of] = lead[seller[q].of]
            BY <1>8, <3>1
        <3> QED BY <1>13, <2>4, <3>1, <3>2, <3>3 DEF LeadIsAsRead
    <2> QED BY <2>2, <2>3, <2>4
<1>17. \A x \in Leads : (lead[x].stage = NoStage => moves[x] = <<>>)'
    BY <1>7, <1>8, <1>11 DEF PipelineInv
<1>18. ASSUME NEW x \in Leads \ clashed' PROVE TellsAll(x)' /\ OneClient(x)'
    <2>1. TellsAll(x) /\ OneClient(x) /\ (x = l => ~r.stale)
        BY <1>3, <1>18 DEF PipelineInv
    <2>2. CASE x # l
        BY <1>8, <1>11, <1>12, <2>1, <2>2 DEF TellsAll, OneClient, NoHoles
    <2>3. CASE x = l
        <3>1. OneClient(x)'
            <4>1. /\ clientsOf[l] \in Nat /\ clientsOf[l] <= 1
                  /\ clientsOf[l] = 1 <=> lead[l].converted
                BY <1>4, <1>5, <2>1, <2>3 DEF OneClient
            <4>2. CASE r.op = "convert"
                <5>1. clientsOf[l] # 1
                    BY <1>5, <2>1, <2>3, <4>1, <4>2
                <5>2. clientsOf[l] = 0
                    BY <4>1, <5>1
                <5>3. clientsOf'[l] = 1
                    BY <1>12, <4>2, <5>2
                <5>4. lead'[l].converted
                    BY <1>7, <1>8, <4>2
                <5> QED BY <2>3, <5>3, <5>4 DEF OneClient
            <4>3. CASE r.op # "convert"
                <5>1. clientsOf'[l] = clientsOf[l] /\ lead'[l].converted = lead[l].converted
                    BY <1>7, <1>8, <1>12, <4>3
                <5> QED BY <2>3, <4>1, <5>1 DEF OneClient
            <4> QED BY <4>2, <4>3
        <3>2. /\ moves[l] # <<>> /\ moves[l][1].from = NoStage
              /\ moves[l][Len(moves[l])].to = r.from
              /\ \A n \in DOMAIN moves[l] : n > 1 => moves[l][n].from = moves[l][n - 1].to
              /\ \A n \in DOMAIN moves[l] : moves[l][n].from # moves[l][n].to
            BY <1>5, <2>1, <2>3 DEF TellsAll, NoHoles
        <3>3. moves[l] \in Seq(Moves)
            BY <1>4, <1>5
        <3>4. /\ more # <<>> /\ more[1].from = NoStage /\ more[Len(more)].to = r.to
              /\ \A n \in DOMAIN more : n > 1 => more[n].from = more[n - 1].to
              /\ \A n \in DOMAIN more : more[n].from # more[n].to
            <4>1. PICK path : path = moves[l]
                OBVIOUS
            <4>2. /\ path \in Seq(Moves) /\ path # <<>> /\ path[1].from = NoStage
                  /\ path[Len(path)].to = r.from /\ more = Recorded(path, r.from, r.to)
                BY <1>9, <3>2, <3>3, <4>1
            <4>3. \A n \in DOMAIN path : n > 1 => path[n].from = path[n - 1].to
                BY <3>2, <4>1
            <4>4. \A n \in DOMAIN path : path[n].from # path[n].to
                BY <3>2, <4>1
            <4>5. r.from \in AllStages \cup {NoStage} /\ r.to \in AllStages
                BY <1>5
            <4>6. path = <<>> => r.from = NoStage
                BY <4>2
            <4>7. path # <<>> => path[1].from = NoStage /\ path[Len(path)].to = r.from
                BY <4>2
            <4> QED BY <4>2, <4>3, <4>4, <4>5, <4>6, <4>7, AMoveLeavesNoHole
        <3>5. row.stage = r.to
            BY <1>5, <1>7, <2>1, <2>3
        <3>6. NoHoles(x)' /\ \A n \in DOMAIN moves'[x] : moves'[x][n].from # moves'[x][n].to
            BY <1>8, <1>11, <2>3, <3>4, <3>5 DEF NoHoles
        <3> QED BY <3>1, <3>6 DEF TellsAll
    <2> QED BY <2>2, <2>3
<1> QED BY <1>11, <1>15, <1>16, <1>17, <1>18 DEF PipelineInv

\* Every step of the leads.
LEMMA PipelineStep ==
    ASSUME PipelineInv, [PipelineNext]_pipelineVars
    PROVE  PipelineInv'
<1>1. CASE UNCHANGED pipelineVars
    BY <1>1 DEF pipelineVars, PipelineInv, PipelineTypeOK, LeadIsAsRead, TellsAll, OneClient,
                NoHoles
<1>2. CASE PipelineNext
    BY <1>2, RequestsOnLeadsBegin, CreateLeadKeeps, WriteLeadKeeps DEF PipelineNext
<1> QED BY <1>1, <1>2

\* The two halves of HistoryHoldsUnlessRaced.
LEMMA PipelineSuffices == PipelineInv => HistoryHoldsUnlessRaced
    BY DEF PipelineInv, HistoryHoldsUnlessRaced, TellsAll, OneClient

-----------------------------------------------------------------------------
(* The projects.                                                           *)

\* Unless it was overtaken, a request still finds what decided it.
RequestIsAsRead(p) ==
    LET r == clerk[p] IN
    /\ r.op \in {"create", "insert", "baseline", "baseline again", "drop project"} =>
          r.project \in Projects
    /\ r.op = "drop client" => r.client \in Clients
    /\ ~r.stale =>
          /\ r.op = "drop client" => \A x \in money : x.client # r.client
          /\ r.op = "drop project" => \A x \in money : x.project # r.project
          /\ r.op = "baseline" => project[r.project].baseline = NoPlanYet
          /\ r.op = "money" => /\ r.client # NoClient => client[r.client] = "here"
                               /\ r.project # NoProject => Live(r.project)

\* Whoever may insert a project is alone with the lock, and the room is still there.
InsertsAlone(p) ==
    clerk[p].op = "insert" =>
       /\ held /\ Cardinality(Used) < MaxProjects
       /\ \A q \in Clerks : clerk[q].op = "insert" => q = p

ProjectsInv ==
    /\ ProjectsTypeOK
    /\ IsFiniteSet(Used)
    /\ \A p \in Clerks : RequestIsAsRead(p) /\ InsertsAlone(p)
    /\ ProjectsNeverOversold /\ DeletedIsClearUnlessRaced

\* What a request on a project may be, as ProjectsTypeOK has it.
ClerkRows == [op : {"none", "create", "insert", "baseline",
                    "baseline again", "drop client", "drop project", "money"},
              client : Clients \cup {NoClient}, project : Projects \cup {NoProject},
              baseline : Baselines,
              stale : BOOLEAN]

\* What a request is about, as Attended has it.
About(r) == {r.client, r.project} \ {NoClient, NoProject}

\* A clerk without a request.
LEMMA BreakIsOK ==
    /\ Break \in ClerkRows /\ Break.op = "none" /\ Break.stale = FALSE
    /\ Break.client = NoClient /\ Break.project = NoProject /\ Break.baseline = NoPlanYet
    BY DEF Break, ClerkRows, Baselines

\* At first there is no client and no project.
LEMMA ProjectsBegin == ProjectsInit => ProjectsInv
<1> SUFFICES ASSUME ProjectsInit PROVE ProjectsInv
    OBVIOUS
<1>1. /\ client = [c \in Clients |-> "none"] /\ project = [j \in Projects |-> NotStarted]
      /\ money = {} /\ clerk = [p \in Clerks |-> Break] /\ held = FALSE /\ crossing = {}
    BY DEF ProjectsInit
<1>2. NotStarted \in ProjectRows /\ NotStarted.at = "none"
    BY DEF NotStarted, ProjectRows, Baselines
<1>3. Used = {}
    BY <1>1, <1>2 DEF Used, Live
<1>4. IsFiniteSet(Used) /\ Cardinality(Used) = 0
    BY <1>3, FS_EmptySet
<1>5. ProjectsTypeOK
    BY <1>1, <1>2, BreakIsOK DEF ProjectsTypeOK, ClerkRows
<1>6. \A p \in Clerks : RequestIsAsRead(p) /\ InsertsAlone(p)
    BY <1>1, BreakIsOK DEF RequestIsAsRead, InsertsAlone
<1>7. ProjectsNeverOversold /\ DeletedIsClearUnlessRaced
    BY <1>1, <1>4, ProjectsAssumption DEF ProjectsNeverOversold, DeletedIsClearUnlessRaced
<1> QED BY <1>4, <1>5, <1>6, <1>7 DEF ProjectsInv

\* The types, one by one.
LEMMA ProjectsHaveTypes ==
    ASSUME ProjectsInv
    PROVE  /\ client \in [Clients -> {"none", "here", "deleted"}]
           /\ project \in [Projects -> ProjectRows] /\ money \subseteq Money
           /\ held \in BOOLEAN /\ crossing \subseteq Clients \cup Projects
           /\ clerk \in [Clerks -> ClerkRows]
    BY DEF ProjectsInv, ProjectsTypeOK, ClerkRows

\* A request that begins has read the client and the project as they are.
LEMMA AttendKeeps ==
    ASSUME ProjectsInv, NEW p \in Clerks, NEW r \in ClerkRows, Attend(p, r),
           r.op \notin {"none", "insert"},
           r.op \in {"create", "baseline", "baseline again", "drop project"} =>
              r.project \in Projects,
           r.op = "drop client" => r.client \in Clients /\ \A x \in money : x.client # r.client,
           r.op = "drop project" => \A x \in money : x.project # r.project,
           r.op = "baseline" => project[r.project].baseline = NoPlanYet,
           r.op = "money" => /\ r.client # NoClient => client[r.client] = "here"
                             /\ r.project # NoProject => Live(r.project)
    PROVE  ProjectsInv'
<1>1. /\ clerk' = [clerk EXCEPT ![p] = r] /\ clerk[p] = Break
      /\ UNCHANGED <<client, project, money, held, crossing>>
    BY DEF Attend
<1>2. clerk' \in [Clerks -> ClerkRows] /\ clerk'[p] = r
      /\ \A q \in Clerks \ {p} : clerk'[q] = clerk[q]
    BY <1>1, ProjectsHaveTypes
<1>3. ProjectsTypeOK'
    BY <1>1, <1>2, ProjectsHaveTypes DEF ProjectsTypeOK, ClerkRows
<1>4. Used' = Used /\ \A j : Live(j)' = Live(j)
    BY <1>1 DEF Used, Live
<1>5. ASSUME NEW q \in Clerks PROVE RequestIsAsRead(q)'
    <2>1. CASE q # p
        <3>1. RequestIsAsRead(q) /\ clerk'[q] = clerk[q]
            BY <1>2, <2>1 DEF ProjectsInv
        <3> QED BY <1>1, <1>4, <3>1 DEF RequestIsAsRead
    <2>2. CASE q = p
        BY <1>1, <1>2, <1>4, <2>2 DEF RequestIsAsRead
    <2> QED BY <2>1, <2>2
<1>6. ASSUME NEW q \in Clerks PROVE InsertsAlone(q)'
    <2>1. \A x \in Clerks : clerk'[x].op = "insert" => clerk[x].op = "insert"
        BY <1>2
    <2> QED BY <1>1, <1>4, <2>1 DEF InsertsAlone, ProjectsInv
<1>7. ProjectsNeverOversold' /\ DeletedIsClearUnlessRaced' /\ IsFiniteSet(Used)'
    BY <1>1, <1>4 DEF ProjectsInv, ProjectsNeverOversold, DeletedIsClearUnlessRaced
<1> QED BY <1>3, <1>5, <1>6, <1>7 DEF ProjectsInv

\* A client with money on it is not deleted.
LEMMA DeleteClientBegins ==
    ASSUME ProjectsInv, NEW p \in Clerks, NEW c \in Clients, DeleteClient(p, c)
    PROVE  ProjectsInv'
<1>1. PICK r : r = [Break EXCEPT !.op = "drop client", !.client = c]
    OBVIOUS
<1>2. r \in ClerkRows /\ r.op = "drop client" /\ r.client = c
    BY <1>1, BreakIsOK DEF ClerkRows
<1>3. Attend(p, r) /\ \A x \in money : x.client # r.client
    BY <1>1, <1>2 DEF DeleteClient
<1> QED BY <1>2, <1>3, AttendKeeps

\* A project with money on it is not deleted, nor baselined twice unasked.
LEMMA ProjectRequestsBegin ==
    ASSUME ProjectsInv, NEW p \in Clerks, NEW j \in Projects,
           (\E c \in Clients : CreateProject(p, c, j)) \/ SetBaseline(p, j) \/ DeleteProject(p, j)
    PROVE  ProjectsInv'
<1>1. CASE \E c \in Clients : CreateProject(p, c, j)
    <2>1. PICK r : r = [Break EXCEPT !.op = "create", !.project = j]
        OBVIOUS
    <2>2. r \in ClerkRows /\ r.op = "create" /\ r.project = j
        BY <2>1, BreakIsOK DEF ClerkRows
    <2>3. Attend(p, r)
        BY <1>1, <2>1 DEF CreateProject
    <2> QED BY <2>2, <2>3, AttendKeeps
<1>2. CASE SetBaseline(p, j)
    <2>1. PICK baseline \in Plans, asked \in BOOLEAN :
            /\ Unbaselined(j, asked)
            /\ Attend(p, [Break EXCEPT !.op = IF asked THEN "baseline again" ELSE "baseline",
                                        !.project = j, !.baseline = baseline])
        BY <1>2 DEF SetBaseline
    <2>2. PICK r : r = [Break EXCEPT !.op = IF asked THEN "baseline again" ELSE "baseline",
                                     !.project = j, !.baseline = baseline]
        OBVIOUS
    <2>3. /\ r \in ClerkRows /\ r.project = j
          /\ r.op = IF asked THEN "baseline again" ELSE "baseline"
        BY <2>2, BreakIsOK DEF ClerkRows, Baselines
    <2>4. Attend(p, r)
        BY <2>1, <2>2
    <2>5. r.op = "baseline" => project[r.project].baseline = NoPlanYet
        BY <2>1, <2>3 DEF Unbaselined
    <2> QED BY <2>3, <2>4, <2>5, AttendKeeps
<1>3. CASE DeleteProject(p, j)
    <2>1. PICK r : r = [Break EXCEPT !.op = "drop project", !.project = j]
        OBVIOUS
    <2>2. r \in ClerkRows /\ r.op = "drop project" /\ r.project = j
        BY <2>1, BreakIsOK DEF ClerkRows
    <2>3. Attend(p, r) /\ \A x \in money : x.project # r.project
        BY <1>3, <2>1, <2>2 DEF DeleteProject, HasMoney
    <2> QED BY <2>2, <2>3, AttendKeeps
<1> QED BY <1>1, <1>2, <1>3

\* Money is recorded on clients and projects that are there.
LEMMA RecordMoneyBegins ==
    ASSUME ProjectsInv, NEW p \in Clerks, NEW c \in Clients \cup {NoClient},
           NEW j \in Projects \cup {NoProject}, RecordMoney(p, c, j)
    PROVE  ProjectsInv'
<1>1. PICK r : r = [Break EXCEPT !.op = "money", !.client = c, !.project = j]
    OBVIOUS
<1>2. r \in ClerkRows /\ r.op = "money" /\ r.client = c /\ r.project = j
    BY <1>1, BreakIsOK DEF ClerkRows
<1>3. /\ Attend(p, r)
      /\ r.client # NoClient => client[r.client] = "here"
      /\ r.project # NoProject => Live(r.project)
    BY <1>1, <1>2 DEF RecordMoney
<1> QED BY <1>2, <1>3, AttendKeeps

\* What a finished request leaves of the others: the same, but overtaken if they were about
\* what it was about.
LEMMA AttendedOvertakes ==
    ASSUME ProjectsInv, NEW p \in Clerks, Attended(p)
    PROVE  /\ clerk' \in [Clerks -> ClerkRows] /\ clerk'[p] = Break
           /\ \A q \in Clerks \ {p} :
                 /\ clerk'[q].op = clerk[q].op /\ clerk'[q].client = clerk[q].client
                 /\ clerk'[q].project = clerk[q].project
                 /\ ~clerk'[q].stale =>
                       ~clerk[q].stale /\ About(clerk[q]) \cap About(clerk[p]) = {}
           /\ About(clerk[p]) \subseteq Clients \cup Projects
           /\ crossing' = IF clerk[p].stale THEN crossing \cup About(clerk[p]) ELSE crossing
           /\ crossing' \subseteq Clients \cup Projects /\ crossing \subseteq crossing'
<1>1. /\ clerk' = [q \in Clerks |->
                     IF q = p THEN Break
                     ELSE [clerk[q] EXCEPT
                              !.stale = @ \/ About(clerk[q]) \cap About(clerk[p]) # {}]]
      /\ crossing' = IF clerk[p].stale THEN crossing \cup About(clerk[p]) ELSE crossing
    BY DEF Attended, About
<1>2. /\ clerk \in [Clerks -> ClerkRows] /\ crossing \subseteq Clients \cup Projects
      /\ clerk[p] \in ClerkRows
    BY ProjectsHaveTypes
<1>3. ASSUME NEW q \in Clerks, q # p
      PROVE  /\ clerk'[q] \in ClerkRows
             /\ clerk'[q].op = clerk[q].op /\ clerk'[q].client = clerk[q].client
             /\ clerk'[q].project = clerk[q].project
             /\ ~clerk'[q].stale =>
                   ~clerk[q].stale /\ About(clerk[q]) \cap About(clerk[p]) = {}
    <2>1. PICK s : s = (clerk[q].stale \/ About(clerk[q]) \cap About(clerk[p]) # {})
        OBVIOUS
    <2>2. s \in BOOLEAN /\ clerk[q] \in ClerkRows /\ clerk'[q] = [clerk[q] EXCEPT !.stale = s]
        BY <1>1, <1>2, <1>3, <2>1
    <2>3. ~s => ~clerk[q].stale /\ About(clerk[q]) \cap About(clerk[p]) = {}
        BY <2>1
    <2> QED BY <2>2, <2>3 DEF ClerkRows
<1>4. clerk'[p] = Break /\ clerk' = [q \in Clerks |-> clerk'[q]]
    BY <1>1
<1>5. clerk' \in [Clerks -> ClerkRows]
    BY <1>3, <1>4, BreakIsOK
<1>6. About(clerk[p]) \subseteq Clients \cup Projects
    BY <1>2 DEF About, ClerkRows
<1> QED BY <1>1, <1>2, <1>3, <1>4, <1>5, <1>6

\* Neither a new client nor less money disturbs a request.
LEMMA ClientsComeAndMoneyGoes ==
    ASSUME ProjectsInv,
           (\E c \in Clients : CreateClient(c)) \/ (\E x \in money : RemoveMoney(x))
    PROVE  ProjectsInv'
<1>1. /\ money' \subseteq money /\ UNCHANGED <<project, clerk, held, crossing>>
      /\ client' \in [Clients -> {"none", "here", "deleted"}]
      /\ \A c \in Clients : /\ client'[c] = "deleted" => client[c] = "deleted"
                            /\ client[c] = "here" => client'[c] = "here"
    <2>1. CASE \E c \in Clients : CreateClient(c)
        <3>1. PICK c \in Clients : CreateClient(c)
            BY <2>1
        <3> QED BY <3>1, ProjectsHaveTypes DEF CreateClient
    <2>2. CASE \E x \in money : RemoveMoney(x)
        BY <2>2, ProjectsHaveTypes DEF RemoveMoney
    <2> QED BY <2>1, <2>2
<1>2. Used' = Used /\ \A j : Live(j)' = Live(j)
    BY <1>1 DEF Used, Live
<1>3. ProjectsTypeOK'
    BY <1>1, ProjectsHaveTypes DEF ProjectsTypeOK, ClerkRows
<1>4. ASSUME NEW q \in Clerks PROVE RequestIsAsRead(q)'
    <2>1. RequestIsAsRead(q) /\ clerk[q] \in ClerkRows
        BY ProjectsHaveTypes DEF ProjectsInv
    <2>2. clerk[q].client \in Clients \cup {NoClient}
        BY <2>1 DEF ClerkRows
    <2> QED BY <1>1, <1>2, <2>1, <2>2 DEF RequestIsAsRead
<1>5. ASSUME NEW q \in Clerks PROVE InsertsAlone(q)'
    BY <1>1, <1>2 DEF ProjectsInv, InsertsAlone
<1>6. DeletedIsClearUnlessRaced'
    <2>1. \A x \in money : x.client \in Clients \cup {NoClient}
        BY ProjectsHaveTypes DEF Money
    <2> QED BY <1>1, <2>1 DEF ProjectsInv, DeletedIsClearUnlessRaced
<1> QED BY <1>1, <1>2, <1>3, <1>4, <1>5, <1>6 DEF ProjectsInv, ProjectsNeverOversold

\* The lock goes to one request, when there is room.
LEMMA AdmitOrRefuseKeeps ==
    ASSUME ProjectsInv, NEW p \in Clerks, Admit(p) \/ Refused(p)
    PROVE  ProjectsInv'
<1>1. UNCHANGED <<client, project, money, crossing>>
    BY DEF Admit, Refused
<1>2. PICK r : r = clerk'[p]
    OBVIOUS
<1>3. /\ clerk' = [clerk EXCEPT ![p] = r] /\ r \in ClerkRows /\ held' \in BOOLEAN
      /\ r.op \in {"none", "insert"} /\ r.project \in Projects \cup {NoProject}
      /\ r.op = "insert" => Admit(p) /\ r.project = clerk[p].project /\ clerk[p].op = "create"
      /\ ~Admit(p) => r.op = "none" /\ held' = (held /\ clerk[p].op # "insert")
    <2>1. clerk \in [Clerks -> ClerkRows] /\ clerk[p] \in ClerkRows /\ held \in BOOLEAN
        BY ProjectsHaveTypes
    <2>2. CASE Admit(p)
        <3>1. /\ r = [clerk[p] EXCEPT !.op = "insert"] /\ clerk' = [clerk EXCEPT ![p] = r]
              /\ held' = TRUE /\ clerk[p].op = "create"
            BY <1>2, <2>1, <2>2 DEF Admit
        <3> QED BY <2>1, <2>2, <3>1 DEF ClerkRows
    <2>3. CASE ~Admit(p)
        <3>1. /\ r = Break /\ clerk' = [clerk EXCEPT ![p] = r]
              /\ held' = (held /\ clerk[p].op # "insert")
            BY <1>2, <2>1, <2>3 DEF Refused
        <3>2. held' \in BOOLEAN
            BY <2>1, <3>1
        <3> QED BY <2>3, <3>1, <3>2, BreakIsOK
    <2> QED BY <2>2, <2>3
<1>4. /\ clerk' \in [Clerks -> ClerkRows]
      /\ \A q \in Clerks \ {p} : clerk'[q] = clerk[q]
    BY <1>3, ProjectsHaveTypes
<1>5. Used' = Used /\ \A j : Live(j)' = Live(j)
    BY <1>1 DEF Used, Live
<1>6. ProjectsTypeOK'
    BY <1>1, <1>3, <1>4, ProjectsHaveTypes DEF ProjectsTypeOK, ClerkRows
<1>7. ASSUME NEW q \in Clerks PROVE RequestIsAsRead(q)'
    <2>1. CASE q # p
        <3>1. RequestIsAsRead(q) /\ clerk'[q] = clerk[q]
            BY <1>4, <2>1 DEF ProjectsInv
        <3> QED BY <1>1, <1>5, <3>1 DEF RequestIsAsRead
    <2>2. CASE q = p
        <3>1. clerk[p].op = "create" => clerk[p].project \in Projects
            BY DEF ProjectsInv, RequestIsAsRead
        <3> QED BY <1>2, <1>3, <2>2, <3>1 DEF RequestIsAsRead
    <2> QED BY <2>1, <2>2
<1>8. ASSUME NEW q \in Clerks PROVE InsertsAlone(q)'
    <2> SUFFICES ASSUME clerk'[q].op = "insert"
                 PROVE  /\ held' /\ Cardinality(Used) < MaxProjects
                        /\ \A x \in Clerks : clerk'[x].op = "insert" => x = q
        BY <1>5 DEF InsertsAlone
    <2>1. \A x \in Clerks : clerk[x].op = "insert" =>
              /\ held /\ Cardinality(Used) < MaxProjects
              /\ \A y \in Clerks : clerk[y].op = "insert" => y = x
        BY DEF ProjectsInv, InsertsAlone
    <2>2. CASE Admit(p)
        <3>1. ~held /\ held' /\ Cardinality(Used) < MaxProjects
            BY <2>2 DEF Admit, Room
        <3>2. \A x \in Clerks : clerk'[x].op = "insert" => x = p
            BY <1>4, <2>1, <3>1
        <3> QED BY <3>1, <3>2
    <2>3. CASE ~Admit(p)
        <3>1. q # p /\ clerk[q].op = "insert" /\ held' = (held /\ clerk[p].op # "insert")
            BY <1>2, <1>3, <1>4, <2>3
        <3>2. clerk[p].op # "insert" /\ held /\ Cardinality(Used) < MaxProjects
            BY <2>1, <3>1
        <3>3. \A x \in Clerks : clerk'[x].op = "insert" => x # p /\ clerk[x].op = "insert"
            BY <1>2, <1>3, <1>4, <2>3
        <3> QED BY <2>1, <3>1, <3>2, <3>3
    <2> QED BY <2>2, <2>3
<1> QED BY <1>1, <1>5, <1>6, <1>7, <1>8
        DEF ProjectsInv, ProjectsNeverOversold, DeletedIsClearUnlessRaced

\* The project inserted under the lock takes the room that was counted.
LEMMA InsertProjectKeeps ==
    ASSUME ProjectsInv, NEW p \in Clerks, InsertProject(p)
    PROVE  ProjectsInv'
<1>1. PICK j : j = clerk[p].project
    OBVIOUS
<1>2. /\ clerk[p].op = "insert" /\ project' = [project EXCEPT ![j].at = "here"]
      /\ held' = FALSE /\ Attended(p) /\ client' = client /\ money' = money
    BY <1>1 DEF InsertProject
<1>3. j \in Projects /\ project[j] \in ProjectRows /\ project \in [Projects -> ProjectRows]
    BY <1>1, <1>2, ProjectsHaveTypes DEF ProjectsInv, RequestIsAsRead
<1>4. /\ project' \in [Projects -> ProjectRows]
      /\ \A x \in Projects : /\ project'[x].at = IF x = j THEN "here" ELSE project[x].at
                             /\ project'[x].baseline = project[x].baseline
    <2>1. PICK row : row = [project[j] EXCEPT !.at = "here"]
        OBVIOUS
    <2>2. row \in ProjectRows /\ row.at = "here" /\ row.baseline = project[j].baseline
        BY <1>3, <2>1 DEF ProjectRows
    <2>3. project' = [project EXCEPT ![j] = row]
        BY <1>2, <1>3, <2>1
    <2> QED BY <1>3, <2>2, <2>3
<1>5. /\ clerk' \in [Clerks -> ClerkRows] /\ clerk'[p] = Break
      /\ \A q \in Clerks \ {p} :
            /\ clerk'[q].op = clerk[q].op /\ clerk'[q].client = clerk[q].client
            /\ clerk'[q].project = clerk[q].project
            /\ ~clerk'[q].stale => ~clerk[q].stale
      /\ crossing' \subseteq Clients \cup Projects /\ crossing \subseteq crossing'
    BY <1>2, AttendedOvertakes
<1>6. ProjectsTypeOK'
    BY <1>2, <1>4, <1>5, ProjectsHaveTypes DEF ProjectsTypeOK, ClerkRows
<1>7. Used' = Used \cup {j}
    BY <1>3, <1>4 DEF Used, Live
<1>8. IsFiniteSet(Used') /\ Cardinality(Used') <= MaxProjects
    <2>1. IsFiniteSet(Used) /\ Cardinality(Used) < MaxProjects
        BY <1>2 DEF ProjectsInv, InsertsAlone
    <2>2. /\ IsFiniteSet(Used \cup {j}) /\ Cardinality(Used) \in Nat
          /\ \/ Cardinality(Used \cup {j}) = Cardinality(Used)
             \/ Cardinality(Used \cup {j}) = Cardinality(Used) + 1
        BY <2>1, FS_AddElement, FS_CardinalityType
    <2> QED BY <1>7, <2>1, <2>2, ProjectsAssumption
<1>9. ASSUME NEW q \in Clerks PROVE RequestIsAsRead(q)'
    <2>1. CASE q # p
        <3>1. RequestIsAsRead(q) /\ clerk[q] \in ClerkRows
            BY ProjectsHaveTypes DEF ProjectsInv
        <3>2. clerk[q].project \in Projects \cup {NoProject}
            BY <3>1 DEF ClerkRows
        <3>3. \A x \in Projects : Live(x) => Live(x)'
            BY <1>4 DEF Live
        <3>4. clerk[q].op = "baseline" =>
                  project'[clerk[q].project].baseline = project[clerk[q].project].baseline
            BY <1>4, <3>1 DEF RequestIsAsRead
        <3> QED BY <1>2, <1>5, <2>1, <3>1, <3>2, <3>3, <3>4 DEF RequestIsAsRead
    <2>2. CASE q = p
        BY <1>5, <2>2, BreakIsOK DEF RequestIsAsRead
    <2> QED BY <2>1, <2>2
<1>10. ASSUME NEW q \in Clerks PROVE InsertsAlone(q)'
    <2>1. clerk'[q].op # "insert"
        BY <1>2, <1>5, BreakIsOK DEF ProjectsInv, InsertsAlone
    <2> QED BY <2>1 DEF InsertsAlone
<1>11. DeletedIsClearUnlessRaced'
    <2>1. \A x \in money : x.project \in Projects \cup {NoProject}
        BY ProjectsHaveTypes DEF Money
    <2> QED BY <1>2, <1>4, <1>5, <2>1 DEF ProjectsInv, DeletedIsClearUnlessRaced
<1> QED BY <1>6, <1>8, <1>9, <1>10, <1>11 DEF ProjectsInv, ProjectsNeverOversold

\* What a write leaves, and whom it overtakes.
LEMMA WriteKeeps ==
    ASSUME ProjectsInv, NEW p \in Clerks, Write(p)
    PROVE  ProjectsInv'
<1>1. PICK r : r = clerk[p]
    OBVIOUS
<1>2. /\ r.op \in {"drop client", "drop project", "baseline", "baseline again", "money"}
      /\ client' = IF r.op = "drop client" THEN [client EXCEPT ![r.client] = "deleted"]
                   ELSE client
      /\ project' =
            CASE r.op = "drop project" -> [project EXCEPT ![r.project].at = "deleted"]
              [] r.op \in {"baseline", "baseline again"} ->
                                          [project EXCEPT ![r.project].baseline = r.baseline]
              [] OTHER                 -> project
      /\ money' = IF r.op = "money"
                  THEN money \cup {[client |-> r.client, project |-> r.project]} ELSE money
      /\ Attended(p) /\ held' = held
    BY <1>1 DEF Write
<1>3. /\ client \in [Clients -> {"none", "here", "deleted"}]
      /\ project \in [Projects -> ProjectRows] /\ money \subseteq Money
      /\ held \in BOOLEAN /\ r \in ClerkRows
    BY <1>1, ProjectsHaveTypes
<1>4. /\ r.op \in {"baseline", "baseline again", "drop project"} => r.project \in Projects
      /\ r.op = "drop client" => r.client \in Clients
      /\ ~r.stale =>
            /\ r.op = "drop client" => \A x \in money : x.client # r.client
            /\ r.op = "drop project" => \A x \in money : x.project # r.project
            /\ r.op = "money" => /\ r.client # NoClient => client[r.client] = "here"
                                 /\ r.project # NoProject => Live(r.project)
    BY <1>1 DEF ProjectsInv, RequestIsAsRead
<1>5. /\ clerk' \in [Clerks -> ClerkRows] /\ clerk'[p] = Break
      /\ \A q \in Clerks \ {p} :
            /\ clerk'[q].op = clerk[q].op /\ clerk'[q].client = clerk[q].client
            /\ clerk'[q].project = clerk[q].project
            /\ ~clerk'[q].stale => ~clerk[q].stale /\ About(clerk[q]) \cap About(r) = {}
      /\ About(r) \subseteq Clients \cup Projects
      /\ crossing' = IF r.stale THEN crossing \cup About(r) ELSE crossing
      /\ crossing' \subseteq Clients \cup Projects /\ crossing \subseteq crossing'
    BY <1>1, <1>2, AttendedOvertakes
<1>6. /\ \A c \in Clients : c \in {r.client} => c \in About(r)
      /\ \A j \in Projects : j \in {r.project} => j \in About(r)
      /\ \A q \in Clerks : /\ clerk[q].client \in Clients => clerk[q].client \in About(clerk[q])
                           /\ clerk[q].project \in Projects => clerk[q].project \in About(clerk[q])
    BY ProjectsAssumption DEF About
<1>7. /\ client' \in [Clients -> {"none", "here", "deleted"}]
      /\ \A c \in Clients : client'[c] = IF r.op = "drop client" /\ c = r.client
                                         THEN "deleted" ELSE client[c]
    BY <1>2, <1>3, <1>4
<1>8. /\ project' \in [Projects -> ProjectRows]
      /\ \A j \in Projects :
            /\ project'[j].at = IF r.op = "drop project" /\ j = r.project
                                THEN "deleted" ELSE project[j].at
            /\ project'[j].baseline = IF r.op \in {"baseline", "baseline again"} /\ j = r.project
                                      THEN r.baseline ELSE project[j].baseline
    <2>1. CASE r.op = "drop project"
        <3>1. PICK row : row = [project[r.project] EXCEPT !.at = "deleted"]
            OBVIOUS
        <3>2. project[r.project] \in ProjectRows
            BY <1>3, <1>4, <2>1
        <3>3. /\ row \in ProjectRows /\ row.at = "deleted"
              /\ row.baseline = project[r.project].baseline
            BY <3>1, <3>2 DEF ProjectRows
        <3>4. project' = [project EXCEPT ![r.project] = row]
            BY <1>2, <1>3, <1>4, <2>1, <3>1
        <3> QED BY <1>3, <1>4, <2>1, <3>3, <3>4
    <2>2. CASE r.op \in {"baseline", "baseline again"}
        <3>1. PICK row : row = [project[r.project] EXCEPT !.baseline = r.baseline]
            OBVIOUS
        <3>2. project[r.project] \in ProjectRows /\ r.baseline \in Baselines
            BY <1>3, <1>4, <2>2 DEF ClerkRows
        <3>3. /\ row \in ProjectRows /\ row.baseline = r.baseline
              /\ row.at = project[r.project].at
            BY <3>1, <3>2 DEF ProjectRows
        <3>4. project' = [project EXCEPT ![r.project] = row]
            BY <1>2, <1>3, <1>4, <2>2, <3>1
        <3> QED BY <1>3, <1>4, <2>2, <3>3, <3>4
    <2>3. CASE r.op \in {"drop client", "money"}
        BY <1>2, <1>3, <2>3
    <2> QED BY <1>2, <2>1, <2>2, <2>3
<1>9. /\ money' \subseteq Money
      /\ \A x \in money' : x \notin money =>
            r.op = "money" /\ x.client = r.client /\ x.project = r.project
    <2>1. r.client \in Clients \cup {NoClient} /\ r.project \in Projects \cup {NoProject}
        BY <1>3 DEF ClerkRows
    <2>2. PICK bill : bill = [client |-> r.client, project |-> r.project]
        OBVIOUS
    <2>3. bill \in Money /\ bill.client = r.client /\ bill.project = r.project
        BY <2>1, <2>2 DEF Money
    <2>4. money' = IF r.op = "money" THEN money \cup {bill} ELSE money
        BY <1>2, <2>2
    <2>5. CASE r.op = "money"
        <3>1. money' = money \cup {bill}
            BY <2>4, <2>5
        <3>2. \A x \in money' : x \in money \/ x = bill
            BY <3>1
        <3> QED BY <1>3, <2>3, <2>5, <3>1, <3>2
    <2>6. CASE r.op # "money"
        <3>1. money' = money
            BY <2>4, <2>6
        <3> QED BY <1>3, <3>1
    <2> QED BY <2>5, <2>6
<1>10. ProjectsTypeOK'
    BY <1>2, <1>3, <1>5, <1>7, <1>8, <1>9 DEF ProjectsTypeOK, ClerkRows
<1>11. IsFiniteSet(Used') /\ Cardinality(Used') <= Cardinality(Used) /\ Cardinality(Used) \in Nat
       /\ Cardinality(Used') \in Nat
    <2>1. Used' \subseteq Used
        BY <1>8 DEF Used, Live
    <2> QED BY <2>1, FS_Subset, FS_CardinalityType DEF ProjectsInv
<1>12. ASSUME NEW q \in Clerks PROVE RequestIsAsRead(q)'
    <2>1. CASE q = p
        BY <1>5, <2>1, BreakIsOK DEF RequestIsAsRead
    <2>2. CASE q # p
        <3>1. RequestIsAsRead(q) /\ clerk[q] \in ClerkRows
            BY ProjectsHaveTypes DEF ProjectsInv
        <3>2. /\ clerk[q].client \in Clients \cup {NoClient}
              /\ clerk[q].project \in Projects \cup {NoProject}
            BY <3>1 DEF ClerkRows
        <3>3. ASSUME ~clerk'[q].stale
              PROVE  /\ ~clerk[q].stale
                     /\ clerk[q].client \in Clients => clerk[q].client # r.client
                     /\ clerk[q].project \in Projects => clerk[q].project # r.project
            BY <1>5, <1>6, <2>2, <3>3
        <3>4. ASSUME ~clerk'[q].stale, clerk[q].op = "drop client", NEW x \in money'
              PROVE  x.client # clerk[q].client
            <4>1. clerk[q].client # r.client /\ x \in money => x.client # clerk[q].client
                BY <3>1, <3>3, <3>4 DEF RequestIsAsRead
            <4>2. clerk[q].client # r.client
                BY <3>1, <3>3, <3>4 DEF RequestIsAsRead
            <4>3. x \in money \/ x.client = r.client
                BY <1>9, <3>4
            <4> QED BY <4>1, <4>2, <4>3
        <3>5. ASSUME ~clerk'[q].stale, clerk[q].op = "drop project", NEW x \in money'
              PROVE  x.project # clerk[q].project
            <4>1. clerk[q].project # r.project /\ x \in money => x.project # clerk[q].project
                BY <3>1, <3>3, <3>5 DEF RequestIsAsRead
            <4>2. clerk[q].project # r.project
                BY <3>1, <3>3, <3>5 DEF RequestIsAsRead
            <4>3. x \in money \/ x.project = r.project
                BY <1>9, <3>5
            <4> QED BY <4>1, <4>2, <4>3
        <3>6. ASSUME ~clerk'[q].stale, clerk[q].op = "baseline"
              PROVE  project'[clerk[q].project].baseline = NoPlanYet
            BY <1>8, <3>1, <3>3, <3>6 DEF RequestIsAsRead
        <3>7. ASSUME ~clerk'[q].stale, clerk[q].op = "money"
              PROVE  /\ clerk[q].client # NoClient => client'[clerk[q].client] = "here"
                     /\ clerk[q].project # NoProject => project'[clerk[q].project].at = "here"
            <4>1. /\ clerk[q].client # NoClient => client[clerk[q].client] = "here"
                  /\ clerk[q].project # NoProject => project[clerk[q].project].at = "here"
                BY <3>1, <3>3, <3>7 DEF RequestIsAsRead, Live
            <4>2. ASSUME clerk[q].client # NoClient
                  PROVE  client'[clerk[q].client] = "here"
                <5>1. clerk[q].client \in Clients /\ clerk[q].client # r.client
                    BY <3>2, <3>3, <3>7, <4>2
                <5> QED BY <1>7, <4>1, <4>2, <5>1
            <4>3. ASSUME clerk[q].project # NoProject
                  PROVE  project'[clerk[q].project].at = "here"
                <5>1. clerk[q].project \in Projects /\ clerk[q].project # r.project
                    BY <3>2, <3>3, <3>7, <4>3
                <5> QED BY <1>8, <4>1, <4>3, <5>1
            <4> QED BY <4>2, <4>3
        <3>8. /\ clerk'[q].op = clerk[q].op /\ clerk'[q].client = clerk[q].client
              /\ clerk'[q].project = clerk[q].project
            BY <1>5, <2>2
        <3> QED BY <3>1, <3>4, <3>5, <3>6, <3>7, <3>8 DEF RequestIsAsRead, Live
    <2> QED BY <2>1, <2>2
<1>13. ASSUME NEW q \in Clerks PROVE InsertsAlone(q)'
    <2>1. \A x \in Clerks : clerk'[x].op = "insert" => clerk[x].op = "insert"
        BY <1>5, BreakIsOK
    <2>2. Cardinality(Used) < MaxProjects => Cardinality(Used') < MaxProjects
        BY <1>11, ProjectsAssumption
    <2> QED BY <1>2, <2>1, <2>2 DEF ProjectsInv, InsertsAlone
<1>14. ProjectsNeverOversold'
    BY <1>11, ProjectsAssumption DEF ProjectsInv, ProjectsNeverOversold
<1>15. ASSUME NEW x \in money'
       PROVE  /\ x.project # NoProject /\ x.project \notin crossing' =>
                    project'[x.project].at # "deleted"
              /\ x.client # NoClient /\ x.client \notin crossing' => client'[x.client] # "deleted"
    <2>0. x.client \in Clients \cup {NoClient} /\ x.project \in Projects \cup {NoProject}
        BY <1>9, <1>15 DEF Money
    <2>1. CASE x \in money
        <3>1. /\ x.project # NoProject /\ x.project \notin crossing =>
                    project[x.project].at # "deleted"
              /\ x.client # NoClient /\ x.client \notin crossing => client[x.client] # "deleted"
            BY <2>1 DEF ProjectsInv, DeletedIsClearUnlessRaced
        <3>2. ASSUME x.project # NoProject, x.project \notin crossing'
              PROVE  ~(r.op = "drop project" /\ x.project = r.project)
            BY <1>4, <1>5, <1>6, <2>0, <2>1, <3>2
        <3>3. ASSUME x.client # NoClient, x.client \notin crossing'
              PROVE  ~(r.op = "drop client" /\ x.client = r.client)
            BY <1>4, <1>5, <1>6, <2>0, <2>1, <3>3
        <3>4. ASSUME x.project # NoProject, x.project \notin crossing'
              PROVE  project'[x.project].at # "deleted"
            <4>1. x.project \in Projects /\ x.project \notin crossing
                BY <1>5, <2>0, <3>4
            <4> QED BY <1>8, <3>1, <3>2, <3>4, <4>1
        <3>5. ASSUME x.client # NoClient, x.client \notin crossing'
              PROVE  client'[x.client] # "deleted"
            <4>1. x.client \in Clients /\ x.client \notin crossing
                BY <1>5, <2>0, <3>5
            <4> QED BY <1>7, <3>1, <3>3, <3>5, <4>1
        <3> QED BY <3>4, <3>5
    <2>2. CASE x \notin money
        <3>1. r.op = "money" /\ x.client = r.client /\ x.project = r.project
            BY <1>9, <1>15, <2>2
        <3>2. ASSUME x.project # NoProject, x.project \notin crossing'
              PROVE  ~r.stale /\ project'[x.project].at # "deleted"
            <4>1. ~r.stale
                BY <1>5, <1>6, <2>0, <3>1, <3>2
            <4> QED BY <1>4, <1>8, <2>0, <3>1, <3>2, <4>1 DEF Live
        <3>3. ASSUME x.client # NoClient, x.client \notin crossing'
              PROVE  ~r.stale /\ client'[x.client] # "deleted"
            <4>1. ~r.stale
                BY <1>5, <1>6, <2>0, <3>1, <3>3
            <4> QED BY <1>4, <1>7, <2>0, <3>1, <3>3, <4>1
        <3> QED BY <3>2, <3>3
    <2> QED BY <2>1, <2>2
<1>16. DeletedIsClearUnlessRaced'
    BY <1>15 DEF DeletedIsClearUnlessRaced
<1> QED BY <1>10, <1>11, <1>12, <1>13, <1>14, <1>16 DEF ProjectsInv

\* Every step of the projects.
LEMMA ProjectsStep ==
    ASSUME ProjectsInv, [ProjectsNext]_projectsVars
    PROVE  ProjectsInv'
<1>1. CASE UNCHANGED projectsVars
    <2>1. UNCHANGED <<client, project, money, clerk, held, crossing>>
        BY <1>1 DEF projectsVars
    <2>2. Used' = Used /\ \A j : Live(j)' = Live(j)
        BY <2>1 DEF Used, Live
    <2>3. /\ ProjectsTypeOK' <=> ProjectsTypeOK
          /\ ProjectsNeverOversold' <=> ProjectsNeverOversold
          /\ DeletedIsClearUnlessRaced' <=> DeletedIsClearUnlessRaced
        BY <2>1, <2>2 DEF ProjectsTypeOK, ProjectsNeverOversold, DeletedIsClearUnlessRaced
    <2>4. ASSUME NEW p \in Clerks
          PROVE  /\ RequestIsAsRead(p)' <=> RequestIsAsRead(p)
                 /\ InsertsAlone(p)' <=> InsertsAlone(p)
        BY <2>1, <2>2 DEF RequestIsAsRead, InsertsAlone
    <2> QED BY <2>2, <2>3, <2>4 DEF ProjectsInv
<1>2. CASE ProjectsNext
    <2>1. CASE \E p \in Clerks, c \in Clients : DeleteClient(p, c)
        BY <2>1, DeleteClientBegins
    <2>2. CASE \E p \in Clerks, c \in Clients, j \in Projects : CreateProject(p, c, j)
        BY <2>2, ProjectRequestsBegin
    <2>3. CASE \E p \in Clerks, j \in Projects : SetBaseline(p, j) \/ DeleteProject(p, j)
        BY <2>3, ProjectRequestsBegin
    <2>4. CASE \E p \in Clerks, c \in Clients \cup {NoClient}, j \in Projects \cup {NoProject} :
                  RecordMoney(p, c, j)
        BY <2>4, RecordMoneyBegins
    <2>5. CASE \E p \in Clerks : Admit(p) \/ InsertProject(p) \/ Write(p) \/ Refused(p)
        BY <2>5, AdmitOrRefuseKeeps, InsertProjectKeeps, WriteKeeps
    <2> QED BY <1>2, <2>1, <2>2, <2>3, <2>4, <2>5, ClientsComeAndMoneyGoes DEF ProjectsNext
<1> QED BY <1>1, <1>2

\* Only a request that asked replaces a baseline, or one that was overtaken.
LEMMA BaselinesChangeOnDemand ==
    ASSUME ProjectsInv, [ProjectsNext]_projectsVars, NEW j \in Projects,
           project[j].baseline \notin {NoPlanYet, project'[j].baseline}
    PROVE  \E p \in Clerks : clerk[p].op = "baseline again" \/ clerk[p].stale
<1>1. project'[j].baseline # project[j].baseline /\ project[j].baseline # NoPlanYet
    OBVIOUS
<1>2. project \in [Projects -> ProjectRows] /\ project[j] \in ProjectRows
    BY ProjectsHaveTypes
<1>3. project' # project
    BY <1>1
<1>4. PICK p \in Clerks : InsertProject(p) \/ Write(p)
    BY <1>3 DEF ProjectsNext, projectsVars, CreateClient, DeleteClient, CreateProject, SetBaseline,
                DeleteProject, RecordMoney, RemoveMoney, Attend, Admit, Refused
<1>5. PICK r : r = clerk[p]
    OBVIOUS
<1>6. RequestIsAsRead(p)
    BY DEF ProjectsInv
<1>7. CASE InsertProject(p)
    <2>1. project' = [project EXCEPT ![r.project].at = "here"]
        BY <1>5, <1>7 DEF InsertProject
    <2>2. project'[j].baseline = project[j].baseline
        BY <1>2, <2>1 DEF ProjectRows
    <2> QED BY <1>1, <2>2
<1>8. CASE Write(p)
    <2>1. /\ r.op \in {"drop client", "drop project", "baseline", "baseline again", "money"}
          /\ project' =
                CASE r.op = "drop project" -> [project EXCEPT ![r.project].at = "deleted"]
                  [] r.op \in {"baseline", "baseline again"} ->
                                              [project EXCEPT ![r.project].baseline = r.baseline]
                  [] OTHER                 -> project
        BY <1>5, <1>8 DEF Write
    <2>2. CASE r.op = "drop project"
        <3>1. project' = [project EXCEPT ![r.project].at = "deleted"]
            BY <2>1, <2>2
        <3>2. project'[j].baseline = project[j].baseline
            BY <1>2, <3>1 DEF ProjectRows
        <3> QED BY <1>1, <3>2
    <2>3. CASE r.op = "baseline"
        <3>1. project' = [project EXCEPT ![r.project].baseline = r.baseline]
            BY <2>1, <2>3
        <3>2. j = r.project
            BY <1>1, <1>2, <3>1
        <3>3. r.stale
            BY <1>1, <1>5, <1>6, <2>3, <3>2 DEF RequestIsAsRead
        <3> QED BY <1>5, <3>3
    <2>4. CASE r.op = "baseline again"
        BY <1>5, <2>4
    <2>5. CASE r.op \in {"drop client", "money"}
        BY <1>1, <2>1, <2>5
    <2> QED BY <2>1, <2>2, <2>3, <2>4, <2>5
<1> QED BY <1>4, <1>7, <1>8

-----------------------------------------------------------------------------
(* The milestones.                                                         *)

\* What a request is about to write, and what of its milestone it decided that on, which
\* is still so unless it was overtaken.
MilestoneIsAsRead(p) ==
    LET r   == manager[p]
        row == milestone[r.of] IN
    r # Unoccupied =>
        /\ r.of \in Milestones /\ row.due # NoDay
        /\ \/ r.sets \in [due : Calendar] /\ (~r.stale => row.submitted = NoDay)
           \/ r.sets \in [submitted : Calendar] /\ (~r.stale => row.submitted = NoDay)
           \/ /\ r.sets \in [accepted : Calendar]
              /\ ~r.stale => row.submitted # NoDay /\ r.sets.accepted >= row.submitted
           \/ r.sets = [submitted |-> NoDay, accepted |-> NoDay]
           \/ r.sets = [deleted |-> TRUE]

\* What a request on a milestone may be, as MilestoneTypeOK has it.
ManagerRows == [of : Milestones \cup {NoMilestone}, sets : Writes, stale : BOOLEAN]

\* What DeliveryStaysDatedUnlessRaced says of one milestone.
StaysDated(m) ==
    /\ milestone[m].accepted # NoDay =>
          Submitted(m) /\ milestone[m].accepted >= milestone[m].submitted
    /\ Submitted(m) => milestone[m].due = promised[m]

MilestoneInv ==
    /\ MilestoneTypeOK
    /\ \A p \in Managers : MilestoneIsAsRead(p)
    /\ \A m \in Milestones \ overtaken : StaysDated(m)

\* A manager without a request.
LEMMA UnoccupiedIsOK ==
    /\ Unoccupied \in ManagerRows /\ Unoccupied.of = NoMilestone /\ Unoccupied.stale = FALSE
    /\ NoMilestone \notin Milestones /\ NoDay \notin Calendar /\ Calendar \subseteq Nat
    BY MilestoneAssumption DEF Unoccupied, ManagerRows, Writes, NoFields, Calendar

\* The types, one by one.
LEMMA MilestonesHaveTypes ==
    ASSUME MilestoneInv
    PROVE  /\ milestone \in [Milestones -> MilestoneRows] /\ manager \in [Managers -> ManagerRows]
           /\ promised \in [Milestones -> MaybeDay] /\ overtaken \subseteq Milestones
    BY DEF MilestoneInv, MilestoneTypeOK, ManagerRows

\* At first nothing is promised.
LEMMA MilestonesBegin == MilestoneInit => MilestoneInv
<1> SUFFICES ASSUME MilestoneInit PROVE MilestoneInv
    OBVIOUS
<1>1. /\ milestone = [m \in Milestones |-> NotPromised]
      /\ manager = [p \in Managers |-> Unoccupied]
      /\ promised = [m \in Milestones |-> NoDay] /\ overtaken = {}
    BY DEF MilestoneInit
<1>2. /\ NotPromised \in MilestoneRows /\ NotPromised.accepted = NoDay
      /\ NotPromised.submitted = NoDay
    BY DEF NotPromised, MilestoneRows, MaybeDay
<1>3. MilestoneTypeOK
    BY <1>1, <1>2, UnoccupiedIsOK DEF MilestoneTypeOK, ManagerRows, MaybeDay
<1>4. \A p \in Managers : MilestoneIsAsRead(p)
    BY <1>1 DEF MilestoneIsAsRead
<1>5. \A m \in Milestones : StaysDated(m)
    BY <1>1, <1>2 DEF StaysDated, Submitted
<1> QED BY <1>3, <1>4, <1>5 DEF MilestoneInv

\* A new milestone is neither submitted nor accepted.
LEMMA CreateMilestoneKeeps ==
    ASSUME MilestoneInv, NEW m \in Milestones, CreateMilestone(m)
    PROVE  MilestoneInv'
<1>1. PICK due \in Calendar : milestone' = [milestone EXCEPT ![m].due = due]
    BY DEF CreateMilestone
<1>2. milestone[m] = NotPromised /\ UNCHANGED <<manager, promised, overtaken>>
    BY DEF CreateMilestone
<1>3. PICK row : row = [NotPromised EXCEPT !.due = due]
    OBVIOUS
<1>4. /\ row \in MilestoneRows /\ row.accepted = NoDay /\ row.submitted = NoDay
      /\ milestone[m].due = NoDay
    <2>1. row = [due |-> due, submitted |-> NoDay, accepted |-> NoDay, deleted |-> FALSE]
        BY <1>3 DEF NotPromised
    <2>2. due \in MaybeDay /\ NoDay \in MaybeDay
        BY DEF MaybeDay
    <2>3. row \in MilestoneRows
        BY <2>1, <2>2 DEF MilestoneRows
    <2> QED BY <1>2, <2>1, <2>3 DEF NotPromised
<1>5. /\ milestone' \in [Milestones -> MilestoneRows] /\ milestone'[m] = row
      /\ \A x \in Milestones \ {m} : milestone'[x] = milestone[x]
    <2>1. milestone' = [milestone EXCEPT ![m] = row]
        BY <1>1, <1>2, <1>3, MilestonesHaveTypes
    <2> QED BY <1>4, <2>1, MilestonesHaveTypes
<1>6. MilestoneTypeOK'
    BY <1>2, <1>5, MilestonesHaveTypes DEF MilestoneTypeOK, ManagerRows
<1>7. ASSUME NEW p \in Managers PROVE MilestoneIsAsRead(p)'
    <2>1. MilestoneIsAsRead(p)
        BY DEF MilestoneInv
    <2>2. manager[p] # Unoccupied => milestone'[manager[p].of] = milestone[manager[p].of]
        BY <1>4, <1>5, <2>1 DEF MilestoneIsAsRead
    <2> QED BY <1>2, <2>1, <2>2 DEF MilestoneIsAsRead
<1>8. ASSUME NEW x \in Milestones \ overtaken' PROVE StaysDated(x)'
    BY <1>2, <1>4, <1>5 DEF MilestoneInv, StaysDated, Submitted
<1> QED BY <1>6, <1>7, <1>8 DEF MilestoneInv

\* A request that begins has read its milestone as it is.
LEMMA ResolveKeeps ==
    ASSUME MilestoneInv, NEW p \in Managers, NEW m \in Milestones, NEW sets \in Writes,
           Resolve(p, m, sets),
           \/ sets \in [due : Calendar] /\ milestone[m].submitted = NoDay
           \/ sets \in [submitted : Calendar] /\ milestone[m].submitted = NoDay
           \/ /\ sets \in [accepted : Calendar] /\ milestone[m].submitted # NoDay
              /\ sets.accepted >= milestone[m].submitted
           \/ sets = [submitted |-> NoDay, accepted |-> NoDay]
           \/ sets = [deleted |-> TRUE]
    PROVE  MilestoneInv'
<1>1. PICK r : r = [of |-> m, sets |-> sets, stale |-> FALSE]
    OBVIOUS
<1>2. /\ manager' = [manager EXCEPT ![p] = r] /\ milestone[m].due # NoDay
      /\ UNCHANGED <<milestone, promised, overtaken>>
    BY <1>1 DEF Resolve, Owned
<1>3. r \in ManagerRows /\ r.of = m /\ r.sets = sets /\ r.stale = FALSE
    BY <1>1 DEF ManagerRows
<1>4. /\ manager' \in [Managers -> ManagerRows] /\ manager'[p] = r
      /\ \A q \in Managers \ {p} : manager'[q] = manager[q]
    BY <1>2, <1>3, MilestonesHaveTypes
<1>5. MilestoneTypeOK'
    BY <1>2, <1>4, MilestonesHaveTypes DEF MilestoneTypeOK, ManagerRows
<1>6. ASSUME NEW q \in Managers PROVE MilestoneIsAsRead(q)'
    <2>1. CASE q # p
        BY <1>2, <1>4, <2>1 DEF MilestoneInv, MilestoneIsAsRead
    <2>2. CASE q = p
        BY <1>2, <1>3, <1>4, <2>2 DEF MilestoneIsAsRead
    <2> QED BY <2>1, <2>2
<1>7. ASSUME NEW x \in Milestones \ overtaken' PROVE StaysDated(x)'
    BY <1>2 DEF MilestoneInv, StaysDated, Submitted
<1> QED BY <1>5, <1>6, <1>7 DEF MilestoneInv

\* What update, submit, accept, reopen and delete decide on.
LEMMA MilestoneRequestsBegin ==
    ASSUME MilestoneInv, NEW p \in Managers, NEW m \in Milestones,
           \/ UpdateMilestone(p, m) \/ SubmitMilestone(p, m) \/ AcceptMilestone(p, m)
           \/ ReopenMilestone(p, m) \/ DeleteMilestone(p, m)
    PROVE  MilestoneInv'
<1>1. milestone[m] \in MilestoneRows
    BY MilestonesHaveTypes
<1>2. CASE UpdateMilestone(p, m)
    <2>1. PICK due \in Calendar : Resolve(p, m, [due |-> due])
        BY <1>2 DEF UpdateMilestone
    <2>2. PICK sets : sets = [due |-> due]
        OBVIOUS
    <2>3. sets \in [due : Calendar]
        BY <2>2
    <2>4. sets \in Writes /\ Resolve(p, m, sets) /\ milestone[m].submitted = NoDay
        BY <1>2, <2>1, <2>2, <2>3 DEF Writes, UpdateMilestone, Submitted
    <2> QED BY <2>3, <2>4, ResolveKeeps
<1>3. CASE SubmitMilestone(p, m)
    <2>1. PICK day \in 0 .. Today : Resolve(p, m, [submitted |-> day])
        BY <1>3 DEF SubmitMilestone
    <2>2. PICK sets : sets = [submitted |-> day]
        OBVIOUS
    <2>3. day \in Calendar
        BY MilestoneAssumption DEF Calendar
    <2>4. sets \in [submitted : Calendar]
        BY <2>2, <2>3
    <2>5. sets \in Writes /\ Resolve(p, m, sets) /\ milestone[m].submitted = NoDay
        BY <1>3, <2>1, <2>2, <2>4 DEF Writes, SubmitMilestone, Submitted
    <2> QED BY <2>4, <2>5, ResolveKeeps
<1>4. CASE AcceptMilestone(p, m)
    <2>1. PICK day \in milestone[m].submitted .. LastDay : Resolve(p, m, [accepted |-> day])
        BY <1>4 DEF AcceptMilestone
    <2>2. PICK sets : sets = [accepted |-> day]
        OBVIOUS
    <2>3. milestone[m].submitted \in Calendar /\ milestone[m].submitted # NoDay
        BY <1>1, <1>4 DEF AcceptMilestone, Submitted, MilestoneRows, MaybeDay
    <2>4. day \in Calendar /\ day >= milestone[m].submitted
        BY <2>3, MilestoneAssumption DEF Calendar
    <2>5. sets \in [accepted : Calendar] /\ sets.accepted = day
        BY <2>2, <2>4
    <2>6. sets \in Writes /\ Resolve(p, m, sets)
        BY <2>1, <2>2, <2>5 DEF Writes
    <2> QED BY <2>3, <2>4, <2>5, <2>6, ResolveKeeps
<1>5. CASE ReopenMilestone(p, m)
    <2>1. PICK sets : sets = [submitted |-> NoDay, accepted |-> NoDay]
        OBVIOUS
    <2>2. sets \in Writes
        BY <2>1 DEF Writes
    <2>3. Resolve(p, m, sets)
        BY <1>5, <2>1 DEF ReopenMilestone, Reopened
    <2> QED BY <2>1, <2>2, <2>3, ResolveKeeps
<1>6. CASE DeleteMilestone(p, m)
    <2>1. PICK sets : sets = [deleted |-> TRUE]
        OBVIOUS
    <2>2. sets \in Writes
        BY <2>1 DEF Writes
    <2>3. Resolve(p, m, sets)
        BY <1>6, <2>1 DEF DeleteMilestone
    <2> QED BY <2>1, <2>2, <2>3, ResolveKeeps
<1> QED BY <1>2, <1>3, <1>4, <1>5, <1>6

\* The row that a write leaves: the fields it sets, and the others as they were.
LEMMA WrittenMilestone ==
    ASSUME MilestoneInv, NEW p \in Managers, WriteMilestone(p), NEW m, m = manager[p].of
    PROVE  /\ m \in Milestones /\ milestone' \in [Milestones -> MilestoneRows]
           /\ \A x \in Milestones \ {m} : milestone'[x] = milestone[x]
           /\ milestone[m].due # NoDay /\ milestone'[m].due # NoDay
           /\ promised' \in [Milestones -> MaybeDay]
           /\ \A x \in Milestones \ {m} : promised'[x] = promised[x]
           /\ ~manager[p].stale /\ StaysDated(m) => StaysDated(m)'
<1>1. PICK r : r = manager[p]
    OBVIOUS
<1>2. PICK sets : sets = r.sets
    OBVIOUS
<1>3. PICK row : row = [field \in DOMAIN milestone[m] |->
                           IF field \in DOMAIN sets THEN sets[field] ELSE milestone[m][field]]
    OBVIOUS
<1>4. /\ r # Unoccupied /\ milestone' = [milestone EXCEPT ![m] = row]
      /\ promised' = IF "submitted" \in DOMAIN sets
                     THEN [promised EXCEPT ![m] = milestone[m].due] ELSE promised
    BY <1>1, <1>2, <1>3, MilestonesHaveTypes DEF WriteMilestone, MilestoneInv, MilestoneIsAsRead
<1>5. /\ m \in Milestones /\ milestone[m].due # NoDay
      /\ \/ sets \in [due : Calendar] /\ (~r.stale => milestone[m].submitted = NoDay)
         \/ sets \in [submitted : Calendar] /\ (~r.stale => milestone[m].submitted = NoDay)
         \/ /\ sets \in [accepted : Calendar]
            /\ ~r.stale => /\ milestone[m].submitted # NoDay
                           /\ sets.accepted >= milestone[m].submitted
         \/ sets = [submitted |-> NoDay, accepted |-> NoDay]
         \/ sets = [deleted |-> TRUE]
    BY <1>1, <1>2, <1>4 DEF MilestoneInv, MilestoneIsAsRead
<1>6. /\ milestone \in [Milestones -> MilestoneRows] /\ milestone[m] \in MilestoneRows
      /\ promised \in [Milestones -> MaybeDay] /\ NoDay \notin Calendar
      /\ milestone[m].due \in MaybeDay
    BY <1>5, MilestonesHaveTypes, UnoccupiedIsOK DEF MilestoneRows
<1>7. PICK old : old = milestone[m]
    OBVIOUS
<1>8. /\ old \in MilestoneRows
      /\ DOMAIN old = {"due", "submitted", "accepted", "deleted"}
      /\ row = [field \in {"due", "submitted", "accepted", "deleted"} |->
                   IF field \in DOMAIN sets THEN sets[field] ELSE old[field]]
    <2>1. old \in MilestoneRows /\ DOMAIN old = {"due", "submitted", "accepted", "deleted"}
        BY <1>6, <1>7 DEF MilestoneRows
    <2> QED BY <1>3, <1>7, <2>1
<1>9. row = [due       |-> IF "due" \in DOMAIN sets THEN sets.due ELSE old.due,
             submitted |-> IF "submitted" \in DOMAIN sets THEN sets.submitted ELSE old.submitted,
             accepted  |-> IF "accepted" \in DOMAIN sets THEN sets.accepted ELSE old.accepted,
             deleted   |-> IF "deleted" \in DOMAIN sets THEN sets.deleted ELSE old.deleted]
    BY <1>8
<1>10. /\ old.due \in MaybeDay /\ old.submitted \in MaybeDay /\ old.accepted \in MaybeDay
       /\ old.deleted \in BOOLEAN
    BY <1>8 DEF MilestoneRows
<1>11. NoDay \in MaybeDay /\ Calendar \subseteq MaybeDay
    BY DEF MaybeDay
<1>12. StaysDated(m) <=> /\ old.accepted # NoDay =>
                               old.submitted # NoDay /\ old.accepted >= old.submitted
                         /\ old.submitted # NoDay => old.due = promised[m]
    BY <1>7 DEF StaysDated, Submitted
<1>13. /\ row \in MilestoneRows /\ row.due # NoDay /\ promised' \in [Milestones -> MaybeDay]
       /\ \A x \in Milestones \ {m} : promised'[x] = promised[x]
       /\ ~r.stale /\ StaysDated(m) =>
             /\ row.accepted # NoDay => row.submitted # NoDay /\ row.accepted >= row.submitted
             /\ row.submitted # NoDay => row.due = promised'[m]
    <2>1. CASE sets \in [due : Calendar] /\ (~r.stale => milestone[m].submitted = NoDay)
        <3>1. DOMAIN sets = {"due"} /\ sets.due \in Calendar
            BY <2>1
        <3>2. row = [due |-> sets.due, submitted |-> old.submitted, accepted |-> old.accepted,
                     deleted |-> old.deleted]
            BY <1>9, <3>1
        <3>3. row \in MilestoneRows
            BY <1>10, <1>11, <3>1, <3>2 DEF MilestoneRows
        <3>4. promised' = promised
            BY <1>4, <3>1
        <3>5. ~r.stale /\ StaysDated(m) => old.submitted = NoDay /\ old.accepted = NoDay
            BY <1>7, <1>12, <2>1
        <3> QED BY <1>6, <3>1, <3>2, <3>3, <3>4, <3>5
    <2>2. CASE sets \in [submitted : Calendar] /\ (~r.stale => milestone[m].submitted = NoDay)
        <3>1. DOMAIN sets = {"submitted"} /\ sets.submitted \in Calendar
            BY <2>2
        <3>2. row = [due |-> old.due, submitted |-> sets.submitted, accepted |-> old.accepted,
                     deleted |-> old.deleted]
            BY <1>9, <3>1
        <3>3. row \in MilestoneRows
            BY <1>10, <1>11, <3>1, <3>2 DEF MilestoneRows
        <3>4. promised' = [promised EXCEPT ![m] = old.due]
            BY <1>4, <1>7, <3>1
        <3>5. ~r.stale /\ StaysDated(m) => old.accepted = NoDay
            BY <1>7, <1>12, <2>2
        <3> QED BY <1>5, <1>6, <1>7, <1>10, <3>2, <3>3, <3>4, <3>5
    <2>3. CASE /\ sets \in [accepted : Calendar]
               /\ ~r.stale => /\ milestone[m].submitted # NoDay
                              /\ sets.accepted >= milestone[m].submitted
        <3>1. DOMAIN sets = {"accepted"} /\ sets.accepted \in Calendar
            BY <2>3
        <3>2. row = [due |-> old.due, submitted |-> old.submitted, accepted |-> sets.accepted,
                     deleted |-> old.deleted]
            BY <1>9, <3>1
        <3>3. row \in MilestoneRows
            BY <1>10, <1>11, <3>1, <3>2 DEF MilestoneRows
        <3>4. promised' = promised
            BY <1>4, <3>1
        <3> QED BY <1>5, <1>6, <1>7, <1>12, <2>3, <3>2, <3>3, <3>4
    <2>4. CASE sets = [submitted |-> NoDay, accepted |-> NoDay]
        <3>1. DOMAIN sets = {"submitted", "accepted"} /\ sets.submitted = NoDay
              /\ sets.accepted = NoDay
            BY <2>4
        <3>2. row = [due |-> old.due, submitted |-> NoDay, accepted |-> NoDay,
                     deleted |-> old.deleted]
            BY <1>9, <3>1
        <3>3. row \in MilestoneRows
            BY <1>10, <1>11, <3>2 DEF MilestoneRows
        <3>4. promised' = [promised EXCEPT ![m] = old.due]
            BY <1>4, <1>7, <3>1
        <3> QED BY <1>5, <1>6, <1>7, <1>10, <3>2, <3>3, <3>4
    <2>5. CASE sets = [deleted |-> TRUE]
        <3>1. DOMAIN sets = {"deleted"} /\ sets.deleted = TRUE
            BY <2>5
        <3>2. row = [due |-> old.due, submitted |-> old.submitted, accepted |-> old.accepted,
                     deleted |-> TRUE]
            BY <1>9, <3>1
        <3>3. row \in MilestoneRows
            BY <1>10, <1>11, <3>2 DEF MilestoneRows
        <3>4. promised' = promised
            BY <1>4, <3>1
        <3> QED BY <1>5, <1>6, <1>7, <1>12, <3>2, <3>3, <3>4
    <2> QED BY <1>5, <2>1, <2>2, <2>3, <2>4, <2>5
<1>14. /\ milestone' \in [Milestones -> MilestoneRows] /\ milestone'[m] = row
       /\ \A x \in Milestones \ {m} : milestone'[x] = milestone[x]
    BY <1>4, <1>5, <1>6, <1>13
<1>15. ~r.stale /\ StaysDated(m) => StaysDated(m)'
    BY <1>13, <1>14 DEF StaysDated, Submitted
<1> QED BY <1>1, <1>5, <1>13, <1>14, <1>15

\* What a write leaves of its milestone, and whom it overtakes.
LEMMA WriteMilestoneKeeps ==
    ASSUME MilestoneInv, NEW p \in Managers, WriteMilestone(p)
    PROVE  MilestoneInv'
<1>1. PICK m : m = manager[p].of
    OBVIOUS
<1>2. /\ m \in Milestones /\ milestone' \in [Milestones -> MilestoneRows]
      /\ \A x \in Milestones \ {m} : milestone'[x] = milestone[x]
      /\ milestone'[m].due # NoDay
      /\ promised' \in [Milestones -> MaybeDay]
      /\ \A x \in Milestones \ {m} : promised'[x] = promised[x]
      /\ ~manager[p].stale /\ StaysDated(m) => StaysDated(m)'
    BY <1>1, WrittenMilestone
<1>3. /\ overtaken' = IF manager[p].stale THEN overtaken \cup {m} ELSE overtaken
      /\ manager' = [q \in Managers |->
                        IF q = p THEN Unoccupied
                        ELSE [manager[q] EXCEPT !.stale = @ \/ manager[q].of = m]]
    BY <1>1 DEF WriteMilestone
<1>4. manager \in [Managers -> ManagerRows] /\ overtaken \subseteq Milestones
    BY MilestonesHaveTypes
<1>5. ASSUME NEW q \in Managers
      PROVE  /\ manager'[q] \in ManagerRows
             /\ q = p => manager'[q] = Unoccupied
             /\ manager[q] = Unoccupied => manager'[q] = Unoccupied
             /\ q # p => /\ manager'[q].of = manager[q].of /\ manager'[q].sets = manager[q].sets
                         /\ ~manager'[q].stale => ~manager[q].stale /\ manager[q].of # m
    <2>1. CASE q = p
        BY <1>3, <2>1, UnoccupiedIsOK
    <2>2. CASE q # p
        <3>1. PICK s : s = (manager[q].stale \/ manager[q].of = m)
            OBVIOUS
        <3>2. /\ s \in BOOLEAN /\ manager[q] \in ManagerRows
              /\ manager'[q] = [manager[q] EXCEPT !.stale = s]
            BY <1>3, <1>4, <2>2, <3>1
        <3>3. ~s => ~manager[q].stale /\ manager[q].of # m
            BY <3>1
        <3>4. ASSUME manager[q] = Unoccupied PROVE manager'[q] = Unoccupied
            <4>1. s = FALSE
                BY <1>2, <3>1, <3>4, UnoccupiedIsOK
            <4>2. manager'[q] = [Unoccupied EXCEPT !.stale = FALSE]
                BY <3>2, <3>4, <4>1
            <4> QED BY <4>2 DEF Unoccupied
        <3> QED BY <2>2, <3>2, <3>3, <3>4 DEF ManagerRows
    <2> QED BY <2>1, <2>2
<1>6. manager' \in [Managers -> ManagerRows]
    <2>1. manager' = [q \in Managers |-> manager'[q]]
        BY <1>3
    <2> QED BY <1>5, <2>1
<1>7. overtaken' \subseteq Milestones /\ overtaken \subseteq overtaken'
      /\ (manager[p].stale => m \in overtaken')
    BY <1>2, <1>3, <1>4
<1>8. MilestoneTypeOK'
    BY <1>2, <1>6, <1>7 DEF MilestoneTypeOK, ManagerRows
<1>9. ASSUME NEW q \in Managers, manager'[q] # Unoccupied PROVE MilestoneIsAsRead(q)'
    <2>1. q # p /\ manager[q] # Unoccupied
        BY <1>5, <1>9
    <2>2. MilestoneIsAsRead(q) /\ manager[q].of \in Milestones
        BY <2>1 DEF MilestoneInv, MilestoneIsAsRead
    <2>3. /\ manager'[q].of = manager[q].of /\ manager'[q].sets = manager[q].sets
          /\ ~manager'[q].stale => ~manager[q].stale /\ manager[q].of # m
        BY <1>5, <2>1
    <2>4. milestone'[manager[q].of].due # NoDay
        BY <1>2, <2>1, <2>2 DEF MilestoneIsAsRead
    <2>5. ~manager'[q].stale => milestone'[manager[q].of] = milestone[manager[q].of]
        BY <1>2, <2>2, <2>3
    <2> QED BY <2>1, <2>2, <2>3, <2>4, <2>5 DEF MilestoneIsAsRead
<1>10. \A q \in Managers : MilestoneIsAsRead(q)'
    <2>1. \A q \in Managers : manager'[q] = Unoccupied => MilestoneIsAsRead(q)'
        BY DEF MilestoneIsAsRead
    <2> QED BY <1>9, <2>1
<1>11. ASSUME NEW x \in Milestones \ overtaken' PROVE StaysDated(x)'
    <2>1. StaysDated(x) /\ (x = m => ~manager[p].stale)
        BY <1>7 DEF MilestoneInv
    <2>2. CASE x = m
        BY <1>2, <2>1, <2>2
    <2>3. CASE x # m
        BY <1>2, <2>1, <2>3 DEF StaysDated, Submitted
    <2> QED BY <2>2, <2>3
<1> QED BY <1>8, <1>10, <1>11 DEF MilestoneInv

\* Every step of the milestones.
LEMMA MilestoneStep ==
    ASSUME MilestoneInv, [MilestoneNext]_milestoneVars
    PROVE  MilestoneInv'
<1>1. CASE UNCHANGED milestoneVars
    BY <1>1 DEF milestoneVars, MilestoneInv, MilestoneTypeOK, MilestoneIsAsRead, StaysDated,
                Submitted
<1>2. CASE MilestoneNext
    BY <1>2, CreateMilestoneKeeps, MilestoneRequestsBegin, WriteMilestoneKeeps DEF MilestoneNext
<1> QED BY <1>1, <1>2

\* StaysDated, of every milestone.
LEMMA MilestonesSuffice == MilestoneInv => DeliveryStaysDatedUnlessRaced
    BY DEF MilestoneInv, StaysDated, DeliveryStaysDatedUnlessRaced

-----------------------------------------------------------------------------
(* All of it.                                                              *)

DeliveryInv == BoardInv /\ TimeInv /\ PipelineInv /\ ProjectsInv /\ MilestoneInv

\* The five parts begin.
LEMMA DeliveryBegins == DeliveryInit => DeliveryInv
    BY BoardBegins, TimeSheetBegins, PipelineBegins, ProjectsBegin, MilestonesBegin
    DEF DeliveryInit, DeliveryInv

\* A step is a step of one part.
LEMMA DeliveryStep ==
    ASSUME DeliveryInv, [DeliveryNext]_deliveryVars
    PROVE  DeliveryInv'
<1>1. (~reshaped /\ drifted = {} /\ BoardNext) \/ UNCHANGED boardVars
    BY DEF DeliveryNext, deliveryVars
<1>2. /\ [TimeSheetNext]_timeVars /\ [PipelineNext]_pipelineVars
      /\ [ProjectsNext]_projectsVars /\ [MilestoneNext]_milestoneVars
    BY DEF DeliveryNext, deliveryVars
<1>3. BoardInv'
    BY <1>1, BoardStep DEF DeliveryInv
<1>4. TimeInv' /\ PipelineInv' /\ ProjectsInv' /\ MilestoneInv'
    BY <1>2, TimeSheetStep, PipelineStep, ProjectsStep, MilestoneStep DEF DeliveryInv
<1> QED BY <1>3, <1>4 DEF DeliveryInv

\* What holds of the five parts in every reachable state, at once.
THEOREM DeliveryInvariant == DeliverySpec => []DeliveryInv
<1>1. DeliveryInv /\ [DeliveryNext]_deliveryVars => DeliveryInv'
    BY DeliveryStep
<1> QED BY <1>1, DeliveryBegins, PTL DEF DeliverySpec

\* Every row, every request and every ghost keeps its type.
THEOREM DeliveryTypes == DeliverySpec => []DeliveryTypeOK
<1>1. DeliveryInv => DeliveryTypeOK
    BY DEF DeliveryInv, BoardInv, TimeInv, PipelineInv, ProjectsInv, MilestoneInv,
           DeliveryTypeOK
<1> QED BY <1>1, DeliveryInvariant, PTL

\* However many requests reshape the columns and move the tasks (workflowStatus.service.ts,
\* task.service.ts), a board has a column, work starts in exactly one unless a PATCH has given
\* that away since, and the board says what is finished, until one request overtakes another.
THEOREM BoardHolds == DeliverySpec => []BoardHoldsUnlessRacedOrWaived
<1>1. DeliveryInv => BoardHoldsUnlessRacedOrWaived
    BY DEF DeliveryInv, BoardInv, BoardHoldsUnlessRacedOrWaived
<1> QED BY <1>1, DeliveryInvariant, PTL

\* Approved hours stay as they were approved (timeEntry.service.ts), and a milestone is
\* accepted only when it was delivered, against the date it was submitted for
\* (milestone.service.ts), unless the request that wrote was overtaken.
THEOREM SignedOffStays == DeliverySpec => []SignedOffStaysUnlessRaced
<1>1. DeliveryInv => SignedOffStaysUnlessRaced
    BY MilestonesSuffice DEF DeliveryInv, TimeInv, SignedOffStaysUnlessRaced
<1> QED BY <1>1, DeliveryInvariant, PTL

\* The history of a lead leads to its stage without a hole, and a lead becomes one client
\* (lead.service.ts, leadStage.ts), however long it is, unless two requests overlapped.
THEOREM HistoryHolds == DeliverySpec => []HistoryHoldsUnlessRaced
<1>1. DeliveryInv => HistoryHoldsUnlessRaced
    BY PipelineSuffices DEF DeliveryInv
<1> QED BY <1>1, DeliveryInvariant, PTL

\* The lock of the subscription keeps every company within its plan, whatever the plan
\* (planLimits.ts), and no money is left on what was deleted (client.service.ts,
\* project.service.ts) unless it was recorded meanwhile.
THEOREM ProjectsHold == DeliverySpec => []ProjectsHoldUnlessRaced
<1>1. DeliveryInv => ProjectsHoldUnlessRaced
    BY DEF DeliveryInv, ProjectsInv, ProjectsHoldUnlessRaced
<1> QED BY <1>1, DeliveryInvariant, PTL

\* A step that replaces a project's baseline (project.service.ts) is asked to, unless a
\* request has been overtaken.
THEOREM BaselinesStay == DeliverySpec => BaselineStaysUnlessRaced
<1>1. DeliveryInv /\ [DeliveryNext]_deliveryVars =>
          [\A j \in Projects :
              project[j].baseline \notin {NoPlanYet, project'[j].baseline} =>
                  \E p \in Clerks : clerk[p].op = "baseline again" \/ clerk[p].stale]_projectsVars
    <2>1. DeliveryInv /\ [DeliveryNext]_deliveryVars =>
              ProjectsInv /\ [ProjectsNext]_projectsVars
        BY DEF DeliveryNext, deliveryVars, DeliveryInv
    <2> QED BY <2>1, BaselinesChangeOnDemand
<1> QED BY <1>1, DeliveryInvariant, PTL DEF DeliverySpec, BaselineStaysUnlessRaced
=============================================================================
