---------------------------- MODULE OfficeProofs ----------------------------
(***************************************************************************)
(* The office, whatever the numbers of people, requests, rows and hours:   *)
(* who was here and who was away, who is told of a message, who owns the   *)
(* agency and was paid for it; and the figures: the rows of a loan, the    *)
(* pages of a list, the books of the platform and of a company, what its   *)
(* people and its sales come to.  Each part has an invariant of its own;   *)
(* the section after them takes them together, for the behaviours MCOffice *)
(* explores part by part.  The last section is of Payroll, a               *)
(* specification of its own.                                               *)
(***************************************************************************)
EXTENDS MCOffice, Payroll, SumTheorems, SequenceTheorems

-----------------------------------------------------------------------------
(***************************************************************************)
(* Who was here.  A request to check out has found a row, which is never   *)
(* taken away; a row that an admin did not write ahead of its time has a   *)
(* check-in that has been, and hours only pass.                            *)
(***************************************************************************)
DayIsTrue ==
    /\ ~day.there => day = NoRow
    /\ \A p \in Taps : tap[p] = "out" => day.there
    /\ day.there /\ ~foreseen =>
          day.in \in Hourly /\ day.in <= hour /\ (day.out # NoTime => day.out >= day.in)

DayInv == AttendanceTypeOK /\ DayIsTrue

\* Nobody has come yet.
LEMMA DayBegins == AttendanceInit => DayInv
<1> SUFFICES ASSUME AttendanceInit PROVE DayInv
  OBVIOUS
<1> USE AttendanceAssumption DEF AttendanceInit, NoRow
<1>1. AttendanceTypeOK
  <2>1. day \in DayRows
    BY DEF DayRows, Hourly
  <2>2. hour \in Hourly /\ tap \in [Taps -> {"none", "in", "out"}]
    BY DEF Hourly
  <2> QED BY <2>1, <2>2 DEF AttendanceTypeOK
<1>2. DayIsTrue
  BY DEF DayIsTrue
<1> QED BY <1>1, <1>2 DEF DayInv

\* What a tap or an admin writes keeps it.
LEMMA DayStep ==
    ASSUME DayInv, [AttendanceNext]_attendanceVars
    PROVE  DayInv'
<1> USE AttendanceAssumption DEF DayInv, AttendanceTypeOK, DayIsTrue, Hourly, DayRows, NoRow
<1>1. CASE NextHour
  BY <1>1 DEF NextHour
<1>2. CASE RecordDay
  <2>1. PICK in \in Hourly \cup {NoTime}, out \in Hourly \cup {NoTime} :
            /\ InOrder(in, out) /\ day' = [there |-> TRUE, in |-> in, out |-> out]
            /\ foreseen' = IF in = NoTime THEN TRUE ELSE in > hour
            /\ UNCHANGED <<hour, tap>>
    BY <1>2, Zenon DEF RecordDay
  <2>2. CASE in = NoTime
    <3>1. foreseen' = TRUE
      BY <2>1, <2>2
    <3> QED BY <2>1, <3>1
  <2>3. CASE in # NoTime
    <3>1. hour' = hour /\ tap' = tap /\ day' = [there |-> TRUE, in |-> in, out |-> out]
      BY <2>1
    <3>2. in \in Hourly /\ (out # NoTime => out >= in)
      BY <2>1, <2>3 DEF InOrder
    <3>3. CASE in > hour
      <4>1. foreseen' = TRUE
        BY <2>1, <2>3, <3>3
      <4> QED BY <3>1, <4>1
    <3>4. CASE in <= hour
      <4>1. (in > hour) = FALSE
        BY <3>2, <3>4
      <4>2. foreseen' = FALSE
        BY <2>1, <2>3, <4>1
      <4> QED BY <3>1, <3>2, <3>4, <4>2
    <3> QED BY <3>2, <3>3, <3>4
  <2> QED BY <2>2, <2>3
<1>3. ASSUME NEW p \in Taps, Clock(p) PROVE DayInv'
  BY <1>3 DEF Clock
<1>4. ASSUME NEW p \in Taps, ClockIn(p) PROVE DayInv'
  <2>1. CASE day.there
    BY <1>4, <2>1 DEF ClockIn
  <2>2. CASE ~day.there
    <3>1. day' = [there |-> TRUE, in |-> hour, out |-> NoTime]
      BY <1>4, <2>2 DEF ClockIn
    <3> QED BY <1>4, <3>1 DEF ClockIn
  <2> QED BY <2>1, <2>2
<1>5. ASSUME NEW p \in Taps, ClockOut(p) PROVE DayInv'
  <2>1. day' = [there |-> TRUE, in |-> day.in, out |-> hour]
    BY <1>5 DEF ClockOut
  <2> QED BY <1>5, <2>1 DEF ClockOut
<1>6. CASE UNCHANGED attendanceVars
  BY <1>6 DEF attendanceVars
<1> QED BY <1>1, <1>2, <1>3, <1>4, <1>5, <1>6 DEF AttendanceNext

\* A check-out follows a check-in.
LEMMA DaySuffices == DayInv => OutFollowsInUnlessForeseen
  BY AttendanceAssumption
     DEF DayInv, DayIsTrue, AttendanceTypeOK, DayRows, NoRow, Hourly, OutFollowsInUnlessForeseen

-----------------------------------------------------------------------------
(***************************************************************************)
(* Who was away.  A request that asks has found no absence of its person   *)
(* on its days, one that settles has found its absence pending; whoever    *)
(* writes meanwhile makes the request stale where that would matter.       *)
(***************************************************************************)

\* Two rows would count a day twice.
Double(x, y) ==
    /\ x.of = y.of
    /\ x.status \in {"pending", "approved"} /\ y.status \in {"pending", "approved"}
    /\ x.from <= y.to /\ x.to >= y.from

\* An absence that nobody contests: what its row and its history say of one another.
Coherent(row, first) ==
    /\ row.status = "none" => row = NotAsked /\ first = "none"
    /\ row.status = "pending" => first = "none" /\ row.decidedBy = NoStaff
    /\ row.status \in Settled => first = row.status
    /\ row.decidedBy # NoStaff => row.decidedBy # row.of

\* What the request r has found, and still finds unless it was overtaken.
Found(r) ==
    /\ r.op = "ask" =>
          /\ r.row.status = "pending" /\ r.row.of # NoStaff /\ r.row.decidedBy = NoStaff
          /\ ~r.stale => \A a \in Absences \ contested : ~Double(absence[a], r.row)
    /\ r.op = "settle" =>
          /\ r.row.status \in Settled
          /\ ~r.stale /\ r.on \notin contested =>
                /\ absence[r.on].status = "pending"
                /\ r.row.of = absence[r.on].of
                /\ r.row.from = absence[r.on].from /\ r.row.to = absence[r.on].to
                /\ r.row.decidedBy # NoStaff => r.row.decidedBy # r.row.of

LeaveHolds ==
    /\ \A a \in Absences \ contested : Coherent(absence[a], outcome[a])
    /\ \A a, b \in Absences \ contested : a # b => ~Double(absence[a], absence[b])

RequestsHold ==
    \A p \in Requesters : (requester[p].op # "none" => requester[p].on \in Absences)
                           /\ Found(requester[p])

LeaveInv == LeaveTypeOK /\ LeaveHolds /\ RequestsHold

\* Nobody has asked.
LEMMA LeaveBegins == LeaveInit => LeaveInv
<1> SUFFICES ASSUME LeaveInit PROVE LeaveInv
  OBVIOUS
<1> USE LeaveAssumption DEF LeaveInit, NotAsked, Unbusy
<1>1. NotAsked \in AbsenceRows
  BY DEF AbsenceRows
<1>2. LeaveTypeOK
  <2>1. absence \in [Absences -> AbsenceRows]
    BY <1>1
  <2>2. requester \in [Requesters -> [op : {"none", "ask", "settle"},
                                      on : Absences \cup {NoAbsence},
                                      row : AbsenceRows, stale : BOOLEAN]]
    BY <1>1
  <2> QED BY <2>1, <2>2 DEF LeaveTypeOK
<1>3. LeaveHolds
  BY DEF LeaveHolds, Coherent, Double, Settled
<1>4. RequestsHold
  BY DEF RequestsHold, Found
<1> QED BY <1>2, <1>3, <1>4 DEF LeaveInv

Writer == [op : {"none", "ask", "settle"}, on : Absences \cup {NoAbsence},
           row : AbsenceRows, stale : BOOLEAN]

\* A request that begins changes no row, and has just found what it found.
LEMMA SubmitKeeps ==
    ASSUME LeaveInv, NEW p \in Requesters, NEW op \in {"ask", "settle"}, NEW a \in Absences,
           NEW row \in AbsenceRows, Submit(p, op, a, row),
           Found([op |-> op, on |-> a, row |-> row, stale |-> FALSE])
    PROVE  LeaveInv'
<1> DEFINE r == [op |-> op, on |-> a, row |-> row, stale |-> FALSE]
<1> USE DEF LeaveInv
<1>1. /\ requester' = [requester EXCEPT ![p] = r]
      /\ absence' = absence /\ outcome' = outcome /\ contested' = contested /\ offered' = offered
  BY DEF Submit
<1>2. requester \in [Requesters -> Writer] /\ r \in Writer
  BY DEF LeaveTypeOK, Writer
<1>3. LeaveTypeOK'
  <2>1. requester' \in [Requesters -> Writer]
    BY <1>1, <1>2
  <2> QED BY <1>1, <2>1 DEF LeaveTypeOK, Writer
<1>4. LeaveHolds'
  BY <1>1 DEF LeaveHolds, Coherent, Double
<1>5. RequestsHold'
  <2> SUFFICES ASSUME NEW q \in Requesters
               PROVE  ((requester[q].op # "none" => requester[q].on \in Absences)
                       /\ Found(requester[q]))'
    BY DEF RequestsHold
  <2>1. PICK x : x = requester'[q]
    OBVIOUS
  <2>2. Found(x) /\ (x.op # "none" => x.on \in Absences)
    BY <1>1, <1>2, <2>1 DEF RequestsHold
  <2>3. Found(x)'
    BY <1>1, <2>2 DEF Found, Double
  <2> QED BY <2>1, <2>2, <2>3
<1> QED BY <1>3, <1>4, <1>5

\* To count a day twice is mutual.
LEMMA DoubleIsMutual ==
    ASSUME NEW x \in AbsenceRows, NEW y \in AbsenceRows
    PROVE  Double(x, y) => Double(y, x)
  BY LeaveAssumption DEF Double, AbsenceRows

\* The write changes the row it is about and what it overtakes, nothing else.
LEMMA LeaveWritten ==
    ASSUME LeaveInv, NEW p \in Requesters, WriteLeave(p), NEW r, r = requester[p]
    PROVE  /\ r \in Writer /\ r.op \in {"ask", "settle"} /\ r.on \in Absences /\ Found(r)
           /\ r.op = "ask" => absence[r.on] = NotAsked
           /\ absence' = [absence EXCEPT ![r.on] = r.row]
           /\ outcome' = IF outcome[r.on] = "none" /\ r.row.status \in Settled
                         THEN [outcome EXCEPT ![r.on] = r.row.status] ELSE outcome
           /\ contested \subseteq contested' /\ contested' \subseteq Absences
           /\ r.stale => r.on \in contested'
           /\ requester' \in [Requesters -> Writer] /\ requester'[p] = Unbusy
           /\ \A q \in Requesters \ {p} :
                 /\ requester'[q].op = requester[q].op /\ requester'[q].on = requester[q].on
                 /\ requester'[q].row = requester[q].row
                 /\ ~requester'[q].stale => ~requester[q].stale /\ ~Touch(requester[q], r)
<1> USE DEF LeaveInv, LeaveTypeOK
<1>1. requester \in [Requesters -> Writer]
  BY DEF Writer
<1>2. r \in Writer /\ r.op \in {"ask", "settle"} /\ r.on \in Absences /\ Found(r)
  <2>1. r.op # "none"
    BY DEF WriteLeave
  <2> QED BY <1>1, <2>1 DEF RequestsHold, Writer
<1>3. /\ absence' = [absence EXCEPT ![r.on] = r.row]
      /\ outcome' = IF outcome[r.on] = "none" /\ r.row.status \in Settled
                    THEN [outcome EXCEPT ![r.on] = r.row.status] ELSE outcome
      /\ r.op = "ask" => absence[r.on] = NotAsked
      /\ contested' = IF r.stale THEN contested \cup {r.on} ELSE contested
      /\ requester' = [q \in Requesters |->
                          IF q = p THEN Unbusy
                          ELSE [requester[q] EXCEPT !.stale = @ \/ Touch(requester[q], r)]]
  BY DEF WriteLeave
<1>4. /\ contested \subseteq contested' /\ contested' \subseteq Absences
      /\ r.stale => r.on \in contested'
  BY <1>2, <1>3
<1>5. Unbusy \in Writer
  BY LeaveAssumption DEF Unbusy, Writer, NotAsked, AbsenceRows
<1>6. requester'[p] = Unbusy
  BY <1>3
<1>7. ASSUME NEW q \in Requesters \ {p}
      PROVE  /\ requester'[q] \in Writer
             /\ requester'[q].op = requester[q].op /\ requester'[q].on = requester[q].on
             /\ requester'[q].row = requester[q].row
             /\ ~requester'[q].stale => ~requester[q].stale /\ ~Touch(requester[q], r)
  <2>1. PICK y \in Writer : y = requester[q]
    BY <1>1
  <2>2. PICK s : s = (y.stale \/ Touch(y, r))
    OBVIOUS
  <2>3. s \in BOOLEAN
    BY <2>2
  <2>4. requester'[q] = [y EXCEPT !.stale = s]
    BY <1>3, <2>1, <2>2
  <2>5. requester'[q] = [op |-> y.op, on |-> y.on, row |-> y.row, stale |-> s]
    BY <2>4 DEF Writer
  <2>6. ~s => ~y.stale /\ ~Touch(y, r)
    BY <2>2
  <2> QED BY <2>1, <2>3, <2>5, <2>6 DEF Writer
<1>8. requester' \in [Requesters -> Writer]
  BY <1>3, <1>5, <1>6, <1>7
<1> QED BY <1>2, <1>3, <1>4, <1>6, <1>7, <1>8

\* The write keeps every row true: unless it was overtaken, what it found still holds.
LEMMA WriteLeaveKeepsRows ==
    ASSUME LeaveInv, NEW p \in Requesters, WriteLeave(p)
    PROVE  LeaveHolds'
<1>1. PICK r : r = requester[p]
  OBVIOUS
<1>2. /\ r \in Writer /\ r.op \in {"ask", "settle"} /\ r.on \in Absences /\ Found(r)
      /\ r.op = "ask" => absence[r.on] = NotAsked
      /\ absence' = [absence EXCEPT ![r.on] = r.row]
      /\ outcome' = IF outcome[r.on] = "none" /\ r.row.status \in Settled
                    THEN [outcome EXCEPT ![r.on] = r.row.status] ELSE outcome
      /\ contested \subseteq contested' /\ contested' \subseteq Absences
      /\ r.stale => r.on \in contested'
  BY <1>1, LeaveWritten
<1> USE DEF LeaveInv, LeaveTypeOK
<1>3. /\ absence'[r.on] = r.row
      /\ \A a \in Absences \ {r.on} : absence'[a] = absence[a] /\ outcome'[a] = outcome[a]
  BY <1>2
<1>4. \A a \in Absences : absence[a] \in AbsenceRows
  OBVIOUS
<1>5. r.row \in AbsenceRows
  BY <1>2 DEF Writer
<1>6. ASSUME r.on \notin contested'
      PROVE  /\ Coherent(absence'[r.on], outcome'[r.on])
             /\ \A a \in Absences \ contested : a # r.on => ~Double(absence[a], r.row)
  <2>1. ~r.stale /\ r.on \notin contested
    BY <1>2, <1>6
  <2>2. Coherent(absence[r.on], outcome[r.on])
    BY <1>2, <2>1 DEF LeaveHolds
  <2>3. CASE r.op = "ask"
    <3>1. /\ r.row.status = "pending" /\ r.row.of # NoStaff /\ r.row.decidedBy = NoStaff
          /\ \A a \in Absences \ contested : ~Double(absence[a], r.row)
      BY <1>2, <2>1, <2>3 DEF Found
    <3>2. outcome[r.on] = "none"
      BY <1>2, <2>2, <2>3 DEF Coherent, NotAsked
    <3>3. outcome'[r.on] = "none"
      BY <1>2, <3>1, <3>2 DEF Settled
    <3> QED BY <1>3, <3>1, <3>3 DEF Coherent, Settled
  <2>4. CASE r.op = "settle"
    <3>1. /\ r.row.status \in Settled /\ absence[r.on].status = "pending"
          /\ r.row.of = absence[r.on].of
          /\ r.row.from = absence[r.on].from /\ r.row.to = absence[r.on].to
          /\ r.row.decidedBy # NoStaff => r.row.decidedBy # r.row.of
      BY <1>2, <2>1, <2>4 DEF Found
    <3>2. outcome[r.on] = "none"
      BY <2>2, <3>1 DEF Coherent
    <3>3. outcome'[r.on] = r.row.status
      BY <1>2, <3>1, <3>2
    <3>4. Coherent(r.row, r.row.status)
      BY <3>1 DEF Coherent, Settled
    <3>5. ASSUME NEW a \in Absences \ contested, a # r.on PROVE ~Double(absence[a], r.row)
      <4>1. ~Double(absence[a], absence[r.on])
        BY <1>2, <2>1, <3>5 DEF LeaveHolds
      <4> QED BY <3>1, <4>1 DEF Double
    <3> QED BY <1>3, <3>3, <3>4, <3>5
  <2> QED BY <1>2, <2>3, <2>4
<1>7. ASSUME NEW a \in Absences \ contested' PROVE Coherent(absence'[a], outcome'[a])
  <2>1. CASE a = r.on
    BY <1>6, <1>7, <2>1
  <2>2. CASE a # r.on
    BY <1>2, <1>3, <2>2 DEF LeaveHolds
  <2> QED BY <2>1, <2>2
<1>8. ASSUME NEW a \in Absences \ contested', NEW b \in Absences \ contested', a # b
      PROVE  ~Double(absence'[a], absence'[b])
  <2>1. CASE b = r.on
    BY <1>2, <1>3, <1>6, <1>8, <2>1
  <2>2. CASE a = r.on
    <3>1. ~Double(absence[b], r.row)
      BY <1>2, <1>6, <1>8, <2>2
    <3>2. ~Double(r.row, absence[b])
      BY <1>4, <1>5, <3>1, DoubleIsMutual
    <3> QED BY <1>3, <1>8, <2>2, <3>2
  <2>3. CASE a # r.on /\ b # r.on
    BY <1>2, <1>3, <1>8, <2>3 DEF LeaveHolds
  <2> QED BY <2>1, <2>2, <2>3
<1> QED BY <1>7, <1>8 DEF LeaveHolds, Coherent, Double

\* The write keeps every request true: whoever could not rely on what they found is overtaken.
LEMMA WriteLeaveKeepsRequests ==
    ASSUME LeaveInv, NEW p \in Requesters, WriteLeave(p)
    PROVE  RequestsHold'
<1>1. PICK r : r = requester[p]
  OBVIOUS
<1>2. /\ r \in Writer /\ r.op \in {"ask", "settle"} /\ r.on \in Absences /\ Found(r)
      /\ r.op = "ask" => absence[r.on] = NotAsked
      /\ absence' = [absence EXCEPT ![r.on] = r.row]
      /\ contested \subseteq contested' /\ contested' \subseteq Absences
      /\ r.stale => r.on \in contested'
      /\ requester'[p] = Unbusy
      /\ \A q \in Requesters \ {p} :
            /\ requester'[q].op = requester[q].op /\ requester'[q].on = requester[q].on
            /\ requester'[q].row = requester[q].row
            /\ ~requester'[q].stale => ~requester[q].stale /\ ~Touch(requester[q], r)
  BY <1>1, LeaveWritten
<1> USE DEF LeaveInv, LeaveTypeOK
<1>3. /\ absence'[r.on] = r.row
      /\ \A a \in Absences \ {r.on} : absence'[a] = absence[a]
  BY <1>2
<1> SUFFICES ASSUME NEW q \in Requesters
             PROVE  ((requester[q].op # "none" => requester[q].on \in Absences)
                     /\ Found(requester[q]))'
  BY DEF RequestsHold
<1>4. CASE q = p
  BY <1>2, <1>4 DEF Unbusy, Found
<1>5. CASE q # p
  <2>1. PICK x, y : x = requester'[q] /\ y = requester[q]
    OBVIOUS
  <2>2. /\ x.op = y.op /\ x.on = y.on /\ x.row = y.row
        /\ ~x.stale => ~y.stale /\ ~Touch(y, r)
    BY <1>2, <1>5, <2>1
  <2>3. (y.op # "none" => y.on \in Absences) /\ Found(y)
    BY <2>1 DEF RequestsHold
  <2>4. ASSUME x.op = "ask", ~x.stale, NEW a \in Absences \ contested'
        PROVE  ~Double(absence'[a], x.row)
    <3>1. \A b \in Absences \ contested : ~Double(absence[b], y.row)
      BY <2>2, <2>3, <2>4 DEF Found
    <3>2. CASE a # r.on
      BY <1>2, <1>3, <2>2, <3>1, <3>2
    <3>3. CASE a = r.on
      <4>1. ~r.stale /\ r.on \notin contested
        BY <1>2, <3>3
      <4>2. CASE r.op = "ask"
        <5>1. r.row.of # y.row.of
          BY <2>2, <2>4, <4>2 DEF Touch
        <5> QED BY <1>3, <2>2, <3>3, <5>1 DEF Double
      <4>3. CASE r.op = "settle"
        <5>1. /\ absence[r.on].status = "pending"
              /\ r.row.of = absence[r.on].of
              /\ r.row.from = absence[r.on].from /\ r.row.to = absence[r.on].to
          BY <1>2, <4>1, <4>3 DEF Found
        <5>2. ~Double(absence[r.on], y.row)
          BY <1>2, <3>1, <4>1
        <5> QED BY <1>3, <2>2, <3>3, <5>1, <5>2 DEF Double
      <4> QED BY <1>2, <4>2, <4>3
    <3> QED BY <3>2, <3>3
  <2>5. ASSUME x.op = "settle", ~x.stale, x.on \notin contested'
        PROVE  absence'[x.on] = absence[x.on] /\ ~y.stale /\ y.on \notin contested
    <3>1. y.on # r.on
      BY <2>2, <2>5 DEF Touch
    <3> QED BY <1>2, <1>3, <2>2, <2>3, <2>5, <3>1
  <2>6. Found(x)'
    BY <2>2, <2>3, <2>4, <2>5 DEF Found, Double
  <2> QED BY <2>1, <2>2, <2>3, <2>6
<1> QED BY <1>4, <1>5

\* Every step keeps it.
LEMMA LeaveStep ==
    ASSUME LeaveInv, [LeaveNext]_leaveVars
    PROVE  LeaveInv'
<1>1. \A a \in Absences : absence[a] \in AbsenceRows
  BY DEF LeaveInv, LeaveTypeOK
<1>2. CASE SetOffered
  <2>1. offered' \in BOOLEAN /\ UNCHANGED <<absence, requester, outcome, contested>>
    BY <1>2 DEF SetOffered, LeaveInv, LeaveTypeOK
  <2> QED BY <2>1 DEF LeaveInv, LeaveTypeOK, LeaveHolds, RequestsHold, Found, Coherent, Double
<1>3. ASSUME NEW p \in Requesters, NEW a \in Absences, CancelLeave(p, a)
      PROVE  LeaveInv'
  <2>1. PICK row : row = [absence[a] EXCEPT !.status = "cancelled"]
    OBVIOUS
  <2>2. /\ row \in AbsenceRows /\ row.status = "cancelled" /\ row.of = absence[a].of
        /\ row.from = absence[a].from /\ row.to = absence[a].to
        /\ row.decidedBy = absence[a].decidedBy
    BY <1>1, <2>1 DEF AbsenceRows, Settled
  <2>3. absence[a].status = "pending" /\ Submit(p, "settle", a, row)
    BY <1>3, <2>1 DEF CancelLeave
  <2>4. a \notin contested => absence[a].decidedBy = NoStaff
    BY <2>3 DEF LeaveInv, LeaveHolds, Coherent
  <2>5. Found([op |-> "settle", on |-> a, row |-> row, stale |-> FALSE])
    BY <2>2, <2>3, <2>4 DEF Found, Settled
  <2> QED BY <2>2, <2>3, <2>5, SubmitKeeps
<1>4. ASSUME NEW p \in Requesters, NEW a \in Absences, NEW u \in Staff, AskLeave(p, a, u)
      PROVE  LeaveInv'
  <2>1. PICK from \in Dates : \E to \in from .. LastDate :
            /\ ~Clash(u, from, to)
            /\ Submit(p, "ask", a, [NotAsked EXCEPT !.of = u, !.from = from, !.to = to,
                                                    !.status = "pending"])
    BY <1>4, Zenon DEF AskLeave
  <2>2. PICK to \in from .. LastDate :
            /\ ~Clash(u, from, to)
            /\ Submit(p, "ask", a, [NotAsked EXCEPT !.of = u, !.from = from, !.to = to,
                                                    !.status = "pending"])
    BY <2>1, Zenon
  <2>3. PICK row : row = [NotAsked EXCEPT !.of = u, !.from = from, !.to = to,
                                          !.status = "pending"]
    OBVIOUS
  <2>4. from \in 0 .. LastDate /\ to \in 0 .. LastDate
    BY LeaveAssumption DEF Dates
  <2>5. /\ row \in AbsenceRows /\ row.status = "pending" /\ row.of = u /\ row.of # NoStaff
        /\ row.from = from /\ row.to = to /\ row.decidedBy = NoStaff
    <3>1. NotAsked \in AbsenceRows /\ NotAsked.decidedBy = NoStaff
      BY LeaveAssumption DEF NotAsked, AbsenceRows
    <3> QED BY <2>3, <2>4, <3>1, LeaveAssumption DEF AbsenceRows
  <2>6. \A b \in Absences : ~Double(absence[b], row)
    BY <2>2, <2>5 DEF Clash, Away, Double
  <2>7. Found([op |-> "ask", on |-> a, row |-> row, stale |-> FALSE])
    BY <2>5, <2>6 DEF Found
  <2> QED BY <2>2, <2>3, <2>5, <2>7, SubmitKeeps
<1>5. ASSUME NEW p \in Requesters, NEW a \in Absences, NEW u \in Staff, DecideLeave(p, a, u)
      PROVE  LeaveInv'
  <2>1. PICK verdict \in {"approved", "rejected"} :
            Submit(p, "settle", a, [absence[a] EXCEPT !.status = verdict, !.decidedBy = u])
    BY <1>5, Zenon DEF DecideLeave
  <2>2. PICK row : row = [absence[a] EXCEPT !.status = verdict, !.decidedBy = u]
    OBVIOUS
  <2>3. /\ row \in AbsenceRows /\ row.status \in Settled /\ row.of = absence[a].of
        /\ row.from = absence[a].from /\ row.to = absence[a].to /\ row.decidedBy = u
    BY <1>1, <2>2 DEF AbsenceRows, Settled
  <2>4. absence[a].status = "pending" /\ u # row.of
    BY <1>5, <2>3 DEF DecideLeave, MayDecide
  <2>5. Found([op |-> "settle", on |-> a, row |-> row, stale |-> FALSE])
    BY <2>3, <2>4 DEF Found
  <2> QED BY <2>1, <2>2, <2>3, <2>5, SubmitKeeps
<1>6. ASSUME NEW p \in Requesters, WriteLeave(p)
      PROVE  LeaveInv'
  <2>1. LeaveTypeOK'
    <3>1. PICK r : r = requester[p]
      OBVIOUS
    <3>2. /\ r \in Writer /\ r.on \in Absences
          /\ absence' = [absence EXCEPT ![r.on] = r.row]
          /\ outcome' = IF outcome[r.on] = "none" /\ r.row.status \in Settled
                        THEN [outcome EXCEPT ![r.on] = r.row.status] ELSE outcome
          /\ contested' \subseteq Absences /\ requester' \in [Requesters -> Writer]
      BY <1>6, <3>1, LeaveWritten
    <3>3. absence' \in [Absences -> AbsenceRows]
      BY <3>2 DEF LeaveInv, LeaveTypeOK, Writer
    <3>4. outcome' \in [Absences -> {"none"} \cup Settled]
      BY <3>2 DEF LeaveInv, LeaveTypeOK
    <3>5. offered' \in BOOLEAN
      BY <1>6 DEF WriteLeave, LeaveInv, LeaveTypeOK
    <3> QED BY <3>2, <3>3, <3>4, <3>5 DEF LeaveTypeOK, Writer
  <2>2. LeaveHolds'
    BY <1>6, WriteLeaveKeepsRows
  <2>3. RequestsHold'
    BY <1>6, WriteLeaveKeepsRequests
  <2> QED BY <2>1, <2>2, <2>3 DEF LeaveInv
<1>7. CASE UNCHANGED leaveVars
  BY <1>7 DEF leaveVars, LeaveInv, LeaveTypeOK, LeaveHolds, RequestsHold, Found, Coherent, Double
<1> QED BY <1>2, <1>3, <1>4, <1>5, <1>6, <1>7 DEF LeaveNext

\* No day counts twice, and what was decided stands.
LEMMA LeaveSuffices == LeaveInv => DaysCountOnceUnlessRaced /\ DecisionStandsUnlessRaced
<1> SUFFICES ASSUME LeaveInv PROVE DaysCountOnceUnlessRaced /\ DecisionStandsUnlessRaced
  OBVIOUS
<1>1. DaysCountOnceUnlessRaced
  BY DEF LeaveInv, LeaveHolds, Double, DaysCountOnceUnlessRaced, Away
<1>2. DecisionStandsUnlessRaced
  BY DEF LeaveInv, LeaveTypeOK, LeaveHolds, Coherent, DecisionStandsUnlessRaced, AbsenceRows
<1> QED BY <1>1, <1>2

-----------------------------------------------------------------------------
(***************************************************************************)
(* Who is told of a message.  Every stamp is later than the time of        *)
(* whoever never read, so only a read of the thread can count a message    *)
(* as read; and a direct thread is known by its pair, the unique key.      *)
(***************************************************************************)

\* What a thread, a text and a request are when they are what they say.
ThreadsInv ==
    /\ \A t \in Threads :
          /\ thread[t].kind = "none" => thread[t] = NoneYet /\ MembersOf(t) = {}
          /\ thread[t].kind = "direct" => thread[t].key = thread[t].pair
    /\ \A p \in People : person[p].op = "open" => person[p].key = person[p].with
    /\ DirectIsTheirs

StampsInv ==
    /\ \A m \in Texts : text[m] # Unwritten => text[m].at > 0
    /\ \A p \in People : person[p].op = "send" =>
          person[p].at > 0 /\ person[p].text \in Texts /\ person[p].thread \in Threads

ChatInv == ChatTypeOK /\ ThreadsInv /\ StampsInv /\ UnreadUntilReadUnlessLate

Errand == [op : {"none", "open", "send"}, thread : Threads \cup {NoThread},
           text : Texts \cup {NoText}, with : SUBSET People,
           key : SUBSET People, at : Time]

\* Nobody has written to anybody.
LEMMA ChatBegins == ChatInit => ChatInv
<1> SUFFICES ASSUME ChatInit PROVE ChatInv
  OBVIOUS
<1> USE ChatAssumption DEF ChatInit
<1>1. ChatTypeOK
  <2>1. thread \in [Threads -> ThreadRows]
    BY DEF ThreadRows, NoneYet, Kinds, NoKey
  <2>2. text \in [Texts -> TextRows] /\ ticks \in Time
    BY DEF TextRows, Unwritten, Time
  <2>3. Silent \in Errand
    BY DEF Silent, Errand, NoKey, Time
  <2>4. person \in [People -> Errand]
    BY <2>3
  <2>5. DOMAIN readAt = {} /\ DOMAIN atHand = {} /\ late = {}
    OBVIOUS
  <2> QED BY <2>1, <2>2, <2>4, <2>5 DEF ChatTypeOK, Errand
<1>2. ThreadsInv
  <2>1. \A t \in Threads : thread[t] = NoneYet /\ MembersOf(t) = {}
    BY DEF MembersOf, Member
  <2>2. NoneYet.kind = "none" /\ \A p \in People : person[p].op = "none"
    BY DEF NoneYet, Silent
  <2>3. DirectIsTheirs
    BY <2>1, <2>2 DEF DirectIsTheirs
  <2> QED BY <2>1, <2>2, <2>3 DEF ThreadsInv
<1>3. StampsInv
  BY DEF StampsInv, Silent
<1>4. UnreadUntilReadUnlessLate
  BY DEF UnreadUntilReadUnlessLate
<1> QED BY <1>1, <1>2, <1>3, <1>4 DEF ChatInv

\* Whoever joins has read nothing and has nothing at hand.
LEMMA JoinKeepsUnread ==
    ASSUME ChatInv, NEW t \in Threads, NEW ps \in SUBSET People,
           readAt' = Joined(readAt, t, ps, 0), atHand' = Joined(atHand, t, ps, {}),
           UNCHANGED <<text, late>>
    PROVE  /\ DOMAIN readAt' = DOMAIN readAt \cup {<<t, p>> : p \in ps}
           /\ DOMAIN readAt' \subseteq Threads \X People
           /\ \A x \in DOMAIN readAt' : readAt'[x] \in Time
           /\ DOMAIN atHand' = DOMAIN readAt'
           /\ \A x \in DOMAIN atHand' : atHand'[x] \subseteq Texts
           /\ UnreadUntilReadUnlessLate'
<1>1. DOMAIN readAt' = DOMAIN readAt \cup {<<t, p>> : p \in ps}
  BY DEF Joined
<1>2. DOMAIN atHand' = DOMAIN readAt'
  BY DEF Joined, ChatInv, ChatTypeOK
<1>3. \A x \in DOMAIN readAt' :
         /\ readAt'[x] = IF x \in DOMAIN readAt THEN readAt[x] ELSE 0
         /\ atHand'[x] = IF x \in DOMAIN readAt THEN atHand[x] ELSE {}
  BY DEF Joined, ChatInv, ChatTypeOK
<1>4. DOMAIN readAt' \subseteq Threads \X People
  BY <1>1 DEF ChatInv, ChatTypeOK
<1>5. \A x \in DOMAIN readAt' : readAt'[x] \in Time
  BY <1>3, ChatAssumption DEF ChatInv, ChatTypeOK, Time
<1>6. \A x \in DOMAIN atHand' : atHand'[x] \subseteq Texts
  BY <1>2, <1>3 DEF ChatInv, ChatTypeOK
<1>7. UnreadUntilReadUnlessLate'
  <2> SUFFICES ASSUME NEW m \in Texts, NEW p \in People,
                      (text[m] # Unwritten /\ text[m].by # p /\ Member(text[m].in, p))',
                      (<<m, p>> \notin late /\ m \notin atHand[text[m].in, p])'
               PROVE  Unread(m, p)'
    BY DEF UnreadUntilReadUnlessLate
  <2>1. PICK x : x = <<text[m].in, p>>
    OBVIOUS
  <2>2. x \in DOMAIN readAt' /\ text' = text /\ late' = late
    BY <2>1 DEF Member
  <2>3. CASE x \in DOMAIN readAt
    <3>1. Unread(m, p)
      BY <1>3, <2>1, <2>2, <2>3 DEF ChatInv, UnreadUntilReadUnlessLate, Member
    <3> QED BY <1>3, <2>1, <2>2, <2>3, <3>1 DEF Unread
  <2>4. CASE x \notin DOMAIN readAt
    <3>1. readAt'[x] = 0 /\ text[m].at > 0
      BY <1>3, <2>2, <2>4 DEF ChatInv, StampsInv
    <3> QED BY <2>1, <2>2, <3>1 DEF Unread
  <2> QED BY <2>3, <2>4
<1> QED BY <1>1, <1>2, <1>4, <1>5, <1>6, <1>7

\* Who is in which thread after somebody joined one.
LEMMA MembersAfter ==
    ASSUME NEW t \in Threads, NEW ps \in SUBSET People, ChatTypeOK,
           DOMAIN readAt' = DOMAIN readAt \cup {<<t, p>> : p \in ps}
    PROVE  /\ MembersOf(t)' = MembersOf(t) \cup ps
           /\ \A u \in Threads \ {t} : MembersOf(u)' = MembersOf(u)
  BY DEF MembersOf, Member, ChatTypeOK

\* A read of one's own rows leaves those of the others alone.
LEMMA ReadMoves ==
    ASSUME ChatTypeOK, NEW t \in Threads, NEW p \in People, NEW at \in Time,
           NEW stored \in SUBSET Texts, ReadUpTo(t, p, at, stored)
    PROVE  /\ DOMAIN readAt' = DOMAIN readAt /\ DOMAIN atHand' = DOMAIN atHand
           /\ \A x \in DOMAIN readAt' : readAt'[x] \in Time /\ atHand'[x] \subseteq Texts
           /\ \A x \in DOMAIN readAt : x # <<t, p>> =>
                  readAt'[x] = readAt[x] /\ atHand'[x] = atHand[x]
           /\ <<t, p>> \in DOMAIN readAt => atHand'[<<t, p>>] = stored
<1> USE DEF ChatTypeOK, ReadUpTo, ReadersOf, MembersOf, Member
<1>1. DOMAIN readAt' = DOMAIN readAt /\ DOMAIN atHand' = DOMAIN atHand
  OBVIOUS
<1>2. ASSUME NEW x \in DOMAIN readAt
      PROVE  /\ readAt'[x] \in Time
             /\ x # <<t, p>> => readAt'[x] = readAt[x]
  <2>1. PICK u \in Threads, q \in People : x = <<u, q>>
    OBVIOUS
  <2>2. readAt'[x] = IF u = t /\ q \in {p} \cap MembersOf(t) THEN at ELSE readAt[x]
    BY <2>1
  <2> QED BY <2>1, <2>2
<1>3. ASSUME NEW x \in DOMAIN readAt
      PROVE  /\ atHand'[x] \subseteq Texts
             /\ x # <<t, p>> => atHand'[x] = atHand[x]
             /\ x = <<t, p>> => atHand'[x] = stored
  <2>1. CASE <<t, p>> \in DOMAIN readAt
    BY <2>1
  <2>2. CASE <<t, p>> \notin DOMAIN readAt
    BY <2>2
  <2> QED BY <2>1, <2>2
<1> QED BY <1>1, <1>2, <1>3

\* Nobody's threads change with their messages.
LEMMA ThreadsStay ==
    ASSUME ChatInv, UNCHANGED thread, DOMAIN readAt' \subseteq DOMAIN readAt,
           \A p \in People : person'[p].op = "open" => person'[p].key = person'[p].with
    PROVE  ThreadsInv'
<1>1. \A t \in Threads : MembersOf(t)' \subseteq MembersOf(t)
  BY DEF MembersOf, Member
<1>2. DirectIsTheirs'
  BY <1>1 DEF ChatInv, ThreadsInv, DirectIsTheirs
<1> QED BY <1>1, <1>2 DEF ChatInv, ThreadsInv

\* A request that begins, or ends with nothing written, changes no row.
LEMMA ErrandKeeps ==
    ASSUME ChatInv, NEW p \in People, NEW r \in Errand, person' = [person EXCEPT ![p] = r],
           UNCHANGED <<thread, readAt, text, atHand, late>>, ticks' \in Time,
           r.op = "open" => r.key = r.with,
           r.op = "send" => r.at > 0 /\ r.text \in Texts /\ r.thread \in Threads
    PROVE  ChatInv'
<1>1. person \in [People -> Errand] /\ person' \in [People -> Errand]
  BY DEF ChatInv, ChatTypeOK, Errand
<1>2. \A q \in People : person'[q] = IF q = p THEN r ELSE person[q]
  BY <1>1
<1>3. ChatTypeOK'
  BY <1>1 DEF ChatInv, ChatTypeOK, Errand
<1>4. ThreadsInv'
  <2>1. \A q \in People : person'[q].op = "open" => person'[q].key = person'[q].with
    BY <1>2 DEF ChatInv, ThreadsInv
  <2> QED BY <2>1, ThreadsStay
<1>5. StampsInv'
  BY <1>2 DEF ChatInv, StampsInv
<1>6. UnreadUntilReadUnlessLate'
  BY DEF ChatInv, UnreadUntilReadUnlessLate, Member, Unread
<1> QED BY <1>3, <1>4, <1>5, <1>6 DEF ChatInv

\* A request that has begun to open a thread, and one that is done, is as it should be.
LEMMA SilentIsErrand == Silent \in Errand /\ Silent.op = "none"
  BY ChatAssumption DEF Silent, Errand, NoKey, Time

\* Who opens a thread, stamps a message or finds another's thread changes no row.
LEMMA ErrandsStep ==
    ASSUME ChatInv, NEW p \in People,
           \/ \E q \in People : OpenDirect(p, q)
           \/ \E t \in Threads, m \in Texts : StampMessage(p, t, m)
           \/ Conflict(p)
    PROVE  ChatInv'
<1>1. ASSUME NEW q \in People, OpenDirect(p, q) PROVE ChatInv'
  <2>1. PICK r : r = [Silent EXCEPT !.op = "open", !.with = {p, q}, !.key = DirectKey(p, q)]
    OBVIOUS
  <2>2. r \in Errand /\ r.op = "open" /\ r.key = r.with
    BY <2>1, SilentIsErrand DEF Errand, DirectKey
  <2>3. person' = [person EXCEPT ![p] = r] /\ ticks' \in Time
    BY <1>1, <2>1 DEF OpenDirect, ChatInv, ChatTypeOK
  <2>4. UNCHANGED <<thread, readAt, text, atHand, late>>
    BY <1>1 DEF OpenDirect
  <2> QED BY <2>2, <2>3, <2>4, ErrandKeeps
<1>2. ASSUME NEW t \in Threads, NEW m \in Texts, StampMessage(p, t, m) PROVE ChatInv'
  <2>1. PICK r : r = [Silent EXCEPT !.op = "send", !.thread = t, !.text = m, !.at = ticks + 1]
    OBVIOUS
  <2>2. ticks < MaxTicks /\ ticks' = ticks + 1 /\ ticks \in Time
    BY <1>2 DEF StampMessage, ChatInv, ChatTypeOK
  <2>3. PICK at : at = ticks + 1
    OBVIOUS
  <2>4. at \in Time /\ at > 0 /\ ticks' \in Time
    BY <2>2, <2>3, ChatAssumption DEF Time
  <2>5. r = [Silent EXCEPT !.op = "send", !.thread = t, !.text = m, !.at = at]
    BY <2>1, <2>3
  <2>6. r \in Errand /\ r.op = "send" /\ r.at > 0 /\ r.text = m /\ r.thread = t
    BY <2>4, <2>5, SilentIsErrand DEF Errand
  <2>7. person' = [person EXCEPT ![p] = r]
    BY <1>2, <2>1 DEF StampMessage
  <2>8. UNCHANGED <<thread, readAt, text, atHand, late>>
    BY <1>2 DEF StampMessage
  <2> QED BY <2>4, <2>6, <2>7, <2>8, ErrandKeeps
<1>3. CASE Conflict(p)
  <2>1. person' = [person EXCEPT ![p] = Silent] /\ ticks' \in Time
    BY <1>3 DEF Conflict, ChatInv, ChatTypeOK
  <2>2. UNCHANGED <<thread, readAt, text, atHand, late>>
    BY <1>3 DEF Conflict
  <2> QED BY <2>1, <2>2, SilentIsErrand, ErrandKeeps
<1> QED BY <1>1, <1>2, <1>3

\* A direct thread is made for a pair that has none, and nobody is in it but they.
LEMMA CreateThreadStep ==
    ASSUME ChatInv, NEW p \in People, NEW t \in Threads, CreateThread(p, t)
    PROVE  ChatInv'
<1>1. PICK r : r = person[p]
  OBVIOUS
<1>2. r \in Errand /\ r.op = "open" /\ r.key = r.with
  BY <1>1 DEF CreateThread, ChatInv, ChatTypeOK, ThreadsInv, Errand
<1>3. /\ thread[t] = NoneYet /\ \A u \in Threads : thread[u].key # r.key
      /\ thread' = [thread EXCEPT ![t] = [kind |-> "direct", pair |-> r.with, key |-> r.key]]
      /\ readAt' = Joined(readAt, t, r.with, 0) /\ atHand' = Joined(atHand, t, r.with, {})
      /\ person' = [person EXCEPT ![p] = Silent]
      /\ UNCHANGED <<text, ticks, late>>
  BY <1>1 DEF CreateThread
<1>4. r.with \in SUBSET People
  BY <1>2 DEF Errand
<1>5. /\ DOMAIN readAt' = DOMAIN readAt \cup {<<t, q>> : q \in r.with}
      /\ DOMAIN readAt' \subseteq Threads \X People
      /\ \A x \in DOMAIN readAt' : readAt'[x] \in Time
      /\ DOMAIN atHand' = DOMAIN readAt'
      /\ \A x \in DOMAIN atHand' : atHand'[x] \subseteq Texts
      /\ UnreadUntilReadUnlessLate'
  BY <1>3, <1>4, JoinKeepsUnread
<1>6. person' \in [People -> Errand] /\ \A q \in People : person'[q] \in {person[q], Silent}
  BY <1>3, SilentIsErrand DEF ChatInv, ChatTypeOK, Errand
<1>7. ChatTypeOK'
  <2>1. thread' \in [Threads -> ThreadRows]
    BY <1>2, <1>3 DEF ChatInv, ChatTypeOK, ThreadRows, Errand, Kinds
  <2> QED BY <1>3, <1>5, <1>6, <2>1 DEF ChatInv, ChatTypeOK, Errand
<1>8. ThreadsInv'
  <2>1. MembersOf(t)' = MembersOf(t) \cup r.with
        /\ \A u \in Threads \ {t} : MembersOf(u)' = MembersOf(u)
    BY <1>4, <1>5, MembersAfter DEF ChatInv
  <2>2. MembersOf(t) = {}
    BY <1>3 DEF ChatInv, ThreadsInv, NoneYet
  <2>3. /\ thread'[t] = [kind |-> "direct", pair |-> r.with, key |-> r.key]
        /\ \A u \in Threads \ {t} : thread'[u] = thread[u]
    BY <1>3 DEF ChatInv, ChatTypeOK
  <2>4. ASSUME NEW u \in Threads \ {t}, thread[u].kind = "direct" PROVE thread[u].pair # r.with
    BY <1>2, <1>3, <2>4 DEF ChatInv, ThreadsInv
  <2>5. DirectIsTheirs'
    BY <2>1, <2>2, <2>3, <2>4 DEF ChatInv, ThreadsInv, DirectIsTheirs
  <2>6. \A q \in People : person'[q].op = "open" => person'[q].key = person'[q].with
    BY <1>6, SilentIsErrand DEF ChatInv, ThreadsInv
  <2> QED BY <1>2, <2>1, <2>3, <2>5, <2>6 DEF ChatInv, ThreadsInv
<1>9. StampsInv'
  BY <1>3, <1>6, SilentIsErrand DEF ChatInv, StampsInv
<1> QED BY <1>5, <1>7, <1>8, <1>9 DEF ChatInv

\* Whoever joins a group joins no direct thread.
LEMMA GroupStep ==
    ASSUME ChatInv, NEW p \in People, NEW t \in Threads, NEW others \in SUBSET People,
           CreateGroup(p, t, others) \/ AddMembers(p, t, others)
    PROVE  ChatInv'
<1>1. PICK ps \in SUBSET People :
         readAt' = Joined(readAt, t, ps, 0) /\ atHand' = Joined(atHand, t, ps, {})
  BY DEF CreateGroup, AddMembers
<1>2. UNCHANGED <<text, ticks, person, late>>
  BY DEF CreateGroup, AddMembers
<1>3. /\ thread'[t].kind = "group" /\ thread' \in [Threads -> ThreadRows]
      /\ \A u \in Threads \ {t} : thread'[u] = thread[u]
  <2>1. CASE CreateGroup(p, t, others)
    BY <2>1 DEF CreateGroup, ChatInv, ChatTypeOK, ThreadRows, Kinds
  <2>2. CASE AddMembers(p, t, others)
    BY <2>2 DEF AddMembers, MayJoin, ChatInv, ChatTypeOK
  <2> QED BY <2>1, <2>2
<1>4. /\ DOMAIN readAt' = DOMAIN readAt \cup {<<t, q>> : q \in ps}
      /\ DOMAIN readAt' \subseteq Threads \X People
      /\ \A x \in DOMAIN readAt' : readAt'[x] \in Time
      /\ DOMAIN atHand' = DOMAIN readAt'
      /\ \A x \in DOMAIN atHand' : atHand'[x] \subseteq Texts
      /\ UnreadUntilReadUnlessLate'
  BY <1>1, <1>2, JoinKeepsUnread
<1>5. ChatTypeOK'
  BY <1>2, <1>3, <1>4 DEF ChatInv, ChatTypeOK
<1>6. ThreadsInv'
  <2>1. \A u \in Threads \ {t} : MembersOf(u)' = MembersOf(u)
    BY <1>4, MembersAfter DEF ChatInv
  <2>2. DirectIsTheirs'
    BY <1>3, <2>1 DEF ChatInv, ThreadsInv, DirectIsTheirs
  <2> QED BY <1>2, <1>3, <2>1, <2>2 DEF ChatInv, ThreadsInv
<1>7. StampsInv'
  BY <1>2 DEF ChatInv, StampsInv
<1> QED BY <1>4, <1>5, <1>6, <1>7 DEF ChatInv

\* Whoever leaves a thread is told nothing more of it, the others what they were.
LEMMA LeaveThreadStep ==
    ASSUME ChatInv, NEW p \in People, NEW t \in Threads, LeaveThread(p, t)
    PROVE  ChatInv'
<1> DEFINE others == DOMAIN readAt \ {<<t, p>>}
<1>1. /\ readAt' = [x \in others |-> readAt[x]] /\ atHand' = [x \in others |-> atHand[x]]
      /\ late' = {y \in late : ~(y[2] = p /\ text[y[1]].in = t)}
      /\ UNCHANGED <<thread, text, ticks, person>>
  BY DEF LeaveThread
<1>2. DOMAIN readAt' = others /\ DOMAIN atHand' = others
  BY <1>1
<1>3. \A x \in others : readAt'[x] = readAt[x] /\ atHand'[x] = atHand[x]
  BY <1>1
<1>4. ChatTypeOK'
  BY <1>1, <1>2, <1>3 DEF ChatInv, ChatTypeOK
<1>5. ThreadsInv'
  <2>1. \A q \in People : person'[q].op = "open" => person'[q].key = person'[q].with
    BY <1>1 DEF ChatInv, ThreadsInv
  <2> QED BY <1>1, <1>2, <2>1, ThreadsStay
<1>6. StampsInv'
  BY <1>1 DEF ChatInv, StampsInv
<1>7. UnreadUntilReadUnlessLate'
  <2> SUFFICES ASSUME NEW m \in Texts, NEW q \in People,
                      (text[m] # Unwritten /\ text[m].by # q /\ Member(text[m].in, q))',
                      (<<m, q>> \notin late /\ m \notin atHand[text[m].in, q])'
               PROVE  Unread(m, q)'
    BY DEF UnreadUntilReadUnlessLate
  <2>1. <<text[m].in, q>> \in others /\ text' = text
    BY <1>1, <1>2 DEF Member
  <2>2. <<m, q>> \notin late
    BY <1>1, <2>1
  <2>3. Unread(m, q)
    BY <1>3, <2>1, <2>2 DEF ChatInv, UnreadUntilReadUnlessLate, Member
  <2> QED BY <1>3, <2>1, <2>3 DEF Unread
<1> QED BY <1>4, <1>5, <1>6, <1>7 DEF ChatInv

\* Whoever reads has everything that is stored at hand, and nobody else's rows move.
LEMMA MarkReadStep ==
    ASSUME ChatInv, NEW p \in People, NEW t \in Threads, MarkRead(p, t)
    PROVE  ChatInv'
<1>1. /\ ReadUpTo(t, p, ticks + 1, Stored(t)) /\ Member(t, p) /\ ticks' = ticks + 1
      /\ ticks < MaxTicks
      /\ UNCHANGED <<thread, text, person, late>>
  BY DEF MarkRead
<1>2. ticks + 1 \in Time
  BY <1>1, ChatAssumption DEF ChatInv, ChatTypeOK, Time
<1>3. Stored(t) \in SUBSET Texts
  BY DEF Stored
<1>4. /\ DOMAIN readAt' = DOMAIN readAt /\ DOMAIN atHand' = DOMAIN atHand
      /\ \A x \in DOMAIN readAt' : readAt'[x] \in Time /\ atHand'[x] \subseteq Texts
      /\ \A x \in DOMAIN readAt : x # <<t, p>> =>
             readAt'[x] = readAt[x] /\ atHand'[x] = atHand[x]
      /\ <<t, p>> \in DOMAIN readAt => atHand'[<<t, p>>] = Stored(t)
  BY <1>1, <1>2, <1>3, ReadMoves DEF ChatInv
<1>5. ChatTypeOK'
  BY <1>1, <1>2, <1>4 DEF ChatInv, ChatTypeOK
<1>6. ThreadsInv'
  <2>1. \A q \in People : person'[q].op = "open" => person'[q].key = person'[q].with
    BY <1>1 DEF ChatInv, ThreadsInv
  <2> QED BY <1>1, <1>4, <2>1, ThreadsStay
<1>7. StampsInv'
  BY <1>1 DEF ChatInv, StampsInv
<1>8. UnreadUntilReadUnlessLate'
  <2> SUFFICES ASSUME NEW m \in Texts, NEW q \in People,
                      (text[m] # Unwritten /\ text[m].by # q /\ Member(text[m].in, q))',
                      (<<m, q>> \notin late /\ m \notin atHand[text[m].in, q])'
               PROVE  Unread(m, q)'
    BY DEF UnreadUntilReadUnlessLate
  <2>1. PICK x : x = <<text[m].in, q>>
    OBVIOUS
  <2>2. x \in DOMAIN readAt /\ text' = text /\ late' = late
    BY <1>1, <1>4, <2>1 DEF Member
  <2>3. x # <<t, p>>
    BY <1>4, <2>1, <2>2 DEF Stored
  <2>4. readAt'[x] = readAt[x] /\ atHand'[x] = atHand[x]
    BY <1>4, <2>2, <2>3
  <2>5. Unread(m, q)
    BY <2>1, <2>2, <2>4 DEF ChatInv, UnreadUntilReadUnlessLate, Member
  <2> QED BY <2>1, <2>2, <2>4, <2>5 DEF Unread
<1> QED BY <1>5, <1>6, <1>7, <1>8 DEF ChatInv

\* Times are in order.
LEMMA TimesCompare ==
    ASSUME NEW x \in Time, NEW y \in Time
    PROVE  ~(x >= y) => y > x
  BY ChatAssumption DEF Time

\* A message is stored unread by everybody who had not read past its stamp.
LEMMA CommitStep ==
    ASSUME ChatInv, NEW p \in People, CommitMessage(p)
    PROVE  ChatInv'
<1>1. PICK r, t, m0 : r = person[p] /\ t = r.thread /\ m0 = r.text
  OBVIOUS
<1>2. r \in Errand /\ r.op = "send" /\ r.at > 0 /\ m0 \in Texts /\ t \in Threads
  BY <1>1 DEF CommitMessage, ChatInv, ChatTypeOK, StampsInv, Errand
<1>3. /\ text' = [text EXCEPT ![m0] = [in |-> t, by |-> p, at |-> r.at]]
      /\ ReadUpTo(t, p, r.at, Stored(t) \cup {m0})
      /\ late' = late \cup {<<m0, q>> : q \in {q \in MembersOf(t) : readAt[t, q] >= r.at}}
                      \cup {<<m, p>> : m \in {m \in Stored(t) : text[m].at > r.at}}
      /\ person' = [person EXCEPT ![p] = Silent]
      /\ UNCHANGED <<thread, ticks>>
  BY <1>1 DEF CommitMessage
<1>4. r.at \in Time /\ Stored(t) \cup {m0} \in SUBSET Texts
  BY <1>2 DEF Errand, Stored
<1>5. /\ DOMAIN readAt' = DOMAIN readAt /\ DOMAIN atHand' = DOMAIN atHand
      /\ \A x \in DOMAIN readAt' : readAt'[x] \in Time /\ atHand'[x] \subseteq Texts
      /\ \A x \in DOMAIN readAt : x # <<t, p>> =>
             readAt'[x] = readAt[x] /\ atHand'[x] = atHand[x]
      /\ <<t, p>> \in DOMAIN readAt => atHand'[<<t, p>>] = Stored(t) \cup {m0}
  BY <1>2, <1>3, <1>4, ReadMoves DEF ChatInv
<1>6. person' \in [People -> Errand] /\ \A q \in People : person'[q] \in {person[q], Silent}
  BY <1>3, SilentIsErrand DEF ChatInv, ChatTypeOK, Errand
<1>7. /\ text' \in [Texts -> TextRows]
      /\ text'[m0].in = t /\ text'[m0].by = p /\ text'[m0].at = r.at
      /\ \A m \in Texts \ {m0} : text'[m] = text[m]
  BY <1>2, <1>3, <1>4 DEF ChatInv, ChatTypeOK, TextRows
<1>8. ChatTypeOK'
  <2>1. late' \subseteq Texts \X People
    <3>1. {<<m0, q>> : q \in {q \in MembersOf(t) : readAt[t, q] >= r.at}} \subseteq Texts \X People
      <4>1. {q \in MembersOf(t) : readAt[t, q] >= r.at} \subseteq People
        BY DEF MembersOf
      <4>2. \A q \in People : <<m0, q>> \in Texts \X People
        BY <1>2
      <4> QED BY <4>1, <4>2, Zenon
    <3>2. {<<m, p>> : m \in {m \in Stored(t) : text[m].at > r.at}} \subseteq Texts \X People
      BY DEF Stored
    <3> QED BY <1>3, <3>1, <3>2 DEF ChatInv, ChatTypeOK
  <2> QED BY <1>3, <1>5, <1>6, <1>7, <2>1 DEF ChatInv, ChatTypeOK, Errand
<1>9. ThreadsInv'
  <2>1. \A q \in People : person'[q].op = "open" => person'[q].key = person'[q].with
    BY <1>6, SilentIsErrand DEF ChatInv, ThreadsInv
  <2> QED BY <1>3, <1>5, <2>1, ThreadsStay
<1>10. StampsInv'
  <2>1. \A m \in Texts : text'[m] # Unwritten => text'[m].at > 0
    BY <1>2, <1>7 DEF ChatInv, StampsInv
  <2>2. \A q \in People : person'[q].op = "send" =>
           person'[q].at > 0 /\ person'[q].text \in Texts /\ person'[q].thread \in Threads
    BY <1>6, SilentIsErrand DEF ChatInv, StampsInv
  <2> QED BY <2>1, <2>2 DEF StampsInv, Unwritten
<1>11. UnreadUntilReadUnlessLate'
  <2> SUFFICES ASSUME NEW m \in Texts, NEW q \in People,
                      (text[m] # Unwritten /\ text[m].by # q /\ Member(text[m].in, q))',
                      (<<m, q>> \notin late /\ m \notin atHand[text[m].in, q])'
               PROVE  Unread(m, q)'
    BY DEF UnreadUntilReadUnlessLate
  <2>1. CASE m = m0
    <3>1. q # p /\ <<t, q>> \in DOMAIN readAt /\ <<t, q>> # <<t, p>>
      BY <1>5, <1>7, <2>1 DEF Member
    <3>2. PICK before : before = readAt[<<t, q>>]
      OBVIOUS
    <3>3. ~(before >= r.at)
      BY <1>3, <2>1, <3>1, <3>2 DEF MembersOf, Member
    <3>4. before \in Time /\ readAt'[<<t, q>>] = before
      BY <1>5, <3>1, <3>2 DEF ChatInv, ChatTypeOK
    <3>5. r.at > before
      BY <1>4, <3>3, <3>4, TimesCompare
    <3> QED BY <1>7, <2>1, <3>1, <3>4, <3>5 DEF Unread
  <2>2. CASE m # m0
    <3>1. PICK x : x = <<text[m].in, q>>
      OBVIOUS
    <3>2. x \in DOMAIN readAt /\ text'[m] = text[m] /\ <<m, q>> \notin late
      BY <1>3, <1>5, <1>7, <2>2, <3>1 DEF Member
    <3>3. x # <<t, p>>
      BY <1>5, <3>1, <3>2 DEF Stored
    <3>4. readAt'[x] = readAt[x] /\ atHand'[x] = atHand[x]
      BY <1>5, <3>2, <3>3
    <3>5. Unread(m, q)
      BY <3>1, <3>2, <3>4 DEF ChatInv, UnreadUntilReadUnlessLate, Member, Unwritten
    <3> QED BY <3>1, <3>2, <3>4, <3>5 DEF Unread
  <2> QED BY <2>1, <2>2
<1> QED BY <1>8, <1>9, <1>10, <1>11 DEF ChatInv

\* Every step keeps it.
LEMMA ChatStep ==
    ASSUME ChatInv, [ChatNext]_chatVars
    PROVE  ChatInv'
<1>1. CASE UNCHANGED chatVars
  BY <1>1 DEF chatVars, ChatInv, ChatTypeOK, ThreadsInv, StampsInv, UnreadUntilReadUnlessLate,
              DirectIsTheirs, MembersOf, Member, Unread
<1>2. CASE ChatNext
  BY <1>2, ErrandsStep, CreateThreadStep, GroupStep, LeaveThreadStep, MarkReadStep, CommitStep
     DEF ChatNext
<1> QED BY <1>1, <1>2

-----------------------------------------------------------------------------
(***************************************************************************)
(* Who owns the agency.  The total of the others, which a request reads    *)
(* before it writes a share, is the total without the row it writes; and   *)
(* no write that does not overtake it makes that total more.  So what      *)
(* fitted when it was read fits when it is written, and fits again among   *)
(* those only whose last write was checked.                                *)
(***************************************************************************)

\* The total of the holders hs, of the rows f.
TotalOf(f, hs) == MapThenSumSet(LAMBDA h : f[h].share, hs)

\* The share of everybody of whom there is a row.
SharesOf(f) == [h \in Holders |-> f[h].share]

\* What adds the shares up is their total.
LEMMA TotalIs ==
    ASSUME NEW f, NEW hs \in SUBSET Holders, NEW g, AddsUp(g, SharesOf(f), SUBSET Holders)
    PROVE  TotalOf(f, hs) = g[hs]
<1> DEFINE F(x) == [s \in SUBSET hs |-> IF s = {} THEN 0
                                        ELSE LET y == CHOOSE z \in s : TRUE
                                             IN  f[y].share + x[s \ {y}]]
           c == CHOOSE x : x = F(x)
           h == [s \in SUBSET hs |-> g[s]]
<1>1. IsFiniteSet(hs)
  BY SharesAssumption, FS_Subset
<1>2. ASSUME NEW s \in SUBSET hs
      PROVE  g[s] = IF s = {} THEN 0
                    ELSE LET y == CHOOSE z \in s : TRUE IN f[y].share + g[s \ {y}]
  BY DEF AddsUp, SharesOf
<1>3. h = F(h)
  <2>1. ASSUME NEW s \in SUBSET hs
        PROVE  h[s] = IF s = {} THEN 0
                      ELSE LET y == CHOOSE z \in s : TRUE IN f[y].share + h[s \ {y}]
    BY <1>2
  <2> QED BY <2>1
<1>4. c = F(c)
  BY <1>3
<1>5. TotalOf(f, hs) = c[hs]
  BY DEF TotalOf, MapThenSumSet, MapThenFoldSet
<1>6. AddsUp(c, SharesOf(f), SUBSET hs)
  <2> HIDE DEF c
  <2> SUFFICES ASSUME NEW s \in SUBSET hs
               PROVE  c[s] = IF s = {} THEN 0
                             ELSE LET y == CHOOSE z \in s : TRUE IN SharesOf(f)[y] + c[s \ {y}]
    BY DEF AddsUp
  <2>1. c[s] = F(c)[s]
    <3> HIDE DEF F
    <3> QED BY <1>4
  <2> QED BY <2>1 DEF SharesOf
<1>7. AddsUp(g, SharesOf(f), SUBSET hs)
  BY DEF AddsUp
<1> HIDE DEF c
<1>8. c[hs] = g[hs]
  BY <1>1, <1>6, <1>7, OneSum
<1> QED BY <1>5, <1>8

\* A total is of integers, taken in any order.
LEMMA TotalAdds ==
    ASSUME NEW f, SharesOf(f) \in [Holders -> Int], NEW hs \in SUBSET Holders
    PROVE  /\ TotalOf(f, hs) \in Int
           /\ \A h \in hs : TotalOf(f, hs) = f[h].share + TotalOf(f, hs \ {h})
<1>1. PICK g \in [SUBSET Holders -> Int] : AddsUp(g, SharesOf(f), SUBSET Holders)
  BY SharesAssumption, SomethingAddsUp, Zenon
<1>2. InAnyOrder(g, SharesOf(f), Holders)
  BY <1>1, SharesAssumption, AnyOrder
<1>3. \A s \in SUBSET Holders : TotalOf(f, s) = g[s]
  BY <1>1, TotalIs
<1>4. ASSUME NEW h \in hs PROVE TotalOf(f, hs) = f[h].share + TotalOf(f, hs \ {h})
  <2>1. g[hs] = SharesOf(f)[h] + g[hs \ {h}]
    BY <1>2 DEF InAnyOrder
  <2>2. hs \ {h} \in SUBSET Holders
    OBVIOUS
  <2> QED BY <1>3, <2>1, <2>2 DEF SharesOf
<1> QED BY <1>1, <1>3, <1>4

\* A total is of the shares of those it is the total of.
LEMMA TotalDepends ==
    ASSUME NEW f, NEW e, SharesOf(f) \in [Holders -> Int], SharesOf(e) \in [Holders -> Int],
           NEW hs \in SUBSET Holders, \A h \in hs : e[h].share = f[h].share
    PROVE  TotalOf(e, hs) = TotalOf(f, hs)
<1>1. PICK g \in [SUBSET Holders -> Int] : AddsUp(g, SharesOf(f), SUBSET Holders)
  BY SharesAssumption, SomethingAddsUp, Zenon
<1>2. PICK k \in [SUBSET Holders -> Int] : AddsUp(k, SharesOf(e), SUBSET Holders)
  BY SharesAssumption, SomethingAddsUp, Zenon
<1>3. TotalOf(f, hs) = g[hs] /\ TotalOf(e, hs) = k[hs]
  BY <1>1, <1>2, TotalIs
<1>4. \A x \in hs : SharesOf(f)[x] = SharesOf(e)[x]
  BY DEF SharesOf
<1>5. AddsUp(g, SharesOf(f), SUBSET hs) /\ AddsUp(k, SharesOf(e), SUBSET hs)
  BY <1>1, <1>2 DEF AddsUp
<1>6. g[hs] = k[hs]
  BY <1>4, <1>5, SharesAssumption, OneSum
<1> QED BY <1>3, <1>6

Plan == [op : {"none", "create", "update", "share", "activate", "remove", "pay"},
         on : Holders \cup {NoHolder}, row : HolderRows, stale : BOOLEAN]

SharesTyped ==
    /\ holder \in [Holders -> HolderRows] /\ paidOut \in [Holders -> Nat]
    /\ partner \in [Partners -> Plan] /\ unchecked \subseteq Holders

\* Those of hs who count, by the rows f, and what they hold.
CountedOf(f, hs) == {h \in hs : f[h].is = "kept" /\ f[h].active}
HeldBy(f, hs)    == TotalOf(f, CountedOf(f, hs))

\* What the request r has found, for as long as nobody has overtaken it.
Agreed(r) ==
    /\ r.op = "create" => r.row.is = "kept"
    /\ GivesShare(r) /\ r.row.active => HeldBy(holder, Holders \ {r.on}) + r.row.share <= 100
    /\ r.op = "share" => r.row.active = holder[r.on].active
    /\ r.op \in {"update", "share", "pay"} => Kept(r.on)
    /\ r.op = "remove" => paidOut[r.on] = 0

PlansHold ==
    \A p \in Partners : partner[p].op # "none" =>
        partner[p].on \in Holders /\ (~partner[p].stale => Agreed(partner[p]))

OwnedOnce ==
    /\ HeldBy(holder, Holders \ unchecked) <= 100
    /\ \A h \in Holders \ unchecked : paidOut[h] > 0 => Kept(h)

SharesInv == SharesTyped /\ OwnedOnce /\ PlansHold

\* The shares of the rows on file are numbers.
LEMMA SharesAreNumbers ==
    ASSUME NEW f \in [Holders -> HolderRows]
    PROVE  /\ SharesOf(f) \in [Holders -> Int]
           /\ \A h \in Holders : f[h].share \in Int /\ f[h].share >= 0
<1>1. \A n \in Percents : n \in Int /\ n >= 0
  BY SharesAssumption
<1>2. \A h \in Holders : f[h].share \in Percents
  BY DEF HolderRows
<1> QED BY <1>1, <1>2 DEF SharesOf

\* What a row counts for is a number, and so is a total.
LEMMA CountsAreNumbers ==
    ASSUME NEW f \in [Holders -> HolderRows]
    PROVE  /\ \A h \in Holders : Counts(f[h]) \in Int /\ Counts(f[h]) >= 0
           /\ \A hs \in SUBSET Holders : HeldBy(f, hs) \in Int
<1>1. /\ SharesOf(f) \in [Holders -> Int]
      /\ \A hs \in SUBSET Holders : CountedOf(f, hs) \in SUBSET Holders
  BY SharesAreNumbers DEF CountedOf
<1>2. \A hs \in SUBSET Holders : HeldBy(f, hs) \in Int
  BY <1>1, TotalAdds DEF HeldBy
<1>3. \A h \in Holders : Counts(f[h]) \in Int /\ Counts(f[h]) >= 0
  BY SharesAreNumbers DEF Counts
<1> QED BY <1>2, <1>3

\* Of one holder more, the total is more by what that row counts.
LEMMA HeldAdds ==
    ASSUME NEW f \in [Holders -> HolderRows], NEW hs \in SUBSET Holders, NEW x \in Holders \ hs
    PROVE  HeldBy(f, hs \cup {x}) = Counts(f[x]) + HeldBy(f, hs)
<1> DEFINE C == CountedOf(f, hs)
<1>1. /\ SharesOf(f) \in [Holders -> Int] /\ C \in SUBSET Holders /\ x \notin C
      /\ f[x].share \in Int /\ f[x].share >= 0
  BY SharesAreNumbers DEF CountedOf
<1>2. HeldBy(f, hs) = TotalOf(f, C) /\ TotalOf(f, C) \in Int
  BY <1>1, TotalAdds DEF HeldBy
<1>3. CASE f[x].is = "kept" /\ f[x].active
  <2>1. CountedOf(f, hs \cup {x}) = C \cup {x} /\ Counts(f[x]) = f[x].share
    BY <1>3 DEF CountedOf, Counts
  <2>2. C \cup {x} \in SUBSET Holders /\ (C \cup {x}) \ {x} = C
    BY <1>1
  <2>3. TotalOf(f, C \cup {x}) = f[x].share + TotalOf(f, (C \cup {x}) \ {x})
    <3> HIDE DEF C
    <3> QED BY <1>1, <2>2, TotalAdds
  <2> QED BY <1>1, <1>2, <2>1, <2>2, <2>3 DEF HeldBy
<1>4. CASE ~(f[x].is = "kept" /\ f[x].active)
  <2>1. CountedOf(f, hs \cup {x}) = C /\ Counts(f[x]) = 0
    BY <1>4 DEF CountedOf, Counts
  <2> QED BY <1>2, <2>1 DEF HeldBy
<1> QED BY <1>3, <1>4

\* Nobody holds nothing.
LEMMA HeldByNobody == ASSUME NEW f \in [Holders -> HolderRows] PROVE HeldBy(f, {}) = 0
<1>1. PICK g \in [SUBSET Holders -> Int] : AddsUp(g, SharesOf(f), SUBSET Holders)
  BY SharesAreNumbers, SharesAssumption, SomethingAddsUp, Zenon
<1>2. TotalOf(f, {}) = g[{}] /\ g[{}] = 0
  <2>1. TotalOf(f, {}) = g[{}]
    BY <1>1, TotalIs
  <2>2. g[{}] = 0
    BY <1>1 DEF AddsUp
  <2> QED BY <2>1, <2>2
<1>3. CountedOf(f, {}) = {}
  BY DEF CountedOf
<1> QED BY <1>2, <1>3 DEF HeldBy

\* Of some of them, each of whom counts for no more, the total is no more.
LEMMA HeldIsLess ==
    ASSUME NEW f \in [Holders -> HolderRows], NEW e \in [Holders -> HolderRows],
           NEW hs \in SUBSET Holders, NEW some \in SUBSET hs,
           \A h \in some : Counts(e[h]) <= Counts(f[h])
    PROVE  /\ HeldBy(e, some) \in Int /\ HeldBy(f, hs) \in Int
           /\ HeldBy(e, some) <= HeldBy(f, hs)
<1> DEFINE T == {s \in SUBSET hs : /\ HeldBy(e, some \cap s) \in Int /\ HeldBy(f, s) \in Int
                                   /\ HeldBy(e, some \cap s) <= HeldBy(f, s)}
<1>1. IsFiniteSet(hs)
  BY SharesAssumption, FS_Subset
<1>2. {} \in T
  <2>1. some \cap {} = {} /\ HeldBy(e, {}) = 0 /\ HeldBy(f, {}) = 0
    BY HeldByNobody
  <2> QED BY <2>1
<1>3. ASSUME NEW s \in SUBSET hs, NEW x \in hs \ s, s \in T
      PROVE  s \cup {x} \in T
  <2>1. /\ HeldBy(e, some \cap s) \in Int /\ HeldBy(f, s) \in Int
        /\ HeldBy(e, some \cap s) <= HeldBy(f, s)
    BY <1>3
  <2>2. /\ x \in Holders \ s /\ s \in SUBSET Holders
        /\ some \cap s \in SUBSET Holders /\ x \in Holders \ (some \cap s)
    OBVIOUS
  <2>3. /\ Counts(f[x]) \in Int /\ Counts(f[x]) >= 0 /\ Counts(e[x]) \in Int
        /\ HeldBy(f, s \cup {x}) = Counts(f[x]) + HeldBy(f, s)
        /\ HeldBy(e, (some \cap s) \cup {x}) = Counts(e[x]) + HeldBy(e, some \cap s)
    BY <2>2, HeldAdds, CountsAreNumbers
  <2>4. /\ HeldBy(e, some \cap (s \cup {x})) \in Int /\ HeldBy(f, s \cup {x}) \in Int
        /\ HeldBy(e, some \cap (s \cup {x})) <= HeldBy(f, s \cup {x})
    <3>1. CASE x \in some
      <4>1. some \cap (s \cup {x}) = (some \cap s) \cup {x} /\ Counts(e[x]) <= Counts(f[x])
        BY <3>1
      <4>2. HeldBy(e, some \cap (s \cup {x})) = Counts(e[x]) + HeldBy(e, some \cap s)
        BY <2>3, <4>1
      <4> HIDE DEF T
      <4> QED BY <2>1, <2>3, <4>1, <4>2
    <3>2. CASE x \notin some
      <4>1. some \cap (s \cup {x}) = some \cap s
        BY <3>2
      <4>2. HeldBy(e, some \cap (s \cup {x})) = HeldBy(e, some \cap s)
        BY <4>1
      <4> HIDE DEF T
      <4> QED BY <2>1, <2>3, <4>2
    <3> QED BY <3>1, <3>2
  <2>5. s \cup {x} \in SUBSET hs
    OBVIOUS
  <2> QED BY <2>4, <2>5
<1>4. hs \in T
  <2> HIDE DEF T
  <2> QED BY <1>1, <1>2, <1>3, OneByOne
<1>5. some \cap hs = some
  OBVIOUS
<1> QED BY <1>4, <1>5

\* The totals the model takes are the ones spoken of here.
LEMMA TotalIsOf ==
    /\ Total(Holding \ unchecked) = HeldBy(holder, Holders \ unchecked)
    /\ \A h \in Holders : Total(OthersOf(h)) = HeldBy(holder, Holders \ {h})
<1>1. \A hs : Total(hs) = TotalOf(holder, hs)
  BY DEF Total, TotalOf
<1>2. Holding \ unchecked = CountedOf(holder, Holders \ unchecked)
  BY DEF Holding, Kept, CountedOf
<1>3. \A h \in Holders : OthersOf(h) = CountedOf(holder, Holders \ {h})
  BY DEF OthersOf, Holding, Kept, CountedOf
<1> QED BY <1>1, <1>2, <1>3 DEF HeldBy

\* A share that fits leaves the whole at most.
LEMMA FitsIs ==
    ASSUME NEW h \in Holders, NEW share \in Percents
    PROVE  Fits(h, share) => HeldBy(holder, Holders \ {h}) + share <= 100
  BY TotalIsOf DEF Fits

\* Nobody owns anything.
LEMMA SharesBegin == SharesInit => SharesInv
<1> SUFFICES ASSUME SharesInit PROVE SharesInv
  OBVIOUS
<1> USE DEF SharesInit
<1>1. NotAHolder \in HolderRows /\ OffDuty \in Plan /\ OffDuty.op = "none"
  BY SharesAssumption DEF NotAHolder, HolderRows, OffDuty, Plan
<1>2. SharesTyped
  BY <1>1 DEF SharesTyped
<1>3. CountedOf(holder, Holders \ unchecked) = {} /\ CountedOf(holder, {}) = {}
  BY DEF CountedOf, NotAHolder
<1>4. HeldBy(holder, Holders \ unchecked) = 0
  <2>1. HeldBy(holder, {}) = 0
    BY <1>2, HeldByNobody DEF SharesTyped
  <2> QED BY <1>3, <2>1 DEF HeldBy
<1>5. OwnedOnce
  BY <1>4 DEF OwnedOnce
<1>6. PlansHold
  BY <1>1 DEF PlansHold
<1> QED BY <1>2, <1>5, <1>6 DEF SharesInv

\* A request that begins changes no row, and has just found what it found.
LEMMA ProposeKeeps ==
    ASSUME SharesInv, NEW p \in Partners, NEW r \in Plan, Propose(p, r),
           r.op # "none", r.on \in Holders, Agreed(r)
    PROVE  SharesInv'
<1>1. /\ partner' = [partner EXCEPT ![p] = r]
      /\ holder' = holder /\ paidOut' = paidOut /\ unchecked' = unchecked
  BY DEF Propose
<1>2. SharesTyped'
  BY <1>1 DEF SharesInv, SharesTyped
<1>3. OwnedOnce'
  BY <1>1 DEF SharesInv, OwnedOnce, Kept
<1>4. PlansHold'
  <2> SUFFICES ASSUME NEW q \in Partners, (partner[q].op # "none")'
               PROVE  (/\ partner[q].on \in Holders
                       /\ ~partner[q].stale => Agreed(partner[q]))'
    BY DEF PlansHold
  <2>1. PICK x : x = partner'[q]
    OBVIOUS
  <2>2. x.on \in Holders /\ (~x.stale => Agreed(x))
    BY <1>1, <2>1 DEF SharesInv, SharesTyped, PlansHold
  <2>3. Agreed(x) => Agreed(x)'
    BY <1>1 DEF Agreed, GivesShare, Kept
  <2> QED BY <1>1, <2>1, <2>2, <2>3
<1> QED BY <1>2, <1>3, <1>4 DEF SharesInv

\* A request without anything yet, and a row it may give.
LEMMA PlansAre == OffDuty \in Plan /\ NotAHolder \in HolderRows /\ OffDuty.row = NotAHolder
  BY SharesAssumption DEF NotAHolder, HolderRows, OffDuty, Plan

\* Whoever proposes has found what a proposal rests on.
LEMMA ProposalsStep ==
    ASSUME SharesInv, NEW p \in Partners, NEW h \in Holders,
           \/ CreateHolder(p, h) \/ UpdateShare(p, h) \/ SetActive(p, h) \/ RemoveHolder(p, h)
           \/ CreateDistribution(p, h)
    PROVE  SharesInv'
<1>1. OffDuty \in Plan /\ NotAHolder \in HolderRows /\ OffDuty.row = NotAHolder
  BY PlansAre
<1>2. CASE CreateHolder(p, h)
  <2>1. PICK share \in Percents :
           /\ Fits(h, share)
           /\ Propose(p, [OffDuty EXCEPT !.op = "create", !.on = h,
                             !.row = [is |-> "kept", share |-> share, active |-> TRUE]])
    BY <1>2, Zenon DEF CreateHolder
  <2>2. PICK row : row = [is |-> "kept", share |-> share, active |-> TRUE]
    OBVIOUS
  <2>3. PICK r : r = [OffDuty EXCEPT !.op = "create", !.on = h, !.row = row]
    OBVIOUS
  <2>4. row \in HolderRows /\ row.is = "kept" /\ row.share = share
    BY <2>2 DEF HolderRows
  <2>5. r \in Plan /\ r.op = "create" /\ r.on = h /\ r.row = row
    BY <1>1, <2>3, <2>4 DEF Plan
  <2>6. HeldBy(holder, Holders \ {h}) + share <= 100
    BY <2>1, FitsIs
  <2>7. Agreed(r)
    BY <2>4, <2>5, <2>6 DEF Agreed, GivesShare
  <2>8. Propose(p, r)
    BY <2>1, <2>2, <2>3
  <2> QED BY <2>5, <2>7, <2>8, ProposeKeeps
<1>3. CASE UpdateShare(p, h)
  <2>1. PICK share \in Percents, active \in BOOLEAN, op \in {"update", "share"} :
           /\ op = "share" => active = holder[h].active
           /\ active => Fits(h, share)
           /\ Propose(p, [OffDuty EXCEPT !.op = op, !.on = h, !.row.share = share,
                                         !.row.active = active])
    BY <1>3, Zenon DEF UpdateShare
  <2>2. PICK r : r = [OffDuty EXCEPT !.op = op, !.on = h, !.row.share = share,
                                     !.row.active = active]
    OBVIOUS
  <2>3. r \in Plan /\ r.op = op /\ r.on = h /\ r.row.share = share /\ r.row.active = active
    BY <1>1, <2>2 DEF Plan, HolderRows
  <2>4. active => HeldBy(holder, Holders \ {h}) + share <= 100
    BY <2>1, FitsIs
  <2>5. Kept(h)
    BY <1>3 DEF UpdateShare
  <2>6. Agreed(r)
    BY <2>1, <2>3, <2>4, <2>5 DEF Agreed, GivesShare
  <2>7. Propose(p, r)
    BY <2>1, <2>2
  <2> QED BY <2>3, <2>6, <2>7, ProposeKeeps
<1>4. CASE SetActive(p, h)
  <2>1. PICK active \in BOOLEAN :
           Propose(p, [OffDuty EXCEPT !.op = "activate", !.on = h, !.row.active = active])
    BY <1>4, Zenon DEF SetActive
  <2>2. PICK r : r = [OffDuty EXCEPT !.op = "activate", !.on = h, !.row.active = active]
    OBVIOUS
  <2>3. r \in Plan /\ r.op = "activate" /\ r.on = h
    BY <1>1, <2>2 DEF Plan, HolderRows
  <2>4. Agreed(r)
    BY <2>3 DEF Agreed, GivesShare
  <2>5. Propose(p, r)
    BY <2>1, <2>2
  <2> QED BY <2>3, <2>4, <2>5, ProposeKeeps
<1>5. CASE RemoveHolder(p, h) \/ CreateDistribution(p, h)
  <2>1. PICK op \in {"remove", "pay"} :
           /\ op = "remove" => paidOut[h] = 0
           /\ Kept(h) /\ Propose(p, [OffDuty EXCEPT !.op = op, !.on = h])
    BY <1>5 DEF RemoveHolder, CreateDistribution
  <2>2. PICK r : r = [OffDuty EXCEPT !.op = op, !.on = h]
    OBVIOUS
  <2>3. r \in Plan /\ r.op = op /\ r.on = h
    BY <1>1, <2>2 DEF Plan
  <2>4. Agreed(r)
    BY <2>1, <2>3 DEF Agreed, GivesShare
  <2>5. Propose(p, r)
    BY <2>1, <2>2
  <2> QED BY <2>3, <2>4, <2>5, ProposeKeeps
<1> QED BY <1>2, <1>3, <1>4, <1>5

\* What the write leaves of a row.
LEMMA RowAfter ==
    ASSUME SharesTyped, NEW r \in Plan, r.op # "none", r.on \in Holders
    PROVE  /\ NewRow(r) \in HolderRows
           /\ r.op = "create" => NewRow(r) = r.row
           /\ r.op = "remove" => NewRow(r).is = "removed"
           /\ r.op \notin {"create", "remove"} =>
                /\ NewRow(r).is = holder[r.on].is
                /\ NewRow(r).share =
                      IF r.op \in {"update", "share"} THEN r.row.share ELSE holder[r.on].share
                /\ NewRow(r).active =
                      IF r.op \in {"update", "activate"} THEN r.row.active ELSE holder[r.on].active
<1>1. holder[r.on] \in HolderRows /\ r.row \in HolderRows
  BY DEF SharesTyped, Plan
<1>2. CASE r.op = "create"
  BY <1>1, <1>2 DEF NewRow
<1>3. CASE r.op = "remove"
  BY <1>1, <1>3 DEF NewRow, HolderRows
<1>4. CASE r.op \notin {"create", "remove"}
  <2>1. NewRow(r) = [holder[r.on] EXCEPT
                       !.share  = IF r.op \in {"update", "share"} THEN r.row.share ELSE @,
                       !.active = IF r.op \in {"update", "activate"} THEN r.row.active ELSE @]
    BY <1>4 DEF NewRow
  <2> QED BY <1>1, <1>4, <2>1 DEF HolderRows
<1> QED BY <1>2, <1>3, <1>4

\* What is written of a row counts for no more than the row did, unless a share is given in it or
\* it is brought back.
LEMMA WrittenCounts ==
    ASSUME SharesTyped, NEW r \in Plan, r.op # "none", r.on \in Holders,
           ~GivesShare(r), ~BringsBack(r)
    PROVE  Counts(NewRow(r)) <= Counts(holder[r.on])
<1>1. /\ holder[r.on] \in HolderRows /\ holder[r.on].share \in Int /\ holder[r.on].share >= 0
  BY SharesAreNumbers DEF SharesTyped
<1>2. r.op \in {"activate", "remove", "pay"}
  BY DEF Plan, GivesShare
<1>3. /\ r.op = "remove" => NewRow(r).is = "removed"
      /\ r.op # "remove" => NewRow(r).is = holder[r.on].is
                            /\ NewRow(r).share = holder[r.on].share
      /\ r.op = "pay" => NewRow(r).active = holder[r.on].active
      /\ r.op = "activate" => NewRow(r).active = r.row.active
  BY <1>2, RowAfter
<1>4. CASE r.op = "remove"
  BY <1>1, <1>3, <1>4 DEF Counts
<1>5. CASE r.op # "remove"
  <2>1. NewRow(r).active => holder[r.on].active
    BY <1>2, <1>3, <1>5 DEF BringsBack
  <2> QED BY <1>1, <1>3, <1>5, <2>1 DEF Counts
<1> QED BY <1>4, <1>5

\* What a request has found is still so after a write that does not overtake it.
LEMMA StillAgreed ==
    ASSUME SharesTyped, NEW p \in Partners, WriteShare(p),
           partner[p] \in Plan, partner[p].on \in Holders, holder' \in [Holders -> HolderRows],
           NEW y \in Plan, y.on \in Holders, Agreed(y), ~Overtakes(partner[p], y)
    PROVE  Agreed(y)'
<1>1. PICK r \in Plan : r = partner[p]
  OBVIOUS
<1>2. PICK new : new = NewRow(r)
  OBVIOUS
<1>3. /\ r.op # "none" /\ r.on \in Holders /\ (r.op = "create" => holder[r.on] = NotAHolder)
      /\ holder' = [holder EXCEPT ![r.on] = new]
      /\ paidOut' = IF r.op = "pay" THEN [paidOut EXCEPT ![r.on] = @ + 1] ELSE paidOut
  BY <1>1, <1>2 DEF WriteShare
<1>4. /\ holder'[r.on] = new /\ \A h \in Holders \ {r.on} : holder'[h] = holder[h]
  BY <1>3 DEF SharesTyped
<1>5. ASSUME GivesShare(y)
      PROVE  /\ r.op = "pay" \/ r.on # y.on
             /\ Counts(new) <= Counts(holder[r.on])
  <2>1. CASE r.op = "pay"
    BY <1>2, <1>3, <2>1, WrittenCounts DEF GivesShare, BringsBack
  <2>2. CASE r.op # "pay"
    <3>1. Counts(new) \in Int /\ Counts(holder[r.on]) \in Int
      BY <1>3, <1>4, CountsAreNumbers DEF SharesTyped
    <3> QED BY <1>1, <1>2, <1>5, <2>2, <3>1 DEF Overtakes
  <2> QED BY <2>1, <2>2
<1>6. ASSUME GivesShare(y)
      PROVE  HeldBy(holder', Holders \ {y.on}) <= HeldBy(holder, Holders \ {y.on})
  <2>1. \A h \in Holders \ {y.on} : Counts(holder'[h]) <= Counts(holder[h])
    <3> SUFFICES ASSUME NEW h \in Holders PROVE Counts(holder'[h]) <= Counts(holder[h])
      OBVIOUS
    <3>1. CASE h = r.on
      BY <1>4, <1>5, <1>6, <3>1
    <3>2. CASE h # r.on
      <4>1. Counts(holder[h]) \in Int
        BY CountsAreNumbers DEF SharesTyped
      <4> QED BY <1>4, <3>2, <4>1
    <3> QED BY <3>1, <3>2
  <2> QED BY <2>1, HeldIsLess DEF SharesTyped
<1>7. r.op = "pay" => new.is = holder[r.on].is /\ new.active = holder[r.on].active
  BY <1>2, <1>3, RowAfter
<1>8. GivesShare(y) /\ y.row.active => HeldBy(holder', Holders \ {y.on}) + y.row.share <= 100
  <2> SUFFICES ASSUME GivesShare(y), y.row.active
               PROVE  HeldBy(holder', Holders \ {y.on}) + y.row.share <= 100
    OBVIOUS
  <2>1. HeldBy(holder', Holders \ {y.on}) \in Int /\ HeldBy(holder, Holders \ {y.on}) \in Int
    BY CountsAreNumbers DEF SharesTyped
  <2>2. y.row.share \in Int
    <3>1. y.row.share \in Percents
      BY DEF Plan, HolderRows
    <3>2. Percents \subseteq Int
      BY SharesAssumption
    <3> QED BY <3>1, <3>2
  <2>3. HeldBy(holder, Holders \ {y.on}) + y.row.share <= 100
    BY DEF Agreed
  <2> QED BY <1>6, <2>1, <2>2, <2>3
<1>9. y.op = "share" => y.row.active = holder'[y.on].active
  <2>1. y.op = "share" => GivesShare(y) /\ y.row.active = holder[y.on].active
    BY DEF GivesShare, Agreed
  <2>2. CASE y.on = r.on
    BY <1>4, <1>5, <1>7, <2>1, <2>2
  <2>3. CASE y.on # r.on
    BY <1>4, <2>1, <2>3
  <2> QED BY <2>2, <2>3
<1>10. y.op \in {"update", "share", "pay"} => holder'[y.on].is = "kept"
  <2> SUFFICES ASSUME y.op \in {"update", "share", "pay"} PROVE holder'[y.on].is = "kept"
    OBVIOUS
  <2>1. holder[y.on].is = "kept"
    BY DEF Agreed, Kept
  <2>2. CASE y.on = r.on
    <3>1. r.op # "create"
      BY <1>3, <2>1, <2>2 DEF NotAHolder
    <3>2. r.op # "remove"
      BY <1>1, <1>5, <2>2 DEF Overtakes, GivesShare
    <3>3. new.is = holder[r.on].is
      BY <1>2, <1>3, <3>1, <3>2, RowAfter
    <3> QED BY <1>4, <2>1, <2>2, <3>3
  <2>3. CASE y.on # r.on
    BY <1>4, <2>1, <2>3
  <2> QED BY <2>2, <2>3
<1>11. y.op = "remove" => paidOut'[y.on] = 0
  <2> SUFFICES ASSUME y.op = "remove" PROVE paidOut'[y.on] = 0
    OBVIOUS
  <2>1. paidOut[y.on] = 0 /\ ~(r.op = "pay" /\ r.on = y.on)
    BY <1>1 DEF Agreed, Overtakes
  <2> QED BY <1>3, <2>1 DEF SharesTyped
<1>12. y.op = "create" => y.row.is = "kept"
  BY DEF Agreed
<1> QED BY <1>8, <1>9, <1>10, <1>11, <1>12 DEF Agreed, GivesShare, Kept

\* The write keeps what those hold whose share was checked below the whole.
LEMMA WriteShareStep ==
    ASSUME SharesInv, NEW p \in Partners, WriteShare(p)
    PROVE  SharesInv'
<1>1. PICK r : r = partner[p]
  OBVIOUS
<1>2. r \in Plan /\ r.op # "none" /\ r.on \in Holders /\ SharesTyped
  BY <1>1 DEF WriteShare, SharesInv, SharesTyped, PlansHold
<1>3. PICK new : new = NewRow(r)
  OBVIOUS
<1>4. /\ r.op = "create" => holder[r.on] = NotAHolder
      /\ holder' = [holder EXCEPT ![r.on] = new]
      /\ paidOut' = IF r.op = "pay" THEN [paidOut EXCEPT ![r.on] = @ + 1] ELSE paidOut
      /\ unchecked' = CASE r.stale \/ BringsBack(r) -> unchecked \cup {r.on}
                        [] GivesShare(r) /\ ~r.stale -> unchecked \ {r.on}
                        [] OTHER                     -> unchecked
      /\ partner' = [q \in Partners |->
                        IF q = p THEN OffDuty
                        ELSE [partner[q] EXCEPT !.stale = @ \/ Overtakes(r, partner[q])]]
  BY <1>1, <1>3 DEF WriteShare
<1>5. /\ new \in HolderRows
      /\ r.op = "create" => new = r.row
      /\ r.op = "remove" => new.is = "removed"
      /\ r.op \notin {"create", "remove"} =>
           /\ new.is = holder[r.on].is
           /\ new.share = IF r.op \in {"update", "share"} THEN r.row.share ELSE holder[r.on].share
           /\ new.active =
                 IF r.op \in {"update", "activate"} THEN r.row.active ELSE holder[r.on].active
  BY <1>2, <1>3, RowAfter
<1>6. holder' \in [Holders -> HolderRows] /\ paidOut' \in [Holders -> Nat]
  BY <1>2, <1>4, <1>5 DEF SharesTyped
<1>7. ASSUME NEW q \in Partners
      PROVE  /\ partner'[q] \in Plan
             /\ partner'[q].op # "none" => /\ partner'[q].on \in Holders
                                           /\ ~partner'[q].stale => Agreed(partner[q])'
  <2>1. CASE q = p
    BY <1>4, <2>1, PlansAre DEF OffDuty
  <2>2. CASE q # p
    <3>1. PICK y \in Plan : y = partner[q]
      BY DEF SharesInv, SharesTyped
    <3>2. PICK s : s = (y.stale \/ Overtakes(r, y))
      OBVIOUS
    <3>3. s \in BOOLEAN
      BY <3>1, <3>2 DEF Plan
    <3>4. partner'[q] = [y EXCEPT !.stale = s]
      BY <1>4, <2>2, <3>1, <3>2
    <3>5. PICK z : z = partner'[q]
      OBVIOUS
    <3>6. /\ z \in Plan /\ z.op = y.op /\ z.on = y.on /\ z.row = y.row /\ z.stale = s
      BY <3>3, <3>4, <3>5 DEF Plan
    <3>7. y.op # "none" => y.on \in Holders /\ (~y.stale => Agreed(y))
      BY <3>1 DEF SharesInv, PlansHold
    <3>8. ASSUME y.op # "none", ~s PROVE Agreed(z)'
      <4>1. Agreed(y) /\ ~Overtakes(r, y)
        BY <3>2, <3>7, <3>8
      <4>2. Agreed(y)'
        BY <1>1, <1>2, <1>6, <3>7, <3>8, <4>1, StillAgreed
      <4> QED BY <3>6, <4>2 DEF Agreed, GivesShare
    <3> QED BY <3>5, <3>6, <3>7, <3>8
  <2> QED BY <2>1, <2>2
<1>8. SharesTyped'
  <2>1. unchecked' \subseteq Holders
    BY <1>2, <1>4 DEF SharesTyped
  <2>2. partner' \in [Partners -> Plan]
    BY <1>4, <1>7
  <2> QED BY <1>6, <2>1, <2>2 DEF SharesTyped
<1>9. PlansHold'
  BY <1>7 DEF PlansHold
<1>10. ~r.stale => Agreed(r)
  BY <1>1, <1>2 DEF SharesInv, PlansHold
<1>11. /\ holder'[r.on] = new
       /\ \A h \in Holders \ {r.on} : holder'[h] = holder[h] /\ paidOut'[h] = paidOut[h]
  BY <1>2, <1>4 DEF SharesTyped
<1> DEFINE A == Holders \ unchecked
<1>12. /\ HeldBy(holder, A) <= 100 /\ HeldBy(holder, A) \in Int
       /\ \A h \in A : paidOut[h] > 0 => Kept(h)
  <2>1. HeldBy(holder, A) \in Int
    BY <1>2, CountsAreNumbers DEF SharesTyped
  <2> QED BY <2>1 DEF SharesInv, OwnedOnce
\* The total of those who were counted and are not written is no more than it was.
<1>13. ASSUME NEW hs \in SUBSET Holders, NEW some \in SUBSET hs, r.on \notin some
       PROVE  /\ HeldBy(holder', some) \in Int /\ HeldBy(holder, hs) \in Int
              /\ HeldBy(holder', some) <= HeldBy(holder, hs)
  <2>1. \A h \in some : Counts(holder'[h]) <= Counts(holder[h])
    <3> SUFFICES ASSUME NEW h \in some PROVE Counts(holder'[h]) <= Counts(holder[h])
      OBVIOUS
    <3>1. holder'[h] = holder[h] /\ Counts(holder[h]) \in Int
      BY <1>2, <1>11, <1>13, CountsAreNumbers DEF SharesTyped
    <3> QED BY <3>1
  <2> QED BY <1>2, <1>6, <2>1, HeldIsLess DEF SharesTyped
<1>14. CASE r.stale \/ BringsBack(r)
  <2>1. Holders \ unchecked' = A \ {r.on}
    <3>1. ~(GivesShare(r) /\ BringsBack(r))
      BY DEF GivesShare, BringsBack
    <3>2. unchecked' = unchecked \cup {r.on}
      BY <1>4, <1>14, <3>1
    <3> QED BY <3>2
  <2>2. HeldBy(holder', A \ {r.on}) \in Int /\ HeldBy(holder', A \ {r.on}) <= HeldBy(holder, A)
    BY <1>13
  <2>3. HeldBy(holder', Holders \ unchecked') <= 100
    BY <1>12, <2>1, <2>2
  <2>4. \A h \in Holders \ unchecked' : paidOut'[h] > 0 => holder'[h].is = "kept"
    BY <1>11, <1>12, <2>1 DEF Kept
  <2> QED BY <1>8, <1>9, <2>3, <2>4 DEF SharesInv, OwnedOnce, Kept
<1>15. CASE ~(r.stale \/ BringsBack(r)) /\ GivesShare(r)
  <2>1. Holders \ unchecked' = (A \ {r.on}) \cup {r.on}
    <3>1. unchecked' = unchecked \ {r.on}
      BY <1>4, <1>15
    <3> QED BY <1>2, <3>1
  <2>2. /\ HeldBy(holder', A \ {r.on}) \in Int /\ HeldBy(holder', A \ {r.on}) <= HeldBy(holder, A)
        /\ HeldBy(holder, Holders \ {r.on}) \in Int
        /\ HeldBy(holder', A \ {r.on}) <= HeldBy(holder, Holders \ {r.on})
    BY <1>13
  <2>3. HeldBy(holder', Holders \ unchecked') = Counts(new) + HeldBy(holder', A \ {r.on})
    <3>1. HeldBy(holder', (A \ {r.on}) \cup {r.on})
            = Counts(holder'[r.on]) + HeldBy(holder', A \ {r.on})
      BY <1>2, <1>6, HeldAdds
    <3> QED BY <1>11, <2>1, <3>1
  <2>4. new.is = "kept" /\ new.share = r.row.share /\ new.active = r.row.active
    <3>1. CASE r.op = "create"
      BY <1>5, <1>10, <1>15, <3>1 DEF Agreed
    <3>2. CASE r.op \in {"update", "share"}
      BY <1>5, <1>10, <1>15, <3>2 DEF Agreed, Kept
    <3> QED BY <1>15, <3>1, <3>2 DEF GivesShare
  <2>5. r.row.share \in Int
    <3>1. r.row.share \in Percents
      BY <1>2 DEF Plan, HolderRows
    <3>2. Percents \subseteq Int
      BY SharesAssumption
    <3> QED BY <3>1, <3>2
  <2>6. HeldBy(holder', Holders \ unchecked') <= 100
    <3>1. CASE r.row.active
      <4>1. HeldBy(holder, Holders \ {r.on}) + r.row.share <= 100
        BY <1>10, <1>15, <3>1 DEF Agreed
      <4>2. Counts(new) = r.row.share
        BY <2>4, <3>1 DEF Counts
      <4> QED BY <2>2, <2>3, <2>5, <4>1, <4>2
    <3>2. CASE ~r.row.active
      <4>1. Counts(new) = 0
        BY <2>4, <3>2 DEF Counts
      <4> QED BY <1>12, <2>2, <2>3, <4>1
    <3> QED BY <3>1, <3>2
  <2>7. \A h \in Holders \ unchecked' : paidOut'[h] > 0 => holder'[h].is = "kept"
    <3> SUFFICES ASSUME NEW h \in Holders \ unchecked'
                 PROVE  paidOut'[h] > 0 => holder'[h].is = "kept"
      OBVIOUS
    <3>1. CASE h = r.on
      BY <1>11, <2>4, <3>1
    <3>2. CASE h # r.on
      BY <1>11, <1>12, <2>1, <3>2 DEF Kept
    <3> QED BY <3>1, <3>2
  <2> QED BY <1>8, <1>9, <2>6, <2>7 DEF SharesInv, OwnedOnce, Kept
<1>16. CASE ~(r.stale \/ BringsBack(r)) /\ ~GivesShare(r)
  <2>1. unchecked' = unchecked
    BY <1>4, <1>16
  <2>2. \A h \in A : Counts(holder'[h]) <= Counts(holder[h])
    <3> SUFFICES ASSUME NEW h \in A PROVE Counts(holder'[h]) <= Counts(holder[h])
      OBVIOUS
    <3>1. CASE h = r.on
      BY <1>2, <1>3, <1>11, <1>16, <3>1, WrittenCounts
    <3>2. CASE h # r.on
      <4>1. holder'[h] = holder[h] /\ Counts(holder[h]) \in Int
        BY <1>2, <1>11, <3>2, CountsAreNumbers DEF SharesTyped
      <4> QED BY <4>1
    <3> QED BY <3>1, <3>2
  <2>3. HeldBy(holder', A) \in Int /\ HeldBy(holder', A) <= HeldBy(holder, A)
    BY <1>2, <1>6, <2>2, HeldIsLess DEF SharesTyped
  <2>4. HeldBy(holder', Holders \ unchecked') <= 100
    BY <1>12, <2>1, <2>3
  <2>5. r.op \in {"activate", "remove", "pay"}
    BY <1>2, <1>16 DEF GivesShare, Plan
  <2>6. ASSUME NEW h \in A, paidOut'[h] > 0 PROVE holder'[h].is = "kept"
    <3>1. CASE h # r.on
      BY <1>11, <1>12, <2>6, <3>1 DEF Kept
    <3>2. CASE h = r.on /\ r.op = "pay"
      BY <1>5, <1>10, <1>11, <1>16, <3>2 DEF Agreed, Kept
    <3>3. CASE h = r.on /\ r.op = "remove"
      BY <1>4, <1>10, <1>16, <2>6, <3>3 DEF Agreed
    <3>4. CASE h = r.on /\ r.op = "activate"
      <4>1. paidOut[h] > 0
        BY <1>4, <2>6, <3>4
      <4> QED BY <1>5, <1>11, <1>12, <3>4, <4>1 DEF Kept
    <3> QED BY <2>5, <3>1, <3>2, <3>3, <3>4
  <2> QED BY <1>8, <1>9, <2>1, <2>4, <2>6 DEF SharesInv, OwnedOnce, Kept
<1> QED BY <1>14, <1>15, <1>16

\* To take a distribution back leaves everybody who was paid on file.
LEMMA DeleteDistributionStep ==
    ASSUME SharesInv, NEW h \in Holders, DeleteDistribution(h)
    PROVE  SharesInv'
<1>1. /\ paidOut[h] > 0 /\ paidOut' = [paidOut EXCEPT ![h] = @ - 1]
      /\ holder' = holder /\ partner' = partner /\ unchecked' = unchecked
  BY DEF DeleteDistribution, IsPaid
<1>2. paidOut' \in [Holders -> Nat]
  BY <1>1 DEF SharesInv, SharesTyped
<1>3. \A g \in Holders : (paidOut'[g] > 0 => paidOut[g] > 0) /\ (paidOut[g] = 0 => paidOut'[g] = 0)
  BY <1>1 DEF SharesInv, SharesTyped
<1>4. SharesTyped'
  BY <1>1, <1>2 DEF SharesInv, SharesTyped
<1>5. OwnedOnce'
  BY <1>1, <1>3 DEF SharesInv, OwnedOnce, Kept
<1>6. PlansHold'
  BY <1>1, <1>3 DEF SharesInv, PlansHold, Agreed, GivesShare, Kept
<1> QED BY <1>4, <1>5, <1>6 DEF SharesInv

\* Every step keeps it.
LEMMA SharesStep ==
    ASSUME SharesInv, [SharesNext]_sharesVars
    PROVE  SharesInv'
<1>1. CASE UNCHANGED sharesVars
  BY <1>1 DEF sharesVars, SharesInv, SharesTyped, OwnedOnce, PlansHold, Agreed, GivesShare, Kept
<1>2. CASE SharesNext
  BY <1>2, ProposalsStep, WriteShareStep, DeleteDistributionStep DEF SharesNext
<1> QED BY <1>1, <1>2

\* What was proved of the total here is what the model says of it.
LEMMA SharesSuffice == SharesInv => OwnedOnceUnlessUnchecked
  BY TotalIsOf DEF SharesInv, OwnedOnce, OwnedOnceUnlessUnchecked

\* Who is about to write a distribution of h.
PaidSoon(h) == {p \in Partners : partner[p].op = "pay" /\ partner[p].on = h}

\* What is paid out and what will be stay within bounds: each request adds one at most to what was
\* below the bound when it looked.
PaidWithinBounds ==
    \A h \in Holders : paidOut[h] + Cardinality(PaidSoon(h)) <= MaxPaid + Cardinality(Partners)

\* Nothing is paid and nobody is about to.
LEMMA PaidBegins == SharesInit => PaidWithinBounds
<1> SUFFICES ASSUME SharesInit, NEW h \in Holders
             PROVE  paidOut[h] + Cardinality(PaidSoon(h)) <= MaxPaid + Cardinality(Partners)
  BY DEF PaidWithinBounds
<1>1. PaidSoon(h) = {} /\ paidOut[h] = 0
  BY DEF SharesInit, PaidSoon, OffDuty
<1>2. Cardinality(PaidSoon(h)) = 0
  BY <1>1, FS_EmptySet
<1>3. Cardinality(Partners) \in Nat /\ MaxPaid \in Nat
  BY SharesAssumption, FS_CardinalityType
<1> QED BY <1>1, <1>2, <1>3

\* Those about to write are no more than all.
LEMMA SoonAreFew ==
    ASSUME NEW h
    PROVE  /\ IsFiniteSet(PaidSoon(h)) /\ Cardinality(PaidSoon(h)) \in Nat
           /\ Cardinality(Partners) \in Nat /\ MaxPaid \in Nat
           /\ Cardinality(PaidSoon(h)) <= Cardinality(Partners)
<1>1. PaidSoon(h) \subseteq Partners /\ IsFiniteSet(Partners) /\ MaxPaid \in Nat
  BY SharesAssumption DEF PaidSoon
<1>2. IsFiniteSet(PaidSoon(h)) /\ Cardinality(PaidSoon(h)) <= Cardinality(Partners)
  BY <1>1, FS_Subset
<1>3. Cardinality(PaidSoon(h)) \in Nat /\ Cardinality(Partners) \in Nat
  BY <1>1, <1>2, FS_CardinalityType
<1> QED BY <1>1, <1>2, <1>3

\* A request that is taken up to do something else than pay is none of them.
LEMMA OthersPayNothing ==
    ASSUME SharesInv, PaidWithinBounds, NEW p \in Partners, NEW r, Propose(p, r), r.op # "pay"
    PROVE  PaidWithinBounds'
<1>1. /\ partner[p].op = "none" /\ partner' = [partner EXCEPT ![p] = r] /\ paidOut' = paidOut
      /\ partner \in [Partners -> Plan]
  BY DEF Propose, OffDuty, SharesInv, SharesTyped
<1>2. \A h : PaidSoon(h)' = PaidSoon(h)
  BY <1>1 DEF PaidSoon
<1> QED BY <1>1, <1>2 DEF PaidWithinBounds

\* One that is taken up to pay found less than the bound.
LEMMA PayIsWithin ==
    ASSUME SharesInv, PaidWithinBounds, NEW p \in Partners, NEW h \in Holders,
           CreateDistribution(p, h)
    PROVE  PaidWithinBounds'
<1>1. PICK r : r = [OffDuty EXCEPT !.op = "pay", !.on = h]
  OBVIOUS
<1>2. r.op = "pay" /\ r.on = h
  BY <1>1 DEF OffDuty
<1>3. /\ partner[p].op = "none" /\ partner' = [partner EXCEPT ![p] = r] /\ paidOut' = paidOut
      /\ paidOut[h] < MaxPaid /\ partner \in [Partners -> Plan]
  BY <1>1 DEF CreateDistribution, Propose, OffDuty, SharesInv, SharesTyped
<1>4. paidOut[h] \in Nat
  BY DEF SharesInv, SharesTyped
<1> SUFFICES ASSUME NEW g \in Holders
             PROVE  paidOut'[g] + Cardinality(PaidSoon(g)') <= MaxPaid + Cardinality(Partners)
  BY DEF PaidWithinBounds
<1>5. CASE g = h
  <2>1. PaidSoon(g)' \subseteq Partners
    BY <1>3 DEF PaidSoon
  <2>2. IsFiniteSet(Partners) /\ MaxPaid \in Nat
    BY SharesAssumption
  <2>3. PICK P : P = PaidSoon(g)'
    OBVIOUS
  <2>4. IsFiniteSet(P) /\ Cardinality(P) <= Cardinality(Partners)
    BY <2>1, <2>2, <2>3, FS_Subset
  <2>5. Cardinality(P) \in Nat /\ Cardinality(Partners) \in Nat
    BY <2>2, <2>4, FS_CardinalityType
  <2> QED BY <1>3, <1>4, <1>5, <2>2, <2>3, <2>4, <2>5
<1>6. CASE g # h
  <2>1. PaidSoon(g)' = PaidSoon(g)
    BY <1>2, <1>3, <1>6 DEF PaidSoon
  <2> QED BY <1>3, <2>1 DEF PaidWithinBounds
<1> QED BY <1>5, <1>6

\* A distribution that is written is one less that will be.
LEMMA WrittenIsWithin ==
    ASSUME SharesInv, PaidWithinBounds, NEW p \in Partners, WriteShare(p)
    PROVE  PaidWithinBounds'
<1>1. /\ partner \in [Partners -> Plan] /\ paidOut \in [Holders -> Nat]
      /\ partner[p].on \in Holders /\ partner[p].op # "none"
  BY DEF SharesInv, SharesTyped, PlansHold, WriteShare
<1>2. /\ paidOut' = IF partner[p].op = "pay" THEN [paidOut EXCEPT ![partner[p].on] = @ + 1]
                                             ELSE paidOut
      /\ partner' = [q \in Partners |-> IF q = p THEN OffDuty
               ELSE [partner[q] EXCEPT !.stale = @ \/ Overtakes(partner[p], partner[q])]]
  BY DEF WriteShare
<1>3. ASSUME NEW g \in Holders PROVE PaidSoon(g)' = PaidSoon(g) \ {p}
  <2>1. partner'[p].op = "none"
    BY <1>2 DEF OffDuty
  <2>2. \A q \in Partners \ {p} : partner'[q].op = partner[q].op /\ partner'[q].on = partner[q].on
    BY <1>1, <1>2 DEF Plan
  <2> QED BY <2>1, <2>2 DEF PaidSoon
<1> SUFFICES ASSUME NEW g \in Holders
             PROVE  paidOut'[g] + Cardinality(PaidSoon(g)') <= MaxPaid + Cardinality(Partners)
  BY DEF PaidWithinBounds
<1>4. /\ paidOut[g] + Cardinality(PaidSoon(g)) <= MaxPaid + Cardinality(Partners)
      /\ paidOut[g] \in Nat
  BY <1>1 DEF PaidWithinBounds
<1>5. CASE partner[p].op = "pay" /\ partner[p].on = g
  <2>1. p \in PaidSoon(g)
    BY <1>5 DEF PaidSoon
  <2>2. Cardinality(PaidSoon(g) \ {p}) = Cardinality(PaidSoon(g)) - 1
    BY <2>1, SoonAreFew, FS_RemoveElement
  <2>3. paidOut'[g] = paidOut[g] + 1
    BY <1>1, <1>2, <1>5
  <2>4. Cardinality(PaidSoon(g)') = Cardinality(PaidSoon(g)) - 1
    BY <1>3, <2>2
  <2>5. Cardinality(PaidSoon(g)) \in Nat /\ Cardinality(Partners) \in Nat /\ MaxPaid \in Nat
    BY SoonAreFew
  <2> QED BY <1>4, <2>3, <2>4, <2>5
<1>6. CASE ~(partner[p].op = "pay" /\ partner[p].on = g)
  <2>1. PaidSoon(g) \ {p} = PaidSoon(g)
    BY <1>6 DEF PaidSoon
  <2>2. paidOut'[g] = paidOut[g]
    BY <1>1, <1>2, <1>6
  <2> QED BY <1>3, <1>4, <2>1, <2>2
<1> QED BY <1>5, <1>6

\* Whatever is asked or written of the owners, what is paid out stays within bounds.
LEMMA PaidStep ==
    ASSUME SharesInv, PaidWithinBounds, [SharesNext]_sharesVars
    PROVE  PaidWithinBounds'
<1>1. ASSUME NEW p \in Partners, NEW h \in Holders, CreateHolder(p, h) PROVE PaidWithinBounds'
  <2>1. PICK share \in Percents :
           Propose(p, [OffDuty EXCEPT !.op = "create", !.on = h,
                            !.row = [is |-> "kept", share |-> share, active |-> TRUE]])
    BY <1>1, Zenon DEF CreateHolder
  <2>2. PICK r : r = [OffDuty EXCEPT !.op = "create", !.on = h,
                            !.row = [is |-> "kept", share |-> share, active |-> TRUE]]
    OBVIOUS
  <2>3. Propose(p, r) /\ r.op = "create"
    BY <2>1, <2>2 DEF OffDuty
  <2> QED BY <2>3, OthersPayNothing
<1>2. ASSUME NEW p \in Partners, NEW h \in Holders, UpdateShare(p, h) PROVE PaidWithinBounds'
  <2>1. PICK share \in Percents, active \in BOOLEAN, op \in {"update", "share"} :
           Propose(p, [OffDuty EXCEPT !.op = op, !.on = h, !.row.share = share,
                                      !.row.active = active])
    BY <1>2, Zenon DEF UpdateShare
  <2>2. PICK r : r = [OffDuty EXCEPT !.op = op, !.on = h, !.row.share = share,
                                     !.row.active = active]
    OBVIOUS
  <2>3. Propose(p, r) /\ r.op = op
    BY <2>1, <2>2 DEF OffDuty
  <2> QED BY <2>3, OthersPayNothing
<1>3. ASSUME NEW p \in Partners, NEW h \in Holders, SetActive(p, h) PROVE PaidWithinBounds'
  <2>1. PICK active \in BOOLEAN :
           Propose(p, [OffDuty EXCEPT !.op = "activate", !.on = h, !.row.active = active])
    BY <1>3, Zenon DEF SetActive
  <2>2. PICK r : r = [OffDuty EXCEPT !.op = "activate", !.on = h, !.row.active = active]
    OBVIOUS
  <2>3. Propose(p, r) /\ r.op = "activate"
    BY <2>1, <2>2 DEF OffDuty
  <2> QED BY <2>3, OthersPayNothing
<1>4. ASSUME NEW p \in Partners, NEW h \in Holders, RemoveHolder(p, h) PROVE PaidWithinBounds'
  <2>1. PICK r : r = [OffDuty EXCEPT !.op = "remove", !.on = h]
    OBVIOUS
  <2>2. Propose(p, r) /\ r.op = "remove"
    BY <1>4, <2>1 DEF RemoveHolder, OffDuty
  <2> QED BY <2>2, OthersPayNothing
<1>5. ASSUME NEW h \in Holders, DeleteDistribution(h) PROVE PaidWithinBounds'
  <2>1. /\ paidOut \in [Holders -> Nat] /\ paidOut[h] > 0 /\ partner' = partner
        /\ paidOut' = [paidOut EXCEPT ![h] = @ - 1]
    BY <1>5 DEF DeleteDistribution, IsPaid, SharesInv, SharesTyped
  <2>2. ASSUME NEW g \in Holders
        PROVE  paidOut'[g] + Cardinality(PaidSoon(g)') <= MaxPaid + Cardinality(Partners)
    <3>1. PaidSoon(g)' = PaidSoon(g)
      BY <2>1 DEF PaidSoon
    <3>2. paidOut'[g] \in Int /\ paidOut[g] \in Nat /\ paidOut'[g] <= paidOut[g]
      BY <2>1
    <3>3. paidOut[g] + Cardinality(PaidSoon(g)) <= MaxPaid + Cardinality(Partners)
      BY DEF PaidWithinBounds
    <3>4. Cardinality(PaidSoon(g)) \in Nat /\ Cardinality(Partners) \in Nat /\ MaxPaid \in Nat
      BY SoonAreFew
    <3> QED BY <3>1, <3>2, <3>3, <3>4
  <2> QED BY <2>2 DEF PaidWithinBounds
<1>6. CASE UNCHANGED sharesVars
  <2>1. paidOut' = paidOut /\ partner' = partner
    BY <1>6 DEF sharesVars
  <2>2. \A h : PaidSoon(h)' = PaidSoon(h)
    BY <2>1 DEF PaidSoon
  <2> QED BY <2>1, <2>2 DEF PaidWithinBounds
<1> QED BY <1>1, <1>2, <1>3, <1>4, <1>5, <1>6, PayIsWithin, WrittenIsWithin DEF SharesNext

\* What is kept of the owners is of its type.
LEMMA SharesAreTyped == SharesInv /\ PaidWithinBounds => SharesTypeOK
<1> SUFFICES ASSUME SharesInv, PaidWithinBounds PROVE SharesTypeOK
  OBVIOUS
<1>1. \A h \in Holders : paidOut[h] \in 0 .. MaxPaid + Cardinality(Partners)
  <2> SUFFICES ASSUME NEW h \in Holders PROVE paidOut[h] \in 0 .. MaxPaid + Cardinality(Partners)
    OBVIOUS
  <2>1. /\ paidOut[h] \in Nat
        /\ paidOut[h] + Cardinality(PaidSoon(h)) <= MaxPaid + Cardinality(Partners)
    BY DEF SharesInv, SharesTyped, PaidWithinBounds
  <2>2. Cardinality(PaidSoon(h)) \in Nat /\ Cardinality(Partners) \in Nat /\ MaxPaid \in Nat
    BY SoonAreFew
  <2> QED BY <2>1, <2>2
<1>2. paidOut \in [Holders -> 0 .. MaxPaid + Cardinality(Partners)]
  BY <1>1 DEF SharesInv, SharesTyped
<1> QED BY <1>2, Zenon DEF SharesInv, SharesTyped, SharesTypeOK, Plan

-----------------------------------------------------------------------------
(***************************************************************************)
(* The schedule of a loan.  A loan that was made has the rows it began     *)
(* with, so what is said of the rows is said of generateSchedule, for any  *)
(* principal, any first day and any number of months; no induction is      *)
(* needed for their sum, as all of them but the last are the same.         *)
(***************************************************************************)
ScheduleInv ==
    \/ loanOf = NoLoanYet /\ rows = << >> /\ paid = {}
    \/ \E p \in Principals, s \in StartDates, t \in Terms :
          /\ loanOf = [principal |-> p, start |-> s, term |-> t]
          /\ rows = GenerateSchedule(p, s, t)
          /\ paid \subseteq 1 .. t

\* What a row of p paisa, begun at s, over t months, is of.
PartOfLoan(p, t, i) == IF i = t THEN p - (p \div t) * (t - 1) ELSE p \div t

\* The rows that are generated.
LEMMA RowsAre ==
    ASSUME NEW p \in Principals, NEW s \in StartDates, NEW t \in Terms
    PROVE  /\ t \in Nat \ {0} /\ p \in Nat \ {0} /\ s \in [month : Nat, day : 1 .. 31]
           /\ DOMAIN GenerateSchedule(p, s, t) = 1 .. t
           /\ GenerateSchedule(p, s, t) # << >> /\ Len(GenerateSchedule(p, s, t)) = t
           /\ \A i \in 1 .. t :
                 /\ GenerateSchedule(p, s, t)[i].due = AddMonthsClamped(s, i)
                 /\ GenerateSchedule(p, s, t)[i].principal = PartOfLoan(p, t, i)
<1>1. t \in Nat \ {0} /\ p \in Nat \ {0} /\ s \in [month : Nat, day : 1 .. 31]
  BY ScheduleAssumption
<1> DEFINE g == GenerateSchedule(p, s, t)
           R == {g[i] : i \in 1 .. t}
<1>2. DOMAIN g = 1 .. t
  BY DEF GenerateSchedule
<1>3. g \in [1 .. t -> R]
  BY <1>2 DEF GenerateSchedule
<1>4. g \in Seq(R) /\ Len(g) = t
  <2> HIDE DEF g, R
  <2>1. g \in Seq(R)
    BY <1>1, <1>3
  <2>2. Len(g) \in Nat /\ DOMAIN g = 1 .. Len(g)
    BY <2>1
  <2> QED BY <1>1, <1>2, <2>1, <2>2
<1>5. \A i \in 1 .. t : g[i].due = AddMonthsClamped(s, i) /\ g[i].principal = PartOfLoan(p, t, i)
  BY DEF GenerateSchedule, PartOfLoan
<1>6. g # << >>
  <2> HIDE DEF g
  <2> QED BY <1>1, <1>4
<1> QED BY <1>1, <1>2, <1>4, <1>5, <1>6

\* No row takes back, and none but the last differs, which is no less than the others.
LEMMA PartsOfLoan ==
    ASSUME NEW p \in Nat \ {0}, NEW t \in Nat \ {0}
    PROVE  /\ \A i \in 1 .. t : PartOfLoan(p, t, i) \in Nat
           /\ \A i \in 1 .. t : PartOfLoan(p, t, i) <= PartOfLoan(p, t, t)
           /\ \A i, k \in 1 .. t : i < k /\ k < t => PartOfLoan(p, t, i) = PartOfLoan(p, t, k)
<1> DEFINE q == p \div t
<1>1. q \in Int /\ q * t <= p /\ p < q * t + t
  BY QuotientIs
<1>2. q >= 0
  <2>1. 0 <= p \div t <=> 0 * t <= p
    BY AtMostQuotient
  <2> QED BY <2>1
<1> HIDE DEF q
<1>3. q * (t - 1) = q * t - q /\ q * t \in Int
  BY <1>1
<1>4. p - q * (t - 1) \in Nat /\ q <= p - q * (t - 1)
  BY <1>1, <1>2, <1>3
<1>5. \A i \in 1 .. t : PartOfLoan(p, t, i) = IF i = t THEN p - q * (t - 1) ELSE q
  BY DEF PartOfLoan, q
<1>6. t \in 1 .. t /\ q \in Nat
  BY <1>1, <1>2
<1> QED BY <1>4, <1>5, <1>6

\* The rows sum to the principal.
LEMMA PartsAreTheLoan ==
    ASSUME NEW p \in Nat \ {0}, NEW t \in Nat \ {0},
           NEW f, f \in [1 .. t -> Int], \A i \in 1 .. t : f[i] = PartOfLoan(p, t, i)
    PROVE  SumFunction(f) = p
<1> DEFINE q == p \div t
           D == 1 .. t
           P == D \ {t}
           g == [i \in P |-> q]
<1>1. q \in Int
  BY QuotientIs
<1>2. IsFiniteSet(D) /\ Cardinality(D) = t /\ t \in D
  BY FS_Interval
<1>3. IsFiniteSet(P) /\ Cardinality(P) = t - 1
  <2> HIDE DEF D
  <2> QED BY <1>2, FS_RemoveElement
<1>4. g \in [P -> Int] /\ \A i \in P : g[i] = f[i]
  <2>1. \A i \in P : i \in 1 .. t /\ PartOfLoan(p, t, i) = q
    BY DEF PartOfLoan
  <2> HIDE DEF q, P
  <2> QED BY <1>1, <2>1
<1>5. SumFunction(f) = f[t] + SumFunction(g)
  <2>1. f \in [D -> Int]
    OBVIOUS
  <2> HIDE DEF g, D
  <2> QED BY <1>2, <1>4, <2>1, SumTakesOut
<1>6. SumFunction(g) = q * Cardinality(P)
  <2>1. \A i \in P : g[i] = q
    OBVIOUS
  <2> HIDE DEF g, P, q
  <2> QED BY <1>1, <1>3, <1>4, <2>1, SumOfEqual
<1>7. f[t] = p - q * (t - 1)
  BY <1>2 DEF PartOfLoan
<1>8. q * (t - 1) \in Int
  BY <1>1
<1> HIDE DEF q, P, g
<1> QED BY <1>3, <1>5, <1>6, <1>7, <1>8

\* A month has its days.
LEMMA MonthsAre == ASSUME NEW m \in Int PROVE LastDayOf(m) \in 28 .. 31
  BY DEF LastDayOf

\* What the rows of a loan that was made are.
LEMMA LoanMade ==
    ASSUME NEW p \in Principals, NEW s \in StartDates, NEW t \in Terms,
           loanOf = [principal |-> p, start |-> s, term |-> t],
           rows = GenerateSchedule(p, s, t), paid \subseteq 1 .. t
    PROVE  ScheduleTypeOK /\ ScheduleHolds
<1>1. /\ t \in Nat \ {0} /\ p \in Nat \ {0} /\ s \in [month : Nat, day : 1 .. 31]
      /\ DOMAIN rows = 1 .. t /\ Len(rows) = t
      /\ \A i \in 1 .. t : /\ rows[i].due = AddMonthsClamped(s, i)
                           /\ rows[i].principal = PartOfLoan(p, t, i)
  BY RowsAre
<1>2. /\ \A i \in 1 .. t : PartOfLoan(p, t, i) \in Nat
      /\ \A i \in 1 .. t : PartOfLoan(p, t, i) <= PartOfLoan(p, t, t)
      /\ \A i, k \in 1 .. t : i < k /\ k < t => PartOfLoan(p, t, i) = PartOfLoan(p, t, k)
  BY <1>1, PartsOfLoan
<1> DEFINE f == [i \in 1 .. t |-> rows[i].principal]
<1>3. f \in [1 .. t -> Nat] /\ f \in [1 .. t -> Int] /\ \A i \in 1 .. t : f[i] = PartOfLoan(p, t, i)
  BY <1>1, <1>2
<1>4. SumFunction(f) = p
  <2> HIDE DEF f
  <2> QED BY <1>1, <1>3, PartsAreTheLoan
<1>5. IsFiniteSet(1 .. t) /\ Cardinality(1 .. t) = t
  BY <1>1, FS_Interval
<1>6. ASSUME NEW P \in SUBSET (1 .. t)
      PROVE  SumOf(P) = SumFunction(Restrict(f, P)) /\ SumOf(P) \in Nat
  <2>1. SumOf(P) = SumFunction(Restrict(f, P))
    BY DEF SumOf, Restrict
  <2>2. IsFiniteSet(P)
    BY <1>5, FS_Subset
  <2>3. Restrict(f, P) \in [P -> Nat]
    <3> HIDE DEF f
    <3> QED BY <1>3 DEF Restrict
  <2>4. SumFunction(Restrict(f, P)) \in Nat
    BY <2>2, <2>3, SumOfNaturals
  <2> QED BY <2>1, <2>4
<1>7. ASSUME NEW i \in 1 .. t
      PROVE  /\ rows[i].due.month = s.month + i /\ rows[i].due.day \in 1 .. 31
             /\ \/ rows[i].due.day = s.day
                \/ rows[i].due.day = LastDayOf(s.month + i) /\ rows[i].due.day < s.day
  <2>1. rows[i].due = AddMonthsClamped(s, i)
    BY <1>1
  <2>2. LastDayOf(s.month + i) \in 28 .. 31
    BY <1>1, MonthsAre
  <2> QED BY <1>1, <2>1, <2>2 DEF AddMonthsClamped
<1>8. ScheduleTypeOK
  <2>1. \A i \in 1 .. t : rows[i].due.day \in 1 .. 31
    BY <1>7
  <2>2. \A i \in 1 .. t : rows[i].principal \in Nat
    BY <1>1, <1>2
  <2> HIDE DEF f
  <2> QED BY <1>1, <2>1, <2>2 DEF ScheduleTypeOK
<1>9. RowsAreTheLoan
  <2>1. SumOf(DOMAIN rows) = loanOf.principal
    <3>1. Restrict(f, 1 .. t) = f
      BY DEF Restrict
    <3> QED BY <1>1, <1>4, <1>6, <3>1
  <2> QED BY <1>1, <1>2, <2>1 DEF RowsAreTheLoan
<1>10. OneAMonth
  BY <1>1, <1>7 DEF OneAMonth
<1>11. StandsAtItsRows
  <2> DEFINE U == (1 .. t) \ paid
  <2>1. Unpaid = U /\ U \in SUBSET (1 .. t) /\ paid \in SUBSET (1 .. t)
    BY <1>1 DEF Unpaid
  <2>2. SumFunction(f) = SumFunction(Restrict(f, paid)) + SumFunction(Restrict(f, U))
    <3> HIDE DEF f
    <3> QED BY <1>3, <1>5, <2>1, SumSplits
  <2>3. p - SumOf(paid) = SumOf(U) /\ SumOf(U) \in Nat
    <3> HIDE DEF f, U
    <3> QED BY <1>4, <1>6, <2>1, <2>2
  <2>4. NextDue = {} <=> U = {}
    <3>1. ASSUME U # {} PROVE NextDue # {}
      <4>1. U \subseteq Nat
        OBVIOUS
      <4>2. \E x \in U : \A y \in U : x <= y
        <5> HIDE DEF U
        <5> QED BY <3>1, <4>1, LeastNumber
      <4> QED BY <2>1, <4>2 DEF NextDue
    <3> QED BY <2>1, <3>1 DEF NextDue
  <2>5. U = {} <=> Cardinality(paid) = t
    <3>1. Cardinality(1 .. t) = Cardinality(paid) => 1 .. t = paid
      BY <1>5, <2>1, FS_Subset
    <3> QED BY <1>5, <2>1, <3>1
  <2>6. \A i \in NextDue, k \in U : rows[i].due.month <= rows[k].due.month
    <3> SUFFICES ASSUME NEW i \in NextDue, NEW k \in U
                 PROVE  rows[i].due.month <= rows[k].due.month
      OBVIOUS
    <3>1. i \in 1 .. t /\ k \in 1 .. t /\ i <= k
      BY <2>1 DEF NextDue
    <3>2. rows[i].due.month = s.month + i /\ rows[k].due.month = s.month + k /\ s.month \in Nat
      BY <1>1, <1>7, <3>1
    <3> QED BY <3>1, <3>2
  <2>7. /\ Summarise.outstanding = p - SumOf(paid) /\ Summarise.nextDue = NextDue
        /\ Summarise.paidCount = Cardinality(paid) /\ Summarise.count = t
    BY <1>1 DEF Summarise
  <2> HIDE DEF U, f
  <2> QED BY <2>1, <2>3, <2>4, <2>5, <2>6, <2>7 DEF StandsAtItsRows
<1> QED BY <1>8, <1>9, <1>10, <1>11 DEF ScheduleHolds

\* No loan yet, and nothing to be said of it.
LEMMA NoLoanHolds ==
    ASSUME loanOf = NoLoanYet, rows = << >>, paid = {} PROVE ScheduleTypeOK /\ ScheduleHolds
<1>1. DOMAIN rows = {} /\ Len(rows) = 0 /\ Unpaid = {} /\ NextDue = {}
  BY DEF Unpaid, NextDue
<1>2. SumOf({}) = 0
  BY SumOfNone DEF SumOf
<1>3. Cardinality({}) = 0
  BY FS_EmptySet
<1>4. /\ Summarise.outstanding = 0 /\ Summarise.nextDue = {}
      /\ Summarise.paidCount = 0 /\ Summarise.count = 0
  BY <1>1, <1>2, <1>3 DEF Summarise, NoLoanYet
<1>5. ScheduleTypeOK
  BY <1>1 DEF ScheduleTypeOK
<1>6. RowsAreTheLoan
  BY <1>1, <1>2 DEF RowsAreTheLoan, NoLoanYet
<1>7. OneAMonth
  BY <1>1 DEF OneAMonth
<1>8. StandsAtItsRows
  BY <1>1, <1>2, <1>4 DEF StandsAtItsRows
<1> QED BY <1>5, <1>6, <1>7, <1>8 DEF ScheduleHolds

\* What holds of the schedule follows.
LEMMA ScheduleSuffices == ScheduleInv => ScheduleTypeOK /\ ScheduleHolds
  BY LoanMade, NoLoanHolds DEF ScheduleInv

\* No loan was made yet.
LEMMA ScheduleBegins == ScheduleInit => ScheduleInv
  BY DEF ScheduleInit, ScheduleInv

\* Every loan keeps the rows it began with.
LEMMA ScheduleStep == ScheduleInv /\ [ScheduleNext]_scheduleVars => ScheduleInv'
<1> SUFFICES ASSUME ScheduleInv, [ScheduleNext]_scheduleVars PROVE ScheduleInv'
  OBVIOUS
<1>1. CASE CreateLoan
  <2>1. PICK p \in Principals, s \in StartDates, t \in Terms :
           /\ loanOf' = [principal |-> p, start |-> s, term |-> t]
           /\ rows' = GenerateSchedule(p, s, t)
    BY <1>1 DEF CreateLoan
  <2>2. paid' = paid /\ loanOf = NoLoanYet
    BY <1>1 DEF CreateLoan
  <2>3. paid = {}
    <3>1. ASSUME NEW q \in Principals, NEW r \in StartDates, NEW n \in Terms,
                 loanOf = [principal |-> q, start |-> r, term |-> n]
          PROVE  FALSE
      <4>1. loanOf.principal = q /\ loanOf.principal = 0
        BY <2>2, <3>1 DEF NoLoanYet
      <4> QED BY <4>1, ScheduleAssumption
    <3> QED BY <3>1 DEF ScheduleInv
  <2> QED BY <2>1, <2>2, <2>3 DEF ScheduleInv
<1>2. CASE PayRow \/ ReverseRow
  <2>1. loanOf' = loanOf /\ rows' = rows /\ paid' \subseteq DOMAIN rows \cup paid
    BY <1>2 DEF PayRow, ReverseRow, Unpaid
  <2>2. CASE loanOf = NoLoanYet /\ rows = << >> /\ paid = {}
    <3>1. paid' = {}
      BY <2>1, <2>2
    <3> QED BY <2>1, <2>2, <3>1 DEF ScheduleInv
  <2>3. CASE \E p \in Principals, s \in StartDates, t \in Terms :
                /\ loanOf = [principal |-> p, start |-> s, term |-> t]
                /\ rows = GenerateSchedule(p, s, t)
                /\ paid \subseteq 1 .. t
    <3>1. PICK p \in Principals, s \in StartDates, t \in Terms :
             /\ loanOf = [principal |-> p, start |-> s, term |-> t]
             /\ rows = GenerateSchedule(p, s, t)
             /\ paid \subseteq 1 .. t
      BY <2>3
    <3>2. DOMAIN rows = 1 .. t
      BY <3>1, RowsAre
    <3>3. paid' \subseteq 1 .. t
      BY <2>1, <3>1, <3>2
    <3> QED BY <2>1, <3>1, <3>3 DEF ScheduleInv
  <2> QED BY <2>2, <2>3 DEF ScheduleInv
<1>3. CASE UNCHANGED scheduleVars
  BY <1>3 DEF scheduleVars, ScheduleInv
<1> QED BY <1>1, <1>2, <1>3 DEF ScheduleNext

-----------------------------------------------------------------------------
(***************************************************************************)
(* A list, page by page.  A row that shares its day with none has the      *)
(* place that the rows of later days give it, in every order the database  *)
(* may answer in: rows that are added can only push it further.  While it  *)
(* has not been seen there are as many before it as were asked for.        *)
(***************************************************************************)
Ahead(list, x) == {y \in list : DayOn[y] > DayOn[x]}

Reading == [pc : {"rest", "page", "done"}, page : Nat, limit : Nat,
            rows : BOOLEAN, count : BOOLEAN, total : Nat]

ListTyped ==
    /\ onList \subseteq Items /\ seen \subseteq Items /\ stood \subseteq onList
    /\ reading \in Reading /\ reading.limit <= MaxPage /\ shaken \in BOOLEAN
    /\ reading.pc = "page" => reading.page >= 1 /\ reading.limit >= 1

\* Pages asked for before, or with, the rows that the reader has.
Turned(r) == IF r.rows THEN r.page ELSE r.page - 1

\* Why the reader has not seen x yet.
StillAhead(x) ==
    /\ reading.pc # "done"
    /\ reading.pc = "page" =>
          /\ Cardinality(Ahead(onList, x)) >= Turned(reading) * reading.limit
          /\ reading.rows /\ reading.count => reading.total > reading.page * reading.limit

ListInv ==
    /\ ListTyped
    /\ reading.pc = "done" /\ reading.limit = 0 => stood \subseteq seen
    /\ reading.pc = "page" /\ reading.count /\ ~reading.rows /\ ~shaken =>
          reading.total = Cardinality(onList)
    /\ ~shaken /\ reading.limit > 0 => \A x \in stood \ seen : Tied(x) \/ StillAhead(x)

\* There are no more rows ahead of one than there are, and it is one itself.
LEMMA AheadCounts ==
    ASSUME NEW list \in SUBSET Items, NEW x \in list
    PROVE  /\ IsFiniteSet(list) /\ Cardinality(list) \in Nat
           /\ IsFiniteSet(Ahead(list, x)) /\ Cardinality(Ahead(list, x)) \in Nat
           /\ Cardinality(Ahead(list, x)) + 1 <= Cardinality(list)
<1> DEFINE A == Ahead(list, x)
<1>1. IsFiniteSet(list)
  BY ListingAssumption, FS_Subset
<1>2. A \subseteq list \ {x}
  BY ListingAssumption DEF Ahead
<1>3. IsFiniteSet(list \ {x}) /\ Cardinality(list \ {x}) = Cardinality(list) - 1
  BY <1>1, FS_RemoveElement
<1>4. IsFiniteSet(A) /\ Cardinality(A) <= Cardinality(list \ {x})
  <2> HIDE DEF A
  <2> QED BY <1>2, <1>3, FS_Subset
<1>5. Cardinality(A) \in Nat /\ Cardinality(list) \in Nat
  <2> HIDE DEF A
  <2> QED BY <1>1, <1>4, FS_CardinalityType
<1> QED BY <1>1, <1>3, <1>4, <1>5

\* In any order of the list its place is the number of rows ahead of it, and one.
LEMMA PlaceOf ==
    ASSUME NEW list \in SUBSET Items, NEW s \in Orders(list), NEW x \in list, ~Tied(x)
    PROVE  \E m \in DOMAIN s : s[m] = x /\ Cardinality(Ahead(list, x)) = m - 1
<1> DEFINE n == Cardinality(list)
           A == Ahead(list, x)
<1>1. IsFiniteSet(list) /\ n \in Nat
  BY AheadCounts
<1>2. /\ s \in [1 .. n -> list]
      /\ \A i, k \in 1 .. n : i < k => s[i] # s[k] /\ DayOn[s[i]] >= DayOn[s[k]]
  BY DEF Orders
<1>3. \A i, k \in 1 .. n : s[i] = s[k] => i = k
  <2> SUFFICES ASSUME NEW i \in 1 .. n, NEW k \in 1 .. n, s[i] = s[k], i # k PROVE FALSE
    OBVIOUS
  <2>1. i < k \/ k < i
    BY <1>1
  <2> QED BY <1>2, <2>1
<1>4. \A y \in list : \E i \in 1 .. n : s[i] = y
  <2> DEFINE D == 1 .. n
  <2>1. IsFiniteSet(D) /\ Cardinality(D) = n
    BY <1>1, FS_Interval
  <2>2. s \in Injection(D, list)
    BY <1>2, <1>3 DEF Injection, IsInjective
  <2>3. s \in Surjection(D, list)
    <3> HIDE DEF D
    <3> QED BY <1>1, <2>1, <2>2, FS_Injection
  <2> QED BY <2>3 DEF Surjection
<1>5. PICK m \in 1 .. n : s[m] = x
  BY <1>4
<1>6. \A y \in list : y \in Items /\ DayOn[y] \in Nat
  BY ListingAssumption
<1>7. ASSUME NEW i \in 1 .. n PROVE s[i] \in A <=> i < m
  <2>1. s[i] \in list /\ DayOn[s[i]] \in Nat /\ DayOn[x] \in Nat
    BY <1>2, <1>6
  <2>2. ASSUME i < m PROVE s[i] \in A
    <3>1. s[i] # x /\ DayOn[s[i]] >= DayOn[x]
      BY <1>2, <1>5, <2>2
    <3>2. DayOn[s[i]] # DayOn[x]
      BY <1>6, <2>1, <3>1 DEF Tied
    <3> QED BY <2>1, <3>1, <3>2 DEF Ahead
  <2>3. ASSUME ~(i < m) PROVE s[i] \notin A
    <3>1. i = m \/ m < i
      BY <1>1, <2>3
    <3>2. DayOn[x] >= DayOn[s[i]]
      BY <1>2, <1>5, <2>1, <3>1
    <3> QED BY <2>1, <3>2 DEF Ahead
  <2> QED BY <2>2, <2>3
<1>8. Cardinality(A) = m - 1
  <2> DEFINE b == [i \in 1 .. m - 1 |-> s[i]]
  <2>1. \A i \in 1 .. m - 1 : i \in 1 .. n /\ i < m
    BY <1>1
  <2>2. b \in [1 .. m - 1 -> A]
    BY <1>7, <2>1
  <2>3. \A i, k \in 1 .. m - 1 : b[i] = b[k] => i = k
    BY <1>3, <2>1
  <2>4. \A y \in A : \E i \in 1 .. m - 1 : b[i] = y
    <3> SUFFICES ASSUME NEW y \in A PROVE \E i \in 1 .. m - 1 : b[i] = y
      OBVIOUS
    <3>1. y \in list
      BY DEF Ahead
    <3>2. PICK i \in 1 .. n : s[i] = y
      BY <1>4, <3>1
    <3>3. i < m
      BY <1>7, <3>2
    <3>4. i \in 1 .. m - 1
      BY <1>1, <3>3
    <3> QED BY <3>2, <3>4
  <2>5. b \in Bijection(1 .. m - 1, A)
    <3> HIDE DEF b, A
    <3> QED BY <2>2, <2>3, <2>4 DEF Bijection, Injection, IsInjective, Surjection
  <2>6. ExistsBijection(1 .. m - 1, A) /\ m - 1 \in Nat
    BY <2>5 DEF ExistsBijection
  <2> HIDE DEF A
  <2> QED BY <2>6, FS_CountingElements
<1>9. m \in DOMAIN s
  BY <1>2
<1> QED BY <1>5, <1>8, <1>9

\* A page that does not show a row leaves the page's rows before it as well.
LEMMA PageLeavesBehind ==
    ASSUME NEW list \in SUBSET Items, NEW s \in Orders(list), NEW x \in list, ~Tied(x),
           NEW page \in Nat \ {0}, NEW limit \in Nat,
           x \notin {s[i] : i \in PageSlice(page, limit) \cap DOMAIN s},
           Cardinality(Ahead(list, x)) >= (page - 1) * limit
    PROVE  Cardinality(Ahead(list, x)) >= page * limit
<1>1. PICK m \in DOMAIN s : s[m] = x /\ Cardinality(Ahead(list, x)) = m - 1
  BY PlaceOf
<1>2. Cardinality(list) \in Nat /\ DOMAIN s = 1 .. Cardinality(list)
  BY AheadCounts DEF Orders
<1>3. m \notin (page - 1) * limit + 1 .. page * limit
  BY <1>1 DEF PageSlice
<1>4. (page - 1) * limit \in Int /\ page * limit \in Int
  OBVIOUS
<1> QED BY <1>1, <1>2, <1>3, <1>4

\* The list grows at the front of what has not been seen.
LEMMA AheadGrows ==
    ASSUME NEW list \in SUBSET Items, NEW more \in SUBSET Items, list \subseteq more, NEW x \in list
    PROVE  Cardinality(Ahead(list, x)) <= Cardinality(Ahead(more, x))
<1>1. IsFiniteSet(Ahead(more, x)) /\ Ahead(list, x) \subseteq Ahead(more, x)
  BY AheadCounts DEF Ahead
<1> QED BY <1>1, FS_Subset

\* Pages that were asked for hold what there is, when the last of them has been asked for.
LEMMA LastPage ==
    ASSUME NEW page \in Nat, NEW limit \in Nat \ {0}, NEW total \in Nat,
           ~(page < TotalPages(total, limit))
    PROVE  total <= page * limit
<1> DEFINE a == total + limit - 1
           q == a \div limit
<1>1. q \in Int /\ a < q * limit + limit
  BY QuotientIs
<1>2. q <= page
  BY <1>1 DEF TotalPages
<1> HIDE DEF q
<1>3. q * limit <= page * limit /\ q * limit \in Int /\ page * limit \in Int
  BY <1>1, <1>2
<1> QED BY <1>1, <1>3

\* Nobody reads.
LEMMA ListBegins == ListingInit => ListInv
<1> SUFFICES ASSUME ListingInit PROVE ListInv
  OBVIOUS
<1>1. reading.pc = "rest" /\ reading.limit = 0 /\ stood = {}
  BY DEF ListingInit, AtRest
<1>2. ListTyped
  <2>1. reading \in Reading
    BY DEF ListingInit, AtRest, Reading
  <2>2. onList \subseteq Items /\ seen = {} /\ shaken \in BOOLEAN
    BY DEF ListingInit
  <2> QED BY <1>1, <2>1, <2>2, ListingAssumption DEF ListTyped
<1> QED BY <1>1, <1>2 DEF ListInv

\* What the reader has not seen stays ahead.
LEMMA ListStep == ListInv /\ [ListingNext]_listVars => ListInv'
<1> SUFFICES ASSUME ListInv, [ListingNext]_listVars PROVE ListInv'
  OBVIOUS
<1>1. ListTyped /\ MaxPage \in Nat \ {0}
  BY ListingAssumption DEF ListInv
<1>2. CASE OpenWhole
  <2>1. /\ seen' = onList /\ stood' = onList /\ shaken' = FALSE /\ onList' = onList
        /\ reading' = [AtRest EXCEPT !.pc = "done", !.total = Cardinality(onList)]
    BY <1>2 DEF OpenWhole
  <2>2. Cardinality(onList) \in Nat
    BY <1>1, ListingAssumption, FS_Subset, FS_CardinalityType DEF ListTyped
  <2>3. reading'.pc = "done" /\ reading'.limit = 0 /\ reading' \in Reading
    <3>1. reading' = [pc |-> "done", page |-> 0, limit |-> 0, rows |-> FALSE, count |-> FALSE,
                      total |-> Cardinality(onList)]
      BY <2>1 DEF AtRest
    <3> QED BY <2>2, <3>1 DEF Reading
  <2>4. ListTyped'
    <3>1. shaken' \in BOOLEAN /\ seen' = onList /\ stood' = onList /\ onList' = onList
      BY <2>1
    <3>2. 0 <= MaxPage /\ onList \subseteq Items
      BY <1>1 DEF ListTyped
    <3> QED BY <2>3, <3>1, <3>2 DEF ListTyped
  <2> QED BY <2>1, <2>3, <2>4 DEF ListInv
<1>3. CASE OpenPaged
  <2>1. PICK n \in Limits :
           reading' = [AtRest EXCEPT !.pc = "page", !.page = 1, !.limit = Capped(n)]
    BY <1>3 DEF OpenPaged
  <2>2. seen' = {} /\ stood' = onList /\ shaken' = FALSE /\ onList' = onList
    BY <1>3 DEF OpenPaged
  <2>3. n \in Nat \ {0} /\ Capped(n) \in 1 .. MaxPage
    BY <1>1, ListingAssumption DEF Capped
  <2>4. /\ reading'.pc = "page" /\ reading'.page = 1 /\ reading'.limit = Capped(n)
        /\ reading'.rows = FALSE /\ reading'.count = FALSE /\ reading'.total = 0
        /\ reading' \in Reading
    <3>1. reading' = [pc |-> "page", page |-> 1, limit |-> Capped(n), rows |-> FALSE,
                      count |-> FALSE, total |-> 0]
      BY <2>1 DEF AtRest
    <3> QED BY <1>1, <2>3, <3>1 DEF Reading
  <2>5. ListTyped'
    <3>1. shaken' \in BOOLEAN /\ seen' = {} /\ stood' = onList /\ onList' = onList
      BY <2>2
    <3>2. reading'.page >= 1 /\ reading'.limit >= 1 /\ reading'.limit <= MaxPage
      BY <1>1, <2>3, <2>4
    <3>3. onList \subseteq Items
      BY <1>1 DEF ListTyped
    <3> QED BY <2>4, <3>1, <3>2, <3>3 DEF ListTyped
  <2>6. ASSUME NEW x \in onList PROVE StillAhead(x)'
    <3>1. Cardinality(Ahead(onList, x)) \in Nat
      BY <1>1, AheadCounts DEF ListTyped
    <3>2. Turned(reading') * reading'.limit = 0
      BY <2>3, <2>4 DEF Turned
    <3> QED BY <2>2, <2>4, <3>1, <3>2 DEF StillAhead
  <2> QED BY <2>2, <2>4, <2>5, <2>6 DEF ListInv
<1>4. CASE FindRows
  <2>1. PICK s \in Orders(onList) :
           seen' = seen \cup {s[i] : i \in PageSlice(reading.page, reading.limit) \cap DOMAIN s}
    BY <1>4 DEF FindRows
  <2>2. /\ reading.pc = "page" /\ ~reading.rows /\ reading' = [reading EXCEPT !.rows = TRUE]
        /\ onList' = onList /\ stood' = stood /\ shaken' = shaken
    BY <1>4 DEF FindRows
  <2>3. /\ reading \in Reading /\ reading.page \in Nat \ {0} /\ reading.limit \in Nat \ {0}
        /\ onList \in SUBSET Items
    BY <1>1, <2>2 DEF ListTyped, Reading
  <2>4. /\ reading'.pc = "page" /\ reading'.page = reading.page
        /\ reading'.limit = reading.limit /\ reading'.rows = TRUE
        /\ reading'.count = reading.count /\ reading'.total = reading.total
        /\ reading' \in Reading
    BY <2>2, <2>3 DEF Reading
  <2>5. \A i \in DOMAIN s : s[i] \in onList
    BY <2>1 DEF Orders
  <2>6. ListTyped'
    <3>1. seen' \subseteq Items
      BY <1>1, <2>1, <2>3, <2>5 DEF ListTyped
    <3> QED BY <1>1, <2>2, <2>3, <2>4, <3>1 DEF ListTyped
  <2>7. ASSUME NEW x \in stood \ seen', ~shaken, ~Tied(x) PROVE StillAhead(x)'
    <3>1. x \in onList /\ x \in stood \ seen
      BY <1>1, <2>1, <2>7 DEF ListTyped
    <3>2. StillAhead(x)
      BY <2>3, <2>7, <3>1 DEF ListInv
    <3>3. Cardinality(Ahead(onList, x)) >= (reading.page - 1) * reading.limit
      BY <2>2, <3>2 DEF StillAhead, Turned
    <3>4. x \notin {s[i] : i \in PageSlice(reading.page, reading.limit) \cap DOMAIN s}
      BY <2>1, <2>7
    <3>5. Cardinality(Ahead(onList, x)) >= reading.page * reading.limit
      BY <2>1, <2>3, <2>7, <3>1, <3>3, <3>4, PageLeavesBehind
    <3>6. reading.count => reading.total > reading.page * reading.limit
      <4>1. reading.count => reading.total = Cardinality(onList)
        BY <2>2, <2>7 DEF ListInv
      <4>2. Cardinality(Ahead(onList, x)) + 1 <= Cardinality(onList)
            /\ Cardinality(Ahead(onList, x)) \in Nat /\ Cardinality(onList) \in Nat
        BY <2>3, <3>1, AheadCounts
      <4>3. reading.page * reading.limit \in Int
        BY <2>3
      <4> QED BY <3>5, <4>1, <4>2, <4>3
    <3> QED BY <2>2, <2>4, <3>5, <3>6 DEF StillAhead, Turned
  <2> QED BY <2>2, <2>4, <2>6, <2>7 DEF ListInv
<1>5. CASE CountRows
  <2>1. /\ reading.pc = "page" /\ ~reading.count
        /\ reading' = [reading EXCEPT !.count = TRUE, !.total = Cardinality(onList)]
        /\ onList' = onList /\ seen' = seen /\ stood' = stood /\ shaken' = shaken
    BY <1>5 DEF CountRows
  <2>2. /\ reading \in Reading /\ reading.page \in Nat \ {0} /\ reading.limit \in Nat \ {0}
        /\ onList \in SUBSET Items
    BY <1>1, <2>1 DEF ListTyped, Reading
  <2>3. Cardinality(onList) \in Nat
    BY <2>2, ListingAssumption, FS_Subset, FS_CardinalityType
  <2>4. /\ reading'.pc = "page" /\ reading'.page = reading.page
        /\ reading'.limit = reading.limit /\ reading'.rows = reading.rows
        /\ reading'.count = TRUE /\ reading'.total = Cardinality(onList)
        /\ reading' \in Reading
    BY <2>1, <2>2, <2>3 DEF Reading
  <2>5. ListTyped'
    BY <1>1, <2>1, <2>2, <2>4 DEF ListTyped
  <2>6. ASSUME NEW x \in stood \ seen, ~shaken, ~Tied(x) PROVE StillAhead(x)'
    <3>1. x \in onList
      BY <1>1 DEF ListTyped
    <3>2. StillAhead(x)
      BY <2>2, <2>6 DEF ListInv
    <3>3. Cardinality(Ahead(onList, x)) >= Turned(reading) * reading.limit
      BY <2>1, <3>2 DEF StillAhead
    <3>4. /\ Cardinality(Ahead(onList, x)) + 1 <= Cardinality(onList)
          /\ Cardinality(Ahead(onList, x)) \in Nat
      BY <2>2, <3>1, AheadCounts
    <3>5. reading.page * reading.limit \in Int
      BY <2>2
    <3>6. Turned(reading') = Turned(reading)
      BY <2>4 DEF Turned
    <3>7. reading.rows => Cardinality(onList) > reading.page * reading.limit
      <4>1. reading.rows => Turned(reading) = reading.page
        BY DEF Turned
      <4> QED BY <2>3, <3>3, <3>4, <3>5, <4>1
    <3> QED BY <2>1, <2>4, <3>3, <3>6, <3>7 DEF StillAhead
  <2> QED BY <2>1, <2>4, <2>5, <2>6 DEF ListInv
<1>6. CASE TurnPage
  <2>1. /\ reading.pc = "page" /\ reading.rows /\ reading.count
        /\ onList' = onList /\ seen' = seen /\ stood' = stood /\ shaken' = shaken
    BY <1>6 DEF TurnPage
  <2>2. /\ reading \in Reading /\ reading.page \in Nat \ {0} /\ reading.limit \in Nat \ {0}
        /\ reading.total \in Nat /\ onList \in SUBSET Items
    BY <1>1, <2>1 DEF ListTyped, Reading
  <2>3. CASE reading.page < TotalPages(reading.total, reading.limit)
    <3>1. reading' = [reading EXCEPT !.page = @ + 1, !.rows = FALSE, !.count = FALSE]
      BY <1>6, <2>3 DEF TurnPage
    <3>2. /\ reading'.pc = "page" /\ reading'.page = reading.page + 1
          /\ reading'.limit = reading.limit /\ reading'.rows = FALSE
          /\ reading'.count = FALSE /\ reading' \in Reading
      <4>1. reading.page + 1 \in Nat
        BY <2>2
      <4> QED BY <2>1, <2>2, <3>1, <4>1 DEF Reading
    <3>3. ListTyped'
      BY <1>1, <2>1, <2>2, <3>2 DEF ListTyped
    <3>4. ASSUME NEW x \in stood \ seen, ~shaken, ~Tied(x) PROVE StillAhead(x)'
      <4>1. StillAhead(x)
        BY <2>2, <3>4 DEF ListInv
      <4>2. Turned(reading') = Turned(reading)
        BY <2>1, <2>2, <3>2 DEF Turned
      <4> QED BY <2>1, <3>2, <4>1, <4>2 DEF StillAhead
    <3> QED BY <2>1, <3>2, <3>3, <3>4 DEF ListInv
  <2>4. CASE ~(reading.page < TotalPages(reading.total, reading.limit))
    <3>1. reading' = [reading EXCEPT !.pc = "done"]
      BY <1>6, <2>4 DEF TurnPage
    <3>2. /\ reading'.pc = "done" /\ reading'.limit = reading.limit /\ reading' \in Reading
      BY <2>1, <2>2, <3>1 DEF Reading
    <3>3. ListTyped'
      BY <1>1, <2>1, <2>2, <3>2 DEF ListTyped
    <3>4. ASSUME NEW x \in stood \ seen, ~shaken, ~Tied(x) PROVE FALSE
      <4>1. StillAhead(x)
        BY <2>2, <3>4 DEF ListInv
      <4>2. reading.total > reading.page * reading.limit
        BY <2>1, <4>1 DEF StillAhead
      <4>3. reading.total <= reading.page * reading.limit
        BY <2>2, <2>4, LastPage
      <4>4. reading.page * reading.limit \in Int
        BY <2>2
      <4> QED BY <2>2, <4>2, <4>3, <4>4
    <3> QED BY <2>1, <2>2, <3>2, <3>3, <3>4 DEF ListInv
  <2> QED BY <2>3, <2>4
<1>7. CASE PutAway
  <2>1. /\ reading' = AtRest
        /\ onList' = onList /\ seen' = seen /\ stood' = stood /\ shaken' = shaken
    BY <1>7 DEF PutAway
  <2>2. reading'.pc = "rest" /\ reading'.limit = 0 /\ reading' \in Reading
    BY <1>1, <2>1 DEF AtRest, Reading
  <2>3. ListTyped'
    BY <1>1, <2>1, <2>2 DEF ListTyped
  <2> QED BY <2>1, <2>2, <2>3 DEF ListInv
<1>8. CASE AddItem
  <2>1. PICK y \in Items \ onList : onList' = onList \cup {y}
    BY <1>8 DEF AddItem
  <2>2. /\ shaken' = (shaken \/ MidPage)
        /\ reading' = reading /\ seen' = seen /\ stood' = stood
    BY <1>8 DEF AddItem
  <2>3. onList \in SUBSET Items /\ onList' \in SUBSET Items /\ onList \subseteq onList'
    BY <1>1, <2>1 DEF ListTyped
  <2>4. shaken' \in BOOLEAN
    BY <2>2
  <2>5. ListTyped'
    BY <1>1, <2>2, <2>3, <2>4 DEF ListTyped
  <2>6. ASSUME NEW x \in stood \ seen, ~shaken, ~Tied(x), reading.limit > 0
        PROVE  StillAhead(x)'
    <3>1. x \in onList
      BY <1>1 DEF ListTyped
    <3>2. StillAhead(x)
      BY <2>6 DEF ListInv
    <3>3. Cardinality(Ahead(onList, x)) <= Cardinality(Ahead(onList', x))
      BY <2>3, <3>1, AheadGrows
    <3>4. /\ Cardinality(Ahead(onList, x)) \in Nat /\ Cardinality(Ahead(onList', x)) \in Nat
      BY <2>3, <3>1, AheadCounts
    <3>5. reading.pc = "page" => Turned(reading) * reading.limit \in Int
      BY <1>1 DEF ListTyped, Reading, Turned
    <3> QED BY <2>2, <3>2, <3>3, <3>4, <3>5 DEF StillAhead
  <2>7. reading.pc = "page" /\ reading.count /\ ~reading.rows => shaken'
    BY <1>1, <2>2 DEF MidPage, ListTyped, Reading
  <2> QED BY <2>2, <2>5, <2>6, <2>7 DEF ListInv
<1>9. CASE RemoveItem
  <2>1. PICK y \in onList : onList' = onList \ {y} /\ stood' = stood \ {y}
    BY <1>9 DEF RemoveItem
  <2>2. shaken' = TRUE /\ reading' = reading /\ seen' = seen
    BY <1>9 DEF RemoveItem
  <2>3. ListTyped'
    BY <1>1, <2>1, <2>2 DEF ListTyped
  <2> QED BY <2>1, <2>2, <2>3 DEF ListInv
<1>10. CASE UNCHANGED listVars
  <2>1. /\ onList' = onList /\ reading' = reading /\ seen' = seen
        /\ stood' = stood /\ shaken' = shaken
    BY <1>10 DEF listVars
  <2> QED BY <2>1 DEF ListInv, ListTyped, StillAhead
<1> QED BY <1>2, <1>3, <1>4, <1>5, <1>6, <1>7, <1>8, <1>9, <1>10 DEF ListingNext

\* Whoever has read the last page has seen what stood, but for what the comment excepts.
LEMMA ListSuffices == ListInv => ListingTypeOK /\ PagesMissNothingUnlessShaken
<1> SUFFICES ASSUME ListInv PROVE ListingTypeOK /\ PagesMissNothingUnlessShaken
  OBVIOUS
<1>1. ListTyped
  BY DEF ListInv
<1>2. ListingTypeOK
  BY <1>1 DEF ListTyped, ListingTypeOK, Reading
<1>3. PagesMissNothingUnlessShaken
  <2> SUFFICES ASSUME reading.pc = "done", NEW x \in stood \ seen
               PROVE  reading.limit > 0 /\ (shaken \/ Tied(x))
    BY DEF PagesMissNothingUnlessShaken
  <2>1. reading.limit \in Nat
    BY <1>1, ListingAssumption DEF ListTyped, Reading
  <2>2. reading.limit # 0
    BY DEF ListInv
  <2>3. ~shaken => Tied(x) \/ StillAhead(x)
    BY <2>1, <2>2 DEF ListInv
  <2> QED BY <2>1, <2>2, <2>3 DEF StillAhead
<1> QED BY <1>2, <1>3

-----------------------------------------------------------------------------
(***************************************************************************)
(* The platform's own books.  What a nightly job has read is as it was     *)
(* read, and it was so at one moment unless it is marked; what a moment's  *)
(* figures are to each other is a matter of sums.                          *)
(***************************************************************************)
Brings(n, m) ==
    \A low, high \in PlansSold :
        (\A k \in PlansSold : PriceOf[low] <= PriceOf[k] /\ PriceOf[k] <= PriceOf[high])
            => n * PriceOf[low] <= m /\ m <= n * PriceOf[high]

\* What a job has read, of the figures as they are.
HasRead(r) ==
    /\ "paying" \in r.read /\ "status" \notin r.read => r.mrr = Recurring
    /\ "status" \in r.read /\ "paying" \notin r.read => r.of = ByStatus
    /\ r.read = Readings => Brings(r.of["active"] + r.of["past_due"], r.mrr)

JobRow == [pc : {"idle", "reading"}, day : 0 .. LastNight, read : SUBSET Readings, mrr : Nat,
           of : [Counted -> Nat], shifted : BOOLEAN]

TakingsInv ==
    /\ TakingsTypeOK /\ NoDayAhead
    /\ \A m \in Jobs24 : /\ job[m].pc = "idle" => job[m].read = {}
                         /\ ~job[m].shifted => HasRead(job[m])

\* The price that each of the paying brings.
PriceAt == [a \in OwedBy |-> PriceOf[paying[a].plan]]

\* The figures of one moment are numbers.
LEMMA FiguresAre ==
    ASSUME TakingsTypeOK
    PROVE  /\ IsFiniteSet(OwedBy) /\ PriceAt \in [OwedBy -> Nat] /\ PriceAt \in [OwedBy -> Int]
           /\ Recurring = SumFunction(PriceAt) /\ Recurring \in Nat
           /\ ByStatus \in [Counted -> Nat] /\ Cardinality(Agencies) \in Nat
           /\ Cardinality(OwedBy) = ByStatus["active"] + ByStatus["past_due"]
           /\ Cardinality(OwedBy) \in Nat
<1>1. IsFiniteSet(Agencies) /\ PriceOf \in [PlansSold -> Nat]
  BY TakingsAssumption
<1>2. \A a \in Agencies : paying[a].plan \in PlansSold
  BY DEF TakingsTypeOK
<1>3. IsFiniteSet(OwedBy) /\ OwedBy \subseteq Agencies
  BY <1>1, FS_Subset DEF OwedBy
<1>4. PriceAt \in [OwedBy -> Nat] /\ PriceAt \in [OwedBy -> Int]
  BY <1>1, <1>2, <1>3 DEF PriceAt
<1>5. Recurring = SumFunction(PriceAt)
  BY DEF Recurring, PriceAt
<1>6. Recurring \in Nat
  BY <1>3, <1>4, <1>5, SumOfNaturals
<1>7. ASSUME NEW s \in Counted
      PROVE  LET with == {a \in Agencies : paying[a].status = s}
             IN  IsFiniteSet(with) /\ Cardinality(with) \in Nat /\ ByStatus[s] = Cardinality(with)
  <2> DEFINE with == {a \in Agencies : paying[a].status = s}
  <2>1. with \in SUBSET Agencies /\ ByStatus[s] = Cardinality(with)
    BY DEF ByStatus
  <2> HIDE DEF with
  <2>2. IsFiniteSet(with) /\ Cardinality(with) \in Nat
    BY <1>1, <2>1, FS_Subset, FS_CardinalityType
  <2> QED BY <2>1, <2>2 DEF with
<1>8. ByStatus \in [Counted -> Nat]
  BY <1>7 DEF ByStatus
<1>9. Cardinality(OwedBy) = ByStatus["active"] + ByStatus["past_due"]
  <2> DEFINE A == {a \in Agencies : paying[a].status = "active"}
             D == {a \in Agencies : paying[a].status = "past_due"}
  <2>1. OwedBy = A \cup D /\ A \cap D = {}
    BY DEF OwedBy
  <2>2. /\ IsFiniteSet(A) /\ Cardinality(A) \in Nat /\ ByStatus["active"] = Cardinality(A)
        /\ IsFiniteSet(D) /\ Cardinality(D) \in Nat /\ ByStatus["past_due"] = Cardinality(D)
    BY <1>7 DEF Counted
  <2> HIDE DEF A, D
  <2>3. Cardinality(A \cup D) = Cardinality(A) + Cardinality(D) - Cardinality(A \cap D)
    BY <2>2, FS_Union
  <2>4. Cardinality({}) = 0
    BY FS_EmptySet
  <2> QED BY <2>1, <2>2, <2>3, <2>4
<1>10. Cardinality(OwedBy) \in Nat /\ Cardinality(Agencies) \in Nat
  BY <1>1, <1>3, FS_CardinalityType
<1> QED BY <1>3, <1>4, <1>5, <1>6, <1>8, <1>9, <1>10

\* What is owed of a month lies between the lowest price and the highest, so many times.
LEMMA PricesBound ==
    ASSUME TakingsTypeOK PROVE Brings(ByStatus["active"] + ByStatus["past_due"], Recurring)
<1>1. /\ IsFiniteSet(OwedBy) /\ PriceAt \in [OwedBy -> Int] /\ Recurring = SumFunction(PriceAt)
      /\ Cardinality(OwedBy) = ByStatus["active"] + ByStatus["past_due"]
      /\ Cardinality(OwedBy) \in Nat
  BY FiguresAre
<1>2. \A a \in OwedBy : paying[a].plan \in PlansSold /\ PriceAt[a] = PriceOf[paying[a].plan]
  BY DEF OwedBy, TakingsTypeOK, PriceAt
<1>3. SUFFICES ASSUME NEW low \in PlansSold, NEW high \in PlansSold,
                      \A k \in PlansSold : PriceOf[low] <= PriceOf[k] /\ PriceOf[k] <= PriceOf[high]
               PROVE  /\ Cardinality(OwedBy) * PriceOf[low] <= Recurring
                      /\ Recurring <= Cardinality(OwedBy) * PriceOf[high]
  BY <1>1 DEF Brings
<1> DEFINE f == [a \in OwedBy |-> PriceOf[low]]
           h == [a \in OwedBy |-> PriceOf[high]]
<1>4. PriceOf[low] \in Int /\ PriceOf[high] \in Int
  BY TakingsAssumption
<1>5. /\ f \in [OwedBy -> Int] /\ \A a \in OwedBy : f[a] = PriceOf[low] /\ f[a] <= PriceAt[a]
      /\ h \in [OwedBy -> Int] /\ \A a \in OwedBy : h[a] = PriceOf[high] /\ PriceAt[a] <= h[a]
  BY <1>2, <1>3, <1>4
<1> HIDE DEF f, h
<1>6. SumFunction(f) = PriceOf[low] * Cardinality(OwedBy)
  BY <1>1, <1>4, <1>5, SumOfEqual
<1>7. SumFunction(h) = PriceOf[high] * Cardinality(OwedBy)
  BY <1>1, <1>4, <1>5, SumOfEqual
<1>8. SumFunction(f) <= SumFunction(PriceAt) /\ SumFunction(PriceAt) <= SumFunction(h)
  BY <1>1, <1>5, SumGrows
<1> QED BY <1>1, <1>4, <1>6, <1>7, <1>8

\* The plans of the report are those that somebody pays for, and they add up.
LEMMA PlansDoAddUp == ASSUME TakingsTypeOK PROVE PlansAddUp
<1> DEFINE K == {paying[a].plan : a \in OwedBy}
           plan == [a \in OwedBy |-> paying[a].plan]
           For(k) == {a \in OwedBy : paying[a].plan = k}
           sizes == [k \in K |-> Cardinality(For(k))]
           sums == [k \in K |-> Cardinality(For(k)) * PriceOf[k]]
<1>1. /\ IsFiniteSet(OwedBy) /\ PriceAt \in [OwedBy -> Int] /\ Recurring = SumFunction(PriceAt)
      /\ Cardinality(OwedBy) = ByStatus["active"] + ByStatus["past_due"]
  BY FiguresAre
<1>2. PriceOf \in [PlansSold -> Nat]
  BY TakingsAssumption
<1>3. IsFiniteSet(K)
  <2>1. \A k \in K : \E a \in OwedBy : plan[a] = k
    OBVIOUS
  <2> HIDE DEF K, plan
  <2> QED BY <1>1, <2>1, ImageIsFinite
<1>4. \A a \in OwedBy : plan[a] = paying[a].plan /\ plan[a] \in K /\ plan[a] \in PlansSold
  BY DEF OwedBy, TakingsTypeOK
<1>5. K \subseteq PlansSold
  BY <1>4
<1>6. ASSUME NEW k \in K
      PROVE  /\ Cardinality(For(k)) \in Nat /\ For(k) = {a \in OwedBy : plan[a] = k}
             /\ SumFunction(GroupOf(PriceAt, plan, k)) = Cardinality(For(k)) * PriceOf[k]
  <2> DEFINE Q == {a \in OwedBy : plan[a] = k}
             e == Restrict(PriceAt, Q)
  <2>1. Q = For(k) /\ Q \in SUBSET OwedBy /\ PriceOf[k] \in Int
    BY <1>2, <1>5
  <2>2. GroupOf(PriceAt, plan, k) = e
    BY <1>1 DEF GroupOf
  <2>3. \A a \in Q : PriceAt[a] = PriceOf[k]
    BY DEF PriceAt
  <2> HIDE DEF Q
  <2>4. IsFiniteSet(Q) /\ e \in [Q -> Int] /\ \A a \in Q : e[a] = PriceOf[k]
    BY <1>1, <2>1, <2>3, PartOfSum
  <2> HIDE DEF e, For, plan, K
  <2>5. SumFunction(e) = PriceOf[k] * Cardinality(Q) /\ Cardinality(Q) \in Nat
    BY <2>1, <2>4, SumOfEqual, FS_CardinalityType
  <2>6. SumFunction(e) = Cardinality(Q) * PriceOf[k]
    BY <2>1, <2>5
  <2> QED BY <2>1, <2>2, <2>5, <2>6 DEF Q
<1>7. SumFunction(sums) = Recurring
  <2>1. sums \in [K -> Int] /\ \A k \in K : sums[k] = SumFunction(GroupOf(PriceAt, plan, k))
    <3>1. \A k \in K : PriceOf[k] \in Nat /\ Cardinality(For(k)) \in Nat
      BY <1>2, <1>5, <1>6
    <3>2. \A k \in K : Cardinality(For(k)) * PriceOf[k] \in Int
      <4>1. \A m, n \in Nat : m * n \in Int
        OBVIOUS
      <4> HIDE DEF For, K
      <4> QED BY <3>1, <4>1
    <3> DEFINE worth(k) == Cardinality(For(k)) * PriceOf[k]
    <3>3. \A k \in K : worth(k) \in Int /\ worth(k) = SumFunction(GroupOf(PriceAt, plan, k))
      BY <1>6, <3>2
    <3>4. sums = [k \in K |-> worth(k)]
      OBVIOUS
    <3> HIDE DEF worth, K, plan, sums
    <3> QED BY <3>3, <3>4
  <2>2. \A a \in OwedBy : plan[a] \in K
    BY <1>4
  <2> HIDE DEF sums, plan, K
  <2> QED BY <1>1, <1>3, <2>1, <2>2, SumOfGroups
<1>8. SumFunction(sizes) = Cardinality(OwedBy)
  <2>1. sizes \in [K -> Int] /\ \A k \in K : sizes[k] = Cardinality({a \in OwedBy : plan[a] = k})
    <3> HIDE DEF For, K, plan
    <3> QED BY <1>6
  <2>2. \A a \in OwedBy : plan[a] \in K
    BY <1>4
  <2> HIDE DEF sizes, plan, K
  <2> QED BY <1>1, <1>3, <2>1, <2>2, CountOfGroups
<1>9. /\ DOMAIN ByPlan = K
      /\ [k \in K |-> ByPlan[k].mrr] = sums /\ [k \in K |-> ByPlan[k].companies] = sizes
  BY DEF ByPlan
<1>10. PICK r : r = Report(0, LastNight)
  OBVIOUS
<1>11. /\ r.plans = ByPlan /\ r.mrr = Recurring /\ r.paying = Cardinality(OwedBy)
       /\ r.net = Recurring - Spent(0, LastNight)
  BY <1>10 DEF Report
<1>12. /\ SumFunction([k \in DOMAIN r.plans |-> r.plans[k].mrr]) = r.mrr
       /\ SumFunction([k \in DOMAIN r.plans |-> r.plans[k].companies]) = r.paying
  <2> HIDE DEF K, sums, sizes
  <2> QED BY <1>7, <1>8, <1>9, <1>11
<1> HIDE DEF K, sums, sizes, plan, For
<1> QED BY <1>1, <1>10, <1>11, <1>12 DEF PlansAddUp

\* The row of a job, as it is typed.
LEMMA TakingsTypes ==
    TakingsTypeOK <=>
        /\ paying \in [Agencies -> [status : Statuses, plan : PlansSold]]
        /\ cost \in [Costs -> CostRow]
        /\ night \in 0 .. LastNight /\ shifts \in 0 .. MaxShifts
        /\ snapshot \in [0 .. LastNight -> Snapshots \cup {NoSnapshot}]
        /\ job \in [Jobs24 -> JobRow]
  BY DEF TakingsTypeOK, JobRow

\* What a job has read stays as it is read while no subscription changes.
LEMMA ReadingsStay ==
    ASSUME paying' = paying, NEW r PROVE HasRead(r)' <=> HasRead(r)
<1>1. Recurring' = Recurring /\ ByStatus' = ByStatus
  BY DEF Recurring, OwedBy, ByStatus
<1> QED BY <1>1 DEF HasRead, Brings

\* Nothing is on file, and no job is under way.
LEMMA TakingsBegins == ASSUME TakingsInit PROVE TakingsInv
<1>1. LastNight \in Nat /\ MaxShifts \in Nat
  BY TakingsAssumption
<1>2. Waiting = [pc |-> "idle", day |-> 0, read |-> {}, mrr |-> 0, of |-> [s \in Counted |-> 0],
                 shifted |-> FALSE]
  BY DEF Waiting
<1>3. Waiting \in JobRow
  <2>1. [s \in Counted |-> 0] \in [Counted -> Nat]
    OBVIOUS
  <2>2. 0 \in 0 .. LastNight
    BY <1>1
  <2> HIDE DEF Counted
  <2> QED BY <1>2, <2>1, <2>2 DEF JobRow, Readings
<1>4. \A z \in Jobs24 : job[z] = Waiting
  BY DEF TakingsInit
<1>5. [at |-> "none", day |-> 0, sum |-> 0] \in CostRow
  BY <1>1 DEF CostRow
<1>6. cost \in [Costs -> CostRow]
  BY <1>5 DEF TakingsInit
<1>7. job \in [Jobs24 -> JobRow]
  BY <1>3 DEF TakingsInit
<1>8. /\ night = 0 /\ shifts = 0 /\ snapshot = [d \in 0 .. LastNight |-> NoSnapshot]
      /\ paying \in [Agencies -> [status : Statuses, plan : PlansSold]]
  BY DEF TakingsInit
<1>9. TakingsTypeOK
  BY <1>1, <1>6, <1>7, <1>8, TakingsTypes
<1>10. NoDayAhead
  BY <1>1, <1>2, <1>4, <1>8 DEF NoDayAhead
<1>11. \A z \in Jobs24 : job[z].read = {}
  BY <1>2, <1>4
<1>12. \A z \in Jobs24 : HasRead(job[z])
  BY <1>11 DEF HasRead, Readings
<1> QED BY <1>9, <1>10, <1>11, <1>12 DEF TakingsInv

\* An expense that is edited or deleted is one.
LEMMA ExpenseIsEdited ==
    ASSUME NEW x \in CostRow, NEW d \in 0 .. LastNight, NEW n \in Sums
    PROVE  [x EXCEPT !.day = d, !.sum = n] \in CostRow /\ [x EXCEPT !.at = "deleted"] \in CostRow
  BY DEF CostRow

\* One job goes on, or starts again, and perhaps writes its row.
LEMMA JobGoesOn ==
    ASSUME TakingsInv, NEW z \in Jobs24, NEW r \in JobRow, r.day <= night,
           r.pc = "idle" => r.read = {}, ~r.shifted => HasRead(r),
           job' = [job EXCEPT ![z] = r], UNCHANGED <<paying, shifts, cost, night>>,
           NEW d \in 0 .. night, NEW row \in Snapshots,
           snapshot' = snapshot \/ snapshot' = [snapshot EXCEPT ![d] = row]
    PROVE  TakingsInv'
<1>1. LastNight \in Nat /\ MaxShifts \in Nat
  BY TakingsAssumption
<1>2. /\ paying' = paying /\ shifts' = shifts /\ cost' = cost /\ night' = night
  OBVIOUS
<1>3. /\ paying \in [Agencies -> [status : Statuses, plan : PlansSold]]
      /\ cost \in [Costs -> CostRow]
      /\ night \in 0 .. LastNight /\ shifts \in 0 .. MaxShifts
      /\ snapshot \in [0 .. LastNight -> Snapshots \cup {NoSnapshot}]
      /\ job \in [Jobs24 -> JobRow]
  BY TakingsTypes DEF TakingsInv
<1>4. job' \in [Jobs24 -> JobRow]
  BY <1>3
<1>5. snapshot' \in [0 .. LastNight -> Snapshots \cup {NoSnapshot}]
  BY <1>3
<1>6. TakingsTypeOK'
  BY <1>2, <1>3, <1>4, <1>5 DEF TakingsTypeOK, JobRow
<1>7. \A m \in Jobs24 : job'[m] = IF m = z THEN r ELSE job[m]
  BY <1>3
<1>8. \A e \in night + 1 .. LastNight : snapshot'[e] = snapshot[e]
  BY <1>1, <1>3
<1>9. NoDayAhead'
  BY <1>2, <1>7, <1>8 DEF TakingsInv, NoDayAhead
<1>10. ASSUME NEW m \in Jobs24
       PROVE  /\ job'[m].pc = "idle" => job'[m].read = {}
              /\ ~job'[m].shifted => HasRead(job'[m])
  BY <1>7 DEF TakingsInv
<1>11. ASSUME NEW m \in Jobs24, ~job'[m].shifted PROVE HasRead(job[m])'
  <2>1. PICK x : x = job'[m]
    OBVIOUS
  <2>2. HasRead(x)
    BY <1>10, <1>11, <2>1
  <2>3. HasRead(x)'
    BY <1>2, <2>2, ReadingsStay
  <2> QED BY <2>1, <2>3
<1> QED BY <1>6, <1>9, <1>10, <1>11 DEF TakingsInv

\* Every step of the platform's books keeps what is true of them.
LEMMA TakingsStep == ASSUME TakingsInv, [TakingsNext]_takingsVars PROVE TakingsInv'
<1>1. LastNight \in Nat /\ MaxShifts \in Nat
  BY TakingsAssumption
<1>2. TakingsTypeOK /\ NoDayAhead
  BY DEF TakingsInv
<1>3. /\ paying \in [Agencies -> [status : Statuses, plan : PlansSold]]
      /\ cost \in [Costs -> CostRow]
      /\ night \in 0 .. LastNight /\ shifts \in 0 .. MaxShifts
      /\ snapshot \in [0 .. LastNight -> Snapshots \cup {NoSnapshot}]
      /\ job \in [Jobs24 -> JobRow]
  BY <1>2, TakingsTypes
<1>4. PICK spare : spare = [mrr |-> 0, total |-> 0, of |-> [s \in Counted |-> 0]]
  OBVIOUS
<1>5. spare \in Snapshots /\ 0 \in 0 .. night
  <2>1. [s \in Counted |-> 0] \in [Counted -> Nat]
    OBVIOUS
  <2> HIDE DEF Counted
  <2> QED BY <1>3, <1>4, <2>1 DEF Snapshots
<1>6. /\ Waiting = [pc |-> "idle", day |-> 0, read |-> {}, mrr |-> 0,
                    of |-> [s \in Counted |-> 0], shifted |-> FALSE]
      /\ Waiting \in JobRow /\ HasRead(Waiting) /\ Waiting.day <= night
  <2>1. Waiting = [pc |-> "idle", day |-> 0, read |-> {}, mrr |-> 0,
                   of |-> [s \in Counted |-> 0], shifted |-> FALSE]
    BY DEF Waiting
  <2>2. [s \in Counted |-> 0] \in [Counted -> Nat] /\ 0 \in 0 .. LastNight /\ 0 <= night
    BY <1>1, <1>3
  <2>3. HasRead(Waiting)
    BY <2>1 DEF HasRead, Readings
  <2> HIDE DEF Counted
  <2> QED BY <2>1, <2>2, <2>3 DEF JobRow, Readings
<1>7. ASSUME NEW z \in Jobs24
      PROVE  /\ job[z] \in JobRow /\ job[z].day <= night /\ job[z].day \in 0 .. night
             /\ job[z].pc = "idle" => job[z].read = {}
             /\ ~job[z].shifted => HasRead(job[z])
             /\ job[z] = [pc |-> job[z].pc, day |-> job[z].day, read |-> job[z].read,
                          mrr |-> job[z].mrr, of |-> job[z].of, shifted |-> job[z].shifted]
  <2>1. job[z] \in JobRow
    BY <1>3
  <2>2. job[z].day <= night /\ job[z].day \in 0 .. LastNight
    BY <1>2, <2>1 DEF NoDayAhead, JobRow
  <2>3. job[z].day \in 0 .. night
    BY <1>1, <1>3, <2>2
  <2>4. job[z] = [pc |-> job[z].pc, day |-> job[z].day, read |-> job[z].read,
                  mrr |-> job[z].mrr, of |-> job[z].of, shifted |-> job[z].shifted]
    BY <2>1 DEF JobRow
  <2> QED BY <2>1, <2>2, <2>3, <2>4 DEF TakingsInv
<1>8. ASSUME NEW z \in Jobs24, StartSnapshot(z) PROVE TakingsInv'
  <2>1. PICK r : r = [Waiting EXCEPT !.pc = "reading", !.day = night]
    OBVIOUS
  <2>2. job' = [job EXCEPT ![z] = r]
    BY <1>8, <2>1 DEF StartSnapshot
  <2>3. HasRead(r) /\ r.pc # "idle"
    <3>1. r.read = {} /\ r.pc = "reading"
      BY <1>6, <2>1
    <3> QED BY <3>1 DEF HasRead, Readings
  <2>4. r \in JobRow /\ r.day <= night
    <3>1. PICK w \in JobRow : w = Waiting
      BY <1>6
    <3>2. r = [w EXCEPT !.pc = "reading", !.day = night]
      BY <2>1, <3>1
    <3>3. r \in JobRow /\ r.day = night
      <4> HIDE DEF Counted
      <4> QED BY <1>3, <3>2 DEF JobRow
    <3> QED BY <1>1, <1>3, <3>3
  <2>5. UNCHANGED <<paying, shifts, cost, night>> /\ snapshot' = snapshot
    BY <1>8 DEF StartSnapshot
  <2> QED BY <1>5, <2>2, <2>3, <2>4, <2>5, JobGoesOn
<1>9. ASSUME NEW z \in Jobs24, ReadPaying(z) PROVE TakingsInv'
  <2>1. PICK b \in JobRow : b = job[z]
    BY <1>7
  <2>2. PICK q \in SUBSET Readings : q = b.read \cup {"paying"}
    BY <2>1 DEF JobRow, Readings
  <2>3. PICK r : r = [b EXCEPT !.read = q, !.mrr = Recurring]
    OBVIOUS
  <2>4. job' = [job EXCEPT ![z] = r]
    <3>1. job' = [job EXCEPT ![z] = [job[z] EXCEPT !.read = job[z].read \cup {"paying"},
                                                   !.mrr = Recurring]]
      BY <1>3, <1>9 DEF ReadPaying
    <3> QED BY <2>1, <2>2, <2>3, <3>1
  <2>5. /\ r \in JobRow /\ r.pc = b.pc /\ r.day = b.day /\ r.read = q /\ r.shifted = b.shifted
        /\ r.mrr = Recurring /\ r.of = b.of
    <3>1. Recurring \in Nat /\ ByStatus \in [Counted -> Nat]
      BY <1>2, FiguresAre
    <3>2. PICK v : v = Recurring
      OBVIOUS
    <3>3. v \in Nat /\ r = [b EXCEPT !.read = q, !.mrr = v]
      BY <2>3, <3>1, <3>2
    <3>4. /\ r \in JobRow /\ r.pc = b.pc /\ r.day = b.day /\ r.read = q /\ r.shifted = b.shifted
          /\ r.mrr = v /\ r.of = b.of
      BY <3>3 DEF JobRow
    <3> QED BY <3>2, <3>4
  <2>6. r.day <= night /\ r.pc # "idle"
    BY <1>7, <1>9, <2>1, <2>5 DEF ReadPaying
  <2>7. ASSUME ~r.shifted PROVE HasRead(r)
    <3>1. HasRead(b)
      BY <1>7, <2>1, <2>5, <2>7
    <3>2. CASE "status" \in b.read
      <4>1. b.of = ByStatus
        BY <1>9, <2>1, <3>1, <3>2 DEF HasRead, ReadPaying
      <4>2. Brings(r.of["active"] + r.of["past_due"], r.mrr)
        BY <1>2, <2>5, <4>1, PricesBound
      <4> QED BY <2>2, <2>5, <3>2, <4>2 DEF HasRead
    <3>3. CASE "status" \notin b.read
      BY <2>2, <2>5, <3>3 DEF HasRead, Readings
    <3> QED BY <3>2, <3>3
  <2>8. UNCHANGED <<paying, shifts, cost, night>> /\ snapshot' = snapshot
    BY <1>9 DEF ReadPaying
  <2> QED BY <1>5, <2>4, <2>5, <2>6, <2>7, <2>8, JobGoesOn
<1>10. ASSUME NEW z \in Jobs24, ReadStatuses(z) PROVE TakingsInv'
  <2>1. PICK b \in JobRow : b = job[z]
    BY <1>7
  <2>2. PICK q \in SUBSET Readings : q = b.read \cup {"status"}
    BY <2>1 DEF JobRow, Readings
  <2>3. PICK r : r = [b EXCEPT !.read = q, !.of = ByStatus]
    OBVIOUS
  <2>4. job' = [job EXCEPT ![z] = r]
    <3>1. job' = [job EXCEPT ![z] = [job[z] EXCEPT !.read = job[z].read \cup {"status"},
                                                   !.of = ByStatus]]
      BY <1>3, <1>10 DEF ReadStatuses
    <3> QED BY <2>1, <2>2, <2>3, <3>1
  <2>5. /\ r \in JobRow /\ r.pc = b.pc /\ r.day = b.day /\ r.read = q /\ r.shifted = b.shifted
        /\ r.of = ByStatus /\ r.mrr = b.mrr
    <3>1. Recurring \in Nat /\ ByStatus \in [Counted -> Nat]
      BY <1>2, FiguresAre
    <3>2. PICK v : v = ByStatus
      OBVIOUS
    <3>3. v \in [Counted -> Nat] /\ r = [b EXCEPT !.read = q, !.of = v]
      BY <2>3, <3>1, <3>2
    <3>4. /\ r \in JobRow /\ r.pc = b.pc /\ r.day = b.day /\ r.read = q /\ r.shifted = b.shifted
          /\ r.of = v /\ r.mrr = b.mrr
      BY <3>3 DEF JobRow
    <3> QED BY <3>2, <3>4
  <2>6. r.day <= night /\ r.pc # "idle"
    BY <1>7, <1>10, <2>1, <2>5 DEF ReadStatuses
  <2>7. ASSUME ~r.shifted PROVE HasRead(r)
    <3>1. HasRead(b)
      BY <1>7, <2>1, <2>5, <2>7
    <3>2. CASE "paying" \in b.read
      <4>1. b.mrr = Recurring
        BY <1>10, <2>1, <3>1, <3>2 DEF HasRead, ReadStatuses
      <4>2. Brings(r.of["active"] + r.of["past_due"], r.mrr)
        BY <1>2, <2>5, <4>1, PricesBound
      <4> QED BY <2>2, <2>5, <3>2, <4>2 DEF HasRead
    <3>3. CASE "paying" \notin b.read
      BY <2>2, <2>5, <3>3 DEF HasRead, Readings
    <3> QED BY <3>2, <3>3
  <2>8. UNCHANGED <<paying, shifts, cost, night>> /\ snapshot' = snapshot
    BY <1>10 DEF ReadStatuses
  <2> QED BY <1>5, <2>4, <2>5, <2>6, <2>7, <2>8, JobGoesOn
<1>11. ASSUME NEW z \in Jobs24, UpsertSnapshot(z) PROVE TakingsInv'
  <2>1. PICK row : row = [mrr |-> job[z].mrr, total |-> Cardinality(Agencies), of |-> job[z].of]
    OBVIOUS
  <2>2. row \in Snapshots
    <3>1. Cardinality(Agencies) \in Nat
      BY <1>2, FiguresAre
    <3> HIDE DEF Counted
    <3> QED BY <1>7, <2>1, <3>1 DEF JobRow, Snapshots
  <2>3. PICK d \in 0 .. night : d = job[z].day
    BY <1>7
  <2>4. snapshot' = [snapshot EXCEPT ![d] = row] /\ job' = [job EXCEPT ![z] = Waiting]
    BY <1>11, <2>1, <2>3 DEF UpsertSnapshot
  <2>5. UNCHANGED <<paying, shifts, cost, night>>
    BY <1>11 DEF UpsertSnapshot
  <2>6. Waiting.read = {}
    BY <1>6
  <2> QED BY <1>6, <2>2, <2>4, <2>5, <2>6, JobGoesOn
<1>12. ASSUME NEW z \in Jobs24, FailSnapshot(z) PROVE TakingsInv'
  <2>1. job' = [job EXCEPT ![z] = Waiting] /\ snapshot' = snapshot
    BY <1>12 DEF FailSnapshot
  <2>2. UNCHANGED <<paying, shifts, cost, night>> /\ Waiting.read = {}
    BY <1>6, <1>12 DEF FailSnapshot
  <2> QED BY <1>5, <1>6, <2>1, <2>2, JobGoesOn
<1>13. ASSUME UNCHANGED <<paying, shifts, snapshot, job>>, cost' \in [Costs -> CostRow],
              night' \in night .. LastNight
       PROVE  TakingsInv'
  <2>1. paying' = paying /\ shifts' = shifts /\ snapshot' = snapshot /\ job' = job
    BY <1>13
  <2>2. night' \in 0 .. LastNight /\ night <= night' /\ night' \in Int /\ night \in Int
    BY <1>1, <1>3, <1>13
  <2>3. TakingsTypeOK'
    BY <1>3, <1>13, <2>1, <2>2 DEF TakingsTypeOK, JobRow
  <2>4. NoDayAhead'
    <3>1. \A z \in Jobs24 : job[z].day \in Int /\ job[z].day <= night
      <4>1. \A d \in 0 .. LastNight : d \in Int
        OBVIOUS
      <4> QED BY <1>7, <4>1 DEF JobRow
    <3>2. \A d \in night' + 1 .. LastNight : d \in night + 1 .. LastNight
      <4>1. PICK m \in Int, n \in Int : m = night /\ n = night' /\ m <= n
        BY <2>2
      <4>2. ASSUME NEW d \in n + 1 .. LastNight PROVE d \in m + 1 .. LastNight
        <5>1. LastNight \in Int /\ n + 1 \in Int /\ m + 1 \in Int
          BY <1>1, <4>1
        <5>2. d \in Int /\ n + 1 <= d /\ d <= LastNight
          BY <4>2, <5>1
        <5>3. m <= n
          BY <4>1
        <5>4. m + 1 <= d
          BY <5>2, <5>3
        <5> QED BY <5>1, <5>2, <5>4
      <4> QED BY <4>1, <4>2
    <3>3. \A d \in night' + 1 .. LastNight : snapshot'[d] = NoSnapshot
      BY <1>2, <2>1, <3>2 DEF NoDayAhead
    <3>4. \A z \in Jobs24 : job'[z].day <= night'
      BY <2>1, <2>2, <3>1
    <3> QED BY <3>3, <3>4 DEF NoDayAhead
  <2>5. ASSUME NEW m \in Jobs24
        PROVE  /\ job'[m].pc = "idle" => job'[m].read = {}
               /\ ~job'[m].shifted => HasRead(job[m])'
    <3>1. PICK x : x = job[m]
      OBVIOUS
    <3>2. HasRead(x)' <=> HasRead(x)
      BY <2>1, ReadingsStay
    <3> QED BY <1>7, <2>1, <3>1, <3>2
  <2> QED BY <2>3, <2>4, <2>5 DEF TakingsInv
<1>14. ASSUME NEW x \in Costs, CreateExpense(x) \/ UpdateExpense(x) \/ DeleteExpense(x)
       PROVE  TakingsInv'
  <2>1. UNCHANGED <<paying, shifts, snapshot, job>> /\ night' = night
    BY <1>14 DEF CreateExpense, UpdateExpense, DeleteExpense
  <2>2. night' \in night .. LastNight /\ night \in 0 .. LastNight /\ 0 \in 0 .. LastNight
    BY <1>1, <1>3, <2>1
  <2>3. cost[x] \in CostRow
    BY <1>3
  <2>4. PICK r \in CostRow : cost' = [cost EXCEPT ![x] = r]
    <3>1. CASE CreateExpense(x)
      <4>1. PICK n \in Sums : cost' = [cost EXCEPT ![x] = [at |-> "live", day |-> night, sum |-> n]]
        BY <3>1 DEF CreateExpense
      <4>2. [at |-> "live", day |-> night, sum |-> n] \in CostRow
        BY <2>2 DEF CostRow
      <4> QED BY <4>1, <4>2
    <3>2. CASE UpdateExpense(x)
      <4>1. PICK n \in Sums, d \in {0, night} :
               cost' = [cost EXCEPT ![x] = [@ EXCEPT !.day = d, !.sum = n]]
        BY <3>2 DEF UpdateExpense
      <4>2. PICK r : r = [cost[x] EXCEPT !.day = d, !.sum = n]
        OBVIOUS
      <4>3. cost' = [cost EXCEPT ![x] = r]
        BY <1>3, <4>1, <4>2
      <4>4. r \in CostRow
        BY <2>2, <2>3, <4>2, ExpenseIsEdited
      <4> QED BY <4>3, <4>4
    <3>3. CASE DeleteExpense(x)
      <4>1. PICK r : r = [cost[x] EXCEPT !.at = "deleted"]
        OBVIOUS
      <4>2. cost' = [cost EXCEPT ![x] = r]
        BY <1>3, <3>3, <4>1 DEF DeleteExpense
      <4>3. r \in CostRow
        BY <1>3, <2>3, <4>1 DEF CostRow
      <4> QED BY <4>2, <4>3
    <3> QED BY <1>14, <3>1, <3>2, <3>3
  <2>5. cost' \in [Costs -> CostRow]
    BY <1>3, <2>4
  <2> QED BY <1>13, <2>1, <2>2, <2>5
<1>15. CASE NextNight
  <2>1. /\ UNCHANGED <<paying, shifts, snapshot, job>> /\ cost' \in [Costs -> CostRow]
        /\ night' \in night .. LastNight
    BY <1>1, <1>3, <1>15 DEF NextNight
  <2> QED BY <1>13, <2>1
<1>16. CASE UNCHANGED takingsVars
  <2>1. /\ UNCHANGED <<paying, shifts, snapshot, job>> /\ cost' \in [Costs -> CostRow]
        /\ night' \in night .. LastNight
    BY <1>1, <1>3, <1>16 DEF takingsVars
  <2> QED BY <1>13, <2>1
<1>17. CASE Subscribe
  <2>1. /\ shifts < MaxShifts /\ shifts' = shifts + 1
        /\ cost' = cost /\ night' = night /\ snapshot' = snapshot
    BY <1>17 DEF Subscribe
  <2>2. PICK a \in Agencies, s \in Statuses, k \in PlansSold :
           paying' = [paying EXCEPT ![a] = [status |-> s, plan |-> k]]
    BY <1>17 DEF Subscribe
  <2>3. paying' \in [Agencies -> [status : Statuses, plan : PlansSold]]
    BY <1>3, <2>2
  <2>4. job' = [z \in Jobs24 |->
                   [job[z] EXCEPT !.shifted = @ \/ Cardinality(job[z].read) = 1]]
    BY <1>17 DEF Subscribe
  <2>5. ASSUME NEW z \in Jobs24
        PROVE  /\ job'[z] \in JobRow /\ job'[z].day = job[z].day /\ job'[z].pc = job[z].pc
               /\ job'[z].read = job[z].read /\ job'[z].mrr = job[z].mrr
               /\ job'[z].of = job[z].of
               /\ ~job'[z].shifted => ~job[z].shifted /\ Cardinality(job[z].read) # 1
    <3>1. PICK b \in JobRow : b = job[z]
      BY <1>7
    <3>2. PICK r : r = job'[z]
      OBVIOUS
    <3>3. b = job[z] /\ r = job'[z]
      BY <3>1, <3>2
    <3>4. PICK c : c = (Cardinality(b.read) = 1)
      OBVIOUS
    <3>5. r = [b EXCEPT !.shifted = @ \/ c]
      BY <2>4, <3>3, <3>4
    <3>6. /\ r \in JobRow /\ r.pc = b.pc /\ r.day = b.day /\ r.read = b.read
          /\ r.mrr = b.mrr /\ r.of = b.of
          /\ ~r.shifted => ~b.shifted /\ ~c
      BY <3>5 DEF JobRow
    <3> QED BY <3>3, <3>4, <3>6
  <2>6. shifts' \in 0 .. MaxShifts
    BY <1>1, <1>3, <2>1
  <2>7. job' \in [Jobs24 -> JobRow]
    <3>1. \A z \in Jobs24 : [job[z] EXCEPT !.shifted = @ \/ Cardinality(job[z].read) = 1] = job'[z]
      BY <2>4
    <3>2. DOMAIN job' = Jobs24 /\ job' = [z \in Jobs24 |-> job'[z]]
      BY <2>4
    <3> QED BY <2>5, <3>2
  <2>8. TakingsTypeOK'
    BY <1>3, <2>1, <2>3, <2>6, <2>7 DEF TakingsTypeOK, JobRow
  <2>9. NoDayAhead'
    BY <1>2, <2>1, <2>5 DEF NoDayAhead
  <2>10. ASSUME NEW m \in Jobs24
         PROVE  /\ job'[m].pc = "idle" => job'[m].read = {}
                /\ ~job'[m].shifted => HasRead(job[m])'
    <3>1. job'[m].pc = "idle" => job'[m].read = {}
      BY <1>7, <2>5
    <3>2. ASSUME ~job'[m].shifted PROVE HasRead(job[m])'
      <4>1. HasRead(job[m]) /\ Cardinality(job[m].read) # 1 /\ job[m].read \in SUBSET Readings
        BY <1>7, <2>5, <3>2 DEF JobRow
      <4>2. Cardinality({"paying"}) = 1 /\ Cardinality({"status"}) = 1
        BY FS_Singleton
      <4>3. job[m].read = {} \/ job[m].read = Readings
        <5>1. job[m].read # {"paying"} /\ job[m].read # {"status"}
          BY <4>1, <4>2
        <5>2. \A q \in SUBSET {"paying", "status"} :
                 q = {} \/ q = {"paying"} \/ q = {"status"} \/ q = {"paying", "status"}
          OBVIOUS
        <5> QED BY <4>1, <5>1, <5>2 DEF Readings
      <4>4. PICK x : x = job'[m]
        OBVIOUS
      <4>5. HasRead(x)'
        BY <2>5, <4>1, <4>3, <4>4 DEF HasRead, Readings, Brings
      <4> QED BY <4>4, <4>5
    <3> QED BY <3>1, <3>2
  <2> QED BY <2>8, <2>9, <2>10 DEF TakingsInv
<1> QED BY <1>8, <1>9, <1>10, <1>11, <1>12, <1>14, <1>15, <1>16, <1>17 DEF TakingsNext

\* What is claimed of the platform's books follows.
LEMMA TakingsSuffices == ASSUME TakingsInv PROVE TakingsTypeOK /\ TakingsHold
<1>1. TakingsTypeOK /\ NoDayAhead /\ PlansAddUp
  BY PlansDoAddUp DEF TakingsInv
<1>2. MomentUnlessShifted
  BY DEF TakingsInv, HasRead, Brings, MomentUnlessShifted
<1> QED BY <1>1, <1>2 DEF TakingsHold

-----------------------------------------------------------------------------
(***************************************************************************)
(* The company's own figures.  Every screen sums the same rows, cut in its *)
(* own way: by month, client, project, category or person.                 *)
(***************************************************************************)
AmountOf(E) == [e \in E |-> e.amount]

\* Entries are entries.
LEMMA EntriesAre ==
    ASSUME NEW e \in Entries
    PROVE  /\ e.kind \in Headings /\ e.day \in Int /\ 0 <= e.day /\ e.day <= FinalDay
           /\ e.amount \in Nat /\ e.job \in Jobs \cup {NoJob}
           /\ e.employee \in Employees \cup {"none"}
           /\ e.kind = "payment" => e.payer \in Payers
<1>1. FinalDay \in Nat /\ e \in EntryRow
  BY EntriesAssumption
<1>2. e.day \in 0 .. FinalDay
  BY <1>1 DEF EntryRow
<1> QED BY <1>1, <1>2, EntriesAssumption DEF EntryRow

\* What some entries come to.
LEMMA EntriesSum ==
    ASSUME NEW E \in SUBSET Entries, IsFiniteSet(E)
    PROVE  /\ AmountOf(E) \in [E -> Nat] /\ AmountOf(E) \in [E -> Int]
           /\ SumEntries(E) = SumFunction(AmountOf(E)) /\ SumEntries(E) \in Nat
<1>1. \A e \in E : e.amount \in Nat
  BY EntriesAre
<1>2. AmountOf(E) \in [E -> Nat] /\ AmountOf(E) \in [E -> Int]
  BY <1>1 DEF AmountOf
<1>3. SumEntries(E) = SumFunction(AmountOf(E))
  BY DEF SumEntries, AmountOf
<1>4. SumFunction(AmountOf(E)) \in Nat
  BY <1>2, SumOfNaturals
<1> QED BY <1>2, <1>3, <1>4

\* Part of them.
LEMMA EntriesPart ==
    ASSUME NEW E \in SUBSET Entries, IsFiniteSet(E), NEW P \in SUBSET E
    PROVE  /\ IsFiniteSet(P) /\ P \in SUBSET Entries /\ SumEntries(P) \in Nat
           /\ SumEntries(P) = SumFunction(Restrict(AmountOf(E), P))
<1>1. IsFiniteSet(P) /\ P \in SUBSET Entries
  BY FS_Subset
<1>2. Restrict(AmountOf(E), P) = AmountOf(P)
  BY DEF Restrict, AmountOf
<1> QED BY <1>1, <1>2, EntriesSum

\* Entries in two lots.
LEMMA EntriesSplit ==
    ASSUME NEW E \in SUBSET Entries, IsFiniteSet(E), NEW P \in SUBSET E, NEW Q \in SUBSET E,
           P \cup Q = E, P \cap Q = {}
    PROVE  SumEntries(E) = SumEntries(P) + SumEntries(Q)
<1>1. AmountOf(E) \in [E -> Int] /\ SumEntries(E) = SumFunction(AmountOf(E))
  BY EntriesSum
<1>2. E \ P = Q
  OBVIOUS
<1>3. SumFunction(AmountOf(E))
         = SumFunction(Restrict(AmountOf(E), P)) + SumFunction(Restrict(AmountOf(E), E \ P))
  BY <1>1, SumSplits
<1> QED BY <1>1, <1>2, <1>3, EntriesPart

\* No entries.
LEMMA NoEntries == SumEntries({}) = 0
  BY SumOfNone DEF SumEntries

\* Entries in as many lots as there are keys.
LEMMA EntriesByKey ==
    ASSUME NEW E \in SUBSET Entries, IsFiniteSet(E), NEW K, IsFiniteSet(K), NEW key,
           \A e \in E : key[e] \in K, NEW g, g \in [K -> Int],
           \A c \in K : g[c] = SumEntries({e \in E : key[e] = c})
    PROVE  SumFunction(g) = SumEntries(E)
<1> DEFINE f == AmountOf(E)
<1>1. f \in [E -> Int] /\ SumEntries(E) = SumFunction(f) /\ DOMAIN f = E
  BY EntriesSum
<1> HIDE DEF f
<1>2. ASSUME NEW c \in K PROVE g[c] = SumFunction(GroupOf(f, key, c))
  <2> DEFINE P == {e \in E : key[e] = c}
  <2>1. P \in SUBSET E /\ g[c] = SumEntries(P) /\ GroupOf(f, key, c) = Restrict(f, P)
    BY <1>1 DEF GroupOf
  <2> HIDE DEF P
  <2> QED BY <2>1, EntriesPart DEF f
<1>3. SumFunction(g) = SumFunction(f)
  BY <1>1, <1>2, SumOfGroups
<1> QED BY <1>1, <1>3

-----------------------------------------------------------------------------
\* What is on file is finite.  Its rows come to what it is, those of the rest to nothing; and what
\* lies on a project whose like was counted came after.
Named == {"hoursOf", "paidOf"}
Booked == books \in SUBSET Entries /\ IsFiniteSet(books)

RowsNet ==
    /\ ledger \in [LedgerRows -> Int] /\ asked \subseteq Entries /\ books \cap asked = {}
    /\ \A e \in Entries : OpenPosition(e) = IF e \in books THEN Signed(e) ELSE 0

NoneLeft ==
    /\ gone \subseteq Jobs /\ counted \in [Jobs -> SUBSET JobKeepers] /\ slipped \subseteq books
    /\ \A e \in books \ slipped : e.kind \in {"payment", "expense", "salary"} => ~WasCounted(e)

BooksInv == Booked /\ RowsNet /\ NoneLeft

\* What was asked for is in the shape it was asked in.
ReportsInv ==
    /\ ReportsTypeOK /\ BooksInv
    /\ "members" \in DOMAIN answers =>
           answers["members"] \in [Employees -> Departments \cup {NoDepartment}]
    /\ \A x \in Named \cap DOMAIN answers :
           \E P \in SUBSET (Employees \cup {"none"}) : answers[x] \in [P -> Nat]
    /\ ~disturbed =>
           /\ "hoursOf" \in DOMAIN answers => answers["hoursOf"] = ByEmployee("hours", AllDays)
           /\ "total" \in DOMAIN answers => answers["total"] = Of("hours", AllDays)

\* What is on file of some kinds.
LEMMA OnFileIs ==
    ASSUME Booked, NEW kinds, NEW w
    PROVE  /\ OnFile(kinds, w) \in SUBSET Entries /\ IsFiniteSet(OnFile(kinds, w))
           /\ OnFile(kinds, w) \in SUBSET books
           /\ \A e \in OnFile(kinds, w) : e.kind \in kinds /\ Within(e.day, w)
<1>1. OnFile(kinds, w) \in SUBSET books
  BY DEF OnFile
<1> QED BY <1>1, FS_Subset DEF Booked, OnFile

\* Kinds in two lots.
LEMMA KindsSplit ==
    ASSUME Booked, NEW A, NEW B, A \cap B = {}, NEW w
    PROVE  /\ SumEntries(OnFile(A \cup B, w)) = SumEntries(OnFile(A, w)) + SumEntries(OnFile(B, w))
           /\ \A z : OnJob(z, A \cup B, w) = OnJob(z, A, w) + OnJob(z, B, w)
<1> DEFINE E == OnFile(A \cup B, w)
           P == OnFile(A, w)
           Q == OnFile(B, w)
<1>1. E \in SUBSET Entries /\ IsFiniteSet(E)
  BY OnFileIs
<1>2. P \in SUBSET E /\ Q \in SUBSET E /\ P \cup Q = E /\ P \cap Q = {}
  BY DEF OnFile
<1> HIDE DEF E, P, Q
<1>3. SumEntries(E) = SumEntries(P) + SumEntries(Q)
  BY <1>1, <1>2, EntriesSplit
<1>4. ASSUME NEW z
      PROVE  SumEntries({e \in E : e.job = z})
                = SumEntries({e \in P : e.job = z}) + SumEntries({e \in Q : e.job = z})
  <2> DEFINE X == {e \in E : e.job = z}
             Y == {e \in P : e.job = z}
             Z == {e \in Q : e.job = z}
  <2>1. X \in SUBSET Entries /\ X \in SUBSET E
    BY <1>1
  <2>2. Y \in SUBSET X /\ Z \in SUBSET X /\ Y \cup Z = X /\ Y \cap Z = {}
    BY <1>2
  <2> HIDE DEF X, Y, Z
  <2>3. IsFiniteSet(X)
    BY <1>1, <2>1, FS_Subset
  <2>4. SumEntries(X) = SumEntries(Y) + SumEntries(Z)
    BY <2>1, <2>2, <2>3, EntriesSplit
  <2> QED BY <2>4 DEF X, Y, Z
<1> QED BY <1>3, <1>4 DEF E, P, Q, OnJob

\* What a kind comes to is a number.
LEMMA KindIs == ASSUME Booked, NEW k, NEW w PROVE Of(k, w) \in Nat
  BY OnFileIs, EntriesSum DEF Of

\* Costs but the interest, together and one by one.
Costly == {"expense", "salary", "payout"}

\* They are those of its three kinds.
LEMMA CostsAre ==
    ASSUME Booked, NEW w
    PROVE  /\ SumEntries(OnFile(Costly, w)) = Of("expense", w) + Of("salary", w) + Of("payout", w)
           /\ SumEntries(OnFile({"expense", "salary"}, w)) = Of("expense", w) + Of("salary", w)
<1>1. /\ Costly = {"expense", "salary"} \cup {"payout"}
      /\ {"expense", "salary"} \cap {"payout"} = {}
      /\ {"expense", "salary"} = {"expense"} \cup {"salary"} /\ {"expense"} \cap {"salary"} = {}
  BY DEF Costly
<1>2. SumEntries(OnFile(Costly, w))
         = SumEntries(OnFile({"expense", "salary"}, w)) + Of("payout", w)
  BY <1>1, KindsSplit DEF Of
<1>3. SumEntries(OnFile({"expense", "salary"}, w)) = Of("expense", w) + Of("salary", w)
  BY <1>1, KindsSplit DEF Of
<1> QED BY <1>2, <1>3

\* Profit and loss, in numbers.
LEMMA ProfitIs ==
    ASSUME Booked, NEW w
    PROVE  LET pl == ProfitAndLoss(w)
           IN  /\ pl.revenue = Of("payment", w) /\ pl.operating = Of("expense", w)
               /\ pl.employee = Of("salary", w) /\ pl.interest = Of("interest", w)
               /\ pl.net = Of("payment", w) - (Of("expense", w) + Of("salary", w) + Of("payout", w)
                                                  + Of("interest", w))
               /\ pl.net + pl.interest = Of("payment", w) - SumEntries(OnFile(Costly, w))
<1> DEFINE rev == Of("payment", w)
           exp == Of("expense", w)
           sal == Of("salary", w)
           pay == Of("payout", w)
           int == Of("interest", w)
<1>1. rev \in Nat /\ exp \in Nat /\ sal \in Nat /\ pay \in Nat /\ int \in Nat
  BY KindIs
<1>2. SumEntries(OnFile(Costly, w)) = exp + sal + pay
  BY CostsAre
<1>3. PICK pl : pl = ProfitAndLoss(w)
  OBVIOUS
<1>4. /\ pl.revenue = rev /\ pl.operating = exp /\ pl.employee = sal /\ pl.interest = int
      /\ pl.net = rev - (exp + sal + pay + int)
  BY <1>3 DEF ProfitAndLoss
<1> HIDE DEF rev, exp, sal, pay, int
<1>5. pl.net + pl.interest = rev - SumEntries(OnFile(Costly, w))
  BY <1>1, <1>2, <1>4
<1> QED BY <1>3, <1>4, <1>5 DEF rev, exp, sal, pay, int

\* The clients, the categories and the KPI's money.
LEMMA ScreensDoAgree == ASSUME Booked PROVE ScreensAgree
<1> SUFFICES ASSUME NEW from \in 0 .. FinalDay, NEW to \in 0 .. FinalDay,
                    NEW w, w = [from |-> from, to |-> to]
             PROVE  LET pl == ProfitAndLoss(w)
                    IN  /\ SumFunction(ClientRevenue(w)) = pl.revenue
                        /\ SumFunction(CategoryBreakdown(w)) = pl.operating + pl.employee
                        /\ LoadMoney(w).revenue - LoadMoney(w).cost = pl.net + pl.interest
  BY DEF ScreensAgree
<1>1. SumFunction(ClientRevenue(w)) = Of("payment", w)
  <2> DEFINE E == OnFile({"payment"}, w)
             key == [e \in E |-> e.payer]
             g == ClientRevenue(w)
  <2>1. E \in SUBSET Entries /\ IsFiniteSet(E) /\ \A e \in E : e.kind = "payment"
    BY OnFileIs
  <2>2. IsFiniteSet(Payers)
    <3>1. IsFiniteSet({"c1"}) /\ IsFiniteSet({"c1"} \cup {"c2"})
      BY FS_Singleton, FS_AddElement
    <3>2. {"c1"} \cup {"c2"} = Payers
      BY DEF Payers
    <3> QED BY <3>1, <3>2
  <2>3. \A e \in E : key[e] \in Payers
    BY <2>1, EntriesAre
  <2>4. ASSUME NEW c \in Payers
        PROVE  g[c] = SumEntries({e \in E : key[e] = c}) /\ g[c] \in Int
    <3> DEFINE P == {e \in E : key[e] = c}
    <3>1. P = {e \in E : e.payer = c}
      OBVIOUS
    <3>2. g[c] = SumEntries(P)
      BY <3>1 DEF ClientRevenue
    <3>3. P \in SUBSET E
      OBVIOUS
    <3> HIDE DEF P, E
    <3>4. SumEntries(P) \in Nat
      BY <2>1, <3>3, EntriesPart
    <3> QED BY <3>2, <3>4 DEF P
  <2>5. g \in [Payers -> Int]
    <3> HIDE DEF E, key, Payers
    <3>1. DOMAIN g = Payers /\ g = [c \in Payers |-> g[c]]
      BY DEF ClientRevenue
    <3> HIDE DEF g
    <3> QED BY <2>4, <3>1
  <2> HIDE DEF E, key, g
  <2>6. SumFunction(g) = SumEntries(E)
    BY <2>1, <2>2, <2>3, <2>4, <2>5, EntriesByKey
  <2> QED BY <2>6 DEF g, E, Of
<1>2. SumFunction(CategoryBreakdown(w)) = Of("expense", w) + Of("salary", w)
  <2> DEFINE f == CategoryBreakdown(w)
  <2>1. /\ f \in [{"expense", "salary"} -> Int] /\ f["expense"] = Of("expense", w)
        /\ f["salary"] = Of("salary", w)
    BY KindIs DEF CategoryBreakdown
  <2> HIDE DEF f
  <2>2. SumFunction(f) = f["expense"] + f["salary"]
    BY <2>1, SumOfTwo
  <2> QED BY <2>1, <2>2 DEF f
<1>3. LoadMoney(w).revenue - LoadMoney(w).cost = Of("payment", w) - SumEntries(OnFile(Costly, w))
  BY CostsAre DEF LoadMoney
<1> QED BY <1>1, <1>2, <1>3, ProfitIs

\* The dashboard's month is the month's profit and loss.
LEMMA DashboardDoesAgree == ASSUME Booked, ReportsTypeOK PROVE DashboardAgrees
<1>1. today \in Int /\ DaysInMonth \in Nat \ {0} /\ FinalDay \in Nat
  BY EntriesAssumption DEF ReportsTypeOK
<1>2. PICK m : m = MonthOf(today)
  OBVIOUS
<1>3. m \in Int
  BY <1>1, <1>2, QuotientIs DEF MonthOf
<1> DEFINE D == DaysInMonth
           w == MonthDays(m)
           month == {e \in books : e.day >= m * D /\ e.day < (m + 1) * D}
<1>4. m * D \in Int /\ (m + 1) * D \in Int
  BY <1>1, <1>3
<1>5. w.from = m * D /\ w.to = (m + 1) * D - 1
  BY DEF MonthDays
<1>6. ASSUME NEW e \in books PROVE Within(e.day, w) <=> e.day >= m * D /\ e.day < (m + 1) * D
  <2>1. e.day \in Int
    BY EntriesAre DEF Booked
  <2> HIDE DEF D, w
  <2> QED BY <1>4, <1>5, <2>1 DEF Within
<1>7. \A A : {e \in month : e.kind \in A} = OnFile(A, w)
  BY <1>6 DEF OnFile
<1>8. {e \in month : e.kind = "payment"} = {e \in month : e.kind \in {"payment"}}
  OBVIOUS
<1>9. Dashboard = [revenue |-> SumEntries({e \in month : e.kind = "payment"}),
                   expense |-> SumEntries({e \in month : e.kind \in {"expense", "salary"}})]
  BY <1>2 DEF Dashboard
<1> HIDE DEF month, w, D
<1>10. SumEntries({e \in month : e.kind = "payment"}) = Of("payment", w)
  BY <1>7, <1>8 DEF Of
<1>11. SumEntries({e \in month : e.kind \in {"expense", "salary"}})
          = Of("expense", w) + Of("salary", w)
  BY <1>7, CostsAre
<1>12. Dashboard = [revenue |-> Of("payment", w), expense |-> Of("expense", w) + Of("salary", w)]
  BY <1>9, <1>10, <1>11
<1> QED BY <1>2, <1>12, ProfitIs DEF DashboardAgrees, w

\* An entry's row and its adjustment, and what they come to.
Pair(e) == {<<e, "own">>, <<e, "adjustment">>}

\* They are the rows of the entry.
LEMMA PairOf ==
    ASSUME NEW e \in Entries
    PROVE  Pair(e) = {row \in LedgerRows : row[1] = e}
<1>1. ASSUME NEW row \in LedgerRows, row[1] = e PROVE row \in Pair(e)
  <2>1. row = <<row[1], row[2]>> /\ row[2] \in {"own", "adjustment"}
    BY <1>1 DEF LedgerRows
  <2> QED BY <1>1, <2>1 DEF Pair
<1>2. ASSUME NEW row \in Pair(e) PROVE row \in LedgerRows /\ row[1] = e
  BY <1>2 DEF LedgerRows, Pair
<1> QED BY <1>1, <1>2

\* Both are of one currency.
LEMMA PairIsOne ==
    ASSUME NEW row \in LedgerRows
    PROVE  CurrencyOf(row) = CurrencyOf(<<row[1], "own">>)
  BY DEF CurrencyOf

\* What an entry moves is its amount, in or out, and hours nothing.
LEMMA SignedIs ==
    ASSUME NEW e \in Entries
    PROVE  /\ Signed(e) \in Int
           /\ Signed(e) = IF e.kind = "payment" THEN e.amount
                          ELSE IF e.kind = "hours" THEN 0 ELSE -e.amount
<1>1. e.amount \in Nat
  BY EntriesAre
<1>2. Signed(e) = IF e.kind = "payment" THEN e.amount
                  ELSE IF e.kind = "hours" THEN 0 ELSE -e.amount
  BY DEF Signed
<1> QED BY <1>1, <1>2

\* The entries of a currency.
OfCurrency(c) == {e \in Entries : CurrencyOf(<<e, "own">>) = c}

\* What is filed under all the sources of a currency is what its entries still hold.
LEMMA CurrencyAddsUp ==
    ASSUME ledger \in [LedgerRows -> Int], NEW c \in Currencies
    PROVE  NetFlow(c) = SumFunction([e \in OfCurrency(c) |-> OpenPosition(e)])
<1> DEFINE R == {row \in LedgerRows : CurrencyOf(row) = c}
           f == Restrict(ledger, R)
           g == CashFlow[c]
           source == [row \in R |-> SourceOf(row)]
           C == OfCurrency(c)
           h == [e \in C |-> OpenPosition(e)]
           entry == [row \in R |-> row[1]]
<1>1. IsFiniteSet(R) /\ R \in SUBSET LedgerRows
  <2>1. IsFiniteSet({"own", "adjustment"})
    BY TwoAreFinite
  <2>2. IsFiniteSet(LedgerRows)
    BY <2>1, EntriesAssumption, FS_Product DEF LedgerRows
  <2> QED BY <2>2, FS_Subset
<1>2. f \in [R -> Int] /\ DOMAIN f = R /\ \A row \in R : f[row] = ledger[row]
  BY <1>1 DEF Restrict
<1>3. g = [s \in LedgerSources |->
              SumFunction([row \in {x \in R : SourceOf(x) = s} |-> ledger[row]])]
  <2>1. \A s : {x \in LedgerRows : CurrencyOf(x) = c /\ SourceOf(x) = s}
                = {x \in R : SourceOf(x) = s}
    OBVIOUS
  <2>2. g = [s \in LedgerSources |-> SumFunction([row \in {x \in LedgerRows :
                                        CurrencyOf(x) = c /\ SourceOf(x) = s} |-> ledger[row]])]
    BY DEF CashFlow
  <2> QED BY <2>1, <2>2
<1>4. ASSUME NEW s \in LedgerSources PROVE g[s] = SumFunction(GroupOf(f, source, s))
  <2>1. GroupOf(f, source, s) = [row \in {x \in R : SourceOf(x) = s} |-> ledger[row]]
    <3>1. {x \in DOMAIN f : source[x] = s} = {x \in R : SourceOf(x) = s}
      BY <1>2
    <3> QED BY <1>2, <3>1 DEF GroupOf, Restrict
  <2> QED BY <1>3, <2>1
<1>5. IsFiniteSet(LedgerSources)
  <2> DEFINE rest == {"payment", "expense"} \cup {"team_payout", "loan_repayment"}
  <2>1. IsFiniteSet({"payment", "expense"}) /\ IsFiniteSet({"team_payout", "loan_repayment"})
    BY TwoAreFinite
  <2>2. IsFiniteSet(rest)
    BY <2>1, FS_Union
  <2>3. LedgerSources = rest \cup {"adjustment"}
    BY DEF LedgerSources
  <2> HIDE DEF rest
  <2> QED BY <2>2, <2>3, FS_AddElement
<1>6. \A row \in R : source[row] \in LedgerSources
  <2>1. ASSUME NEW row \in R PROVE SourceOf(row) \in LedgerSources
    <3>1. CASE row[2] = "adjustment"
      BY <3>1 DEF SourceOf, LedgerSources
    <3>2. CASE row[2] # "adjustment" /\ row[1].kind = "payment"
      BY <3>2 DEF SourceOf, LedgerSources
    <3>3. CASE row[2] # "adjustment" /\ row[1].kind = "payout"
      BY <3>3 DEF SourceOf, LedgerSources
    <3>4. CASE row[2] # "adjustment" /\ row[1].kind = "interest"
      BY <3>4 DEF SourceOf, LedgerSources
    <3>5. CASE row[2] # "adjustment" /\ row[1].kind \notin {"payment", "payout", "interest"}
      BY <3>5 DEF SourceOf, LedgerSources
    <3> QED BY <3>1, <3>2, <3>3, <3>4, <3>5
  <2> QED BY <2>1
<1>7. g \in [LedgerSources -> Int]
  <2>1. ASSUME NEW s \in LedgerSources PROVE SumFunction(GroupOf(f, source, s)) \in Int
    <3> DEFINE P == {x \in DOMAIN f : source[x] = s}
    <3>1. P \in SUBSET R
      BY <1>2
    <3> HIDE DEF P, f, R
    <3>2. SumFunction(Restrict(f, P)) \in Int
      BY <1>1, <1>2, <3>1, PartOfSum
    <3> QED BY <3>2 DEF GroupOf, P
  <2>2. \A s \in LedgerSources : g[s] \in Int
    <3> HIDE DEF g, f, source
    <3> QED BY <1>4, <2>1
  <2>3. g = [s \in LedgerSources |-> g[s]]
    BY <1>3
  <2> HIDE DEF g
  <2> QED BY <2>2, <2>3
<1>8. SumFunction(g) = SumFunction(f)
  <2> HIDE DEF g, f, source, R
  <2> QED BY <1>1, <1>2, <1>4, <1>5, <1>6, <1>7, SumOfGroups
<1>9. ASSUME NEW e \in C PROVE h[e] = SumFunction(GroupOf(f, entry, e)) /\ h[e] \in Int
  <2>1. e \in Entries /\ CurrencyOf(<<e, "own">>) = c
    BY DEF OfCurrency
  <2>2. {x \in DOMAIN f : entry[x] = e} = Pair(e)
    <3>1. \A row \in LedgerRows : row[1] = e => CurrencyOf(row) = c
      BY <2>1, PairIsOne
    <3>2. {x \in DOMAIN f : entry[x] = e} = {row \in LedgerRows : row[1] = e}
      BY <1>2, <3>1
    <3> QED BY <2>1, <3>2, PairOf
  <2>3. Pair(e) \in SUBSET R
    BY <1>2, <2>2
  <2>4. PICK p : p = Restrict(f, Pair(e))
    OBVIOUS
  <2>5. /\ p \in [Pair(e) -> Int] /\ p[<<e, "own">>] = ledger[<<e, "own">>]
        /\ p[<<e, "adjustment">>] = ledger[<<e, "adjustment">>]
    <3>1. p \in [Pair(e) -> Int] /\ \A x \in Pair(e) : p[x] = ledger[x]
      BY <1>2, <2>3, <2>4 DEF Restrict
    <3> QED BY <3>1 DEF Pair
  <2>6. SumFunction(p) = p[<<e, "own">>] + p[<<e, "adjustment">>]
    <3>1. <<e, "own">> # <<e, "adjustment">> /\ p \in [{<<e, "own">>, <<e, "adjustment">>} -> Int]
      BY <2>5 DEF Pair
    <3> QED BY <3>1, SumOfTwo
  <2>7. p[<<e, "own">>] \in Int /\ p[<<e, "adjustment">>] \in Int
    BY <2>5 DEF Pair
  <2>8. SumFunction(p) = OpenPosition(e) /\ OpenPosition(e) \in Int
    BY <2>5, <2>6, <2>7 DEF OpenPosition
  <2>9. GroupOf(f, entry, e) = p
    BY <2>2, <2>4 DEF GroupOf
  <2> QED BY <2>8, <2>9
<1>10. \A row \in R : entry[row] \in C
  <2>1. ASSUME NEW row \in R PROVE row[1] \in C
    <3>1. row[1] \in Entries
      BY DEF LedgerRows
    <3>2. CurrencyOf(<<row[1], "own">>) = c
      BY PairIsOne
    <3> QED BY <3>1, <3>2 DEF OfCurrency
  <2> QED BY <2>1
<1>11. IsFiniteSet(C)
  BY EntriesAssumption, FS_Subset DEF OfCurrency
<1>12. h \in [C -> Int]
  <2>1. \A e \in C : h[e] \in Int
    BY <1>9
  <2> QED BY <2>1
<1>13. SumFunction(h) = SumFunction(f)
  <2> HIDE DEF h, f, entry, R, C
  <2> QED BY <1>1, <1>2, <1>9, <1>10, <1>11, <1>12, SumOfGroups
<1> QED BY <1>8, <1>13 DEF NetFlow

\* What some of the entries come to, the others not counted.
LEMMA EntriesAmong ==
    ASSUME NEW S \in SUBSET Entries, IsFiniteSet(S), NEW P \in SUBSET S
    PROVE  LET m == [e \in S |-> IF e \in P THEN e.amount ELSE 0]
           IN  m \in [S -> Int] /\ SumFunction(m) = SumEntries(P)
<1> DEFINE m == [e \in S |-> IF e \in P THEN e.amount ELSE 0]
<1>1. \A e \in S : e.amount \in Nat
  BY EntriesAre
<1>2. m \in [S -> Int] /\ \A e \in S \ P : m[e] = 0
  BY <1>1
<1>3. Restrict(m, P) = AmountOf(P)
  BY DEF Restrict, AmountOf
<1>4. SumEntries(P) = SumFunction(AmountOf(P))
  BY DEF SumEntries, AmountOf
<1> HIDE DEF m
<1>5. SumFunction(m) = SumFunction(Restrict(m, P))
  BY <1>2, SumOfRest
<1> QED BY <1>2, <1>3, <1>4, <1>5 DEF m

\* What moved on the accounts is the profit: in dollars what came in, in taka what went out.
LEMMA CashDoesAgree == ASSUME Booked, RowsNet PROVE CashAgrees
<1> DEFINE w == AllDays
           U == OfCurrency("USD")
           B == OfCurrency("BDT")
           In == OnFile({"payment"}, w)
           Out == OnFile(Costly \cup {"interest"}, w)
           u == [e \in U |-> OpenPosition(e)]
           b == [e \in B |-> OpenPosition(e)]
           in == [e \in U |-> IF e \in In THEN e.amount ELSE 0]
           out == [e \in B |-> IF e \in Out THEN e.amount ELSE 0]
           none == [e \in B |-> 0]
<1>1. /\ U \in SUBSET Entries /\ IsFiniteSet(U) /\ B \in SUBSET Entries /\ IsFiniteSet(B)
  BY EntriesAssumption, FS_Subset DEF OfCurrency
<1>2. \A e \in books : Within(e.day, w)
  <2>1. ASSUME NEW e \in books PROVE Within(e.day, w)
    <3>1. e \in Entries
      BY DEF Booked
    <3> QED BY <3>1, EntriesAre DEF Within, AllDays
  <2> QED BY <2>1
<1>3. /\ In \in SUBSET U /\ \A e \in U : e.kind = "payment" /\ (e \in In <=> e \in books)
  BY <1>2 DEF OnFile, Booked, OfCurrency, CurrencyOf
<1>4. /\ Out \in SUBSET B
      /\ \A e \in B : e.kind # "payment" /\ (e \in Out <=> e \in books /\ e.kind # "hours")
  <2>1. ASSUME NEW e \in B
        PROVE  /\ e \in Entries /\ e.kind # "payment"
               /\ e.kind \in Costly \cup {"interest"} <=> e.kind # "hours"
    <3>1. e \in Entries /\ e.kind # "payment"
      BY DEF OfCurrency, CurrencyOf
    <3>2. e.kind \in Headings
      BY <3>1, EntriesAre
    <3> QED BY <3>1, <3>2 DEF Costly, Headings
  <2>2. \A e \in Out : e \in B
    BY DEF OnFile, Booked, OfCurrency, CurrencyOf, Costly
  <2> QED BY <1>2, <2>1, <2>2 DEF OnFile
<1>5. in \in [U -> Int] /\ SumFunction(in) = SumEntries(In)
  <2> HIDE DEF U, In
  <2> QED BY <1>1, <1>3, EntriesAmong
<1>6. out \in [B -> Int] /\ SumFunction(out) = SumEntries(Out)
  <2> HIDE DEF B, Out
  <2> QED BY <1>1, <1>4, EntriesAmong
<1>7. u = in
  <2>1. ASSUME NEW e \in U PROVE u[e] = in[e]
    <3>1. OpenPosition(e) = IF e \in books THEN Signed(e) ELSE 0
      BY <1>1 DEF RowsNet
    <3>2. Signed(e) = e.amount
      BY <1>1, <1>3, SignedIs
    <3> QED BY <1>3, <3>1, <3>2
  <2> QED BY <2>1
<1>8. b \in [B -> Int] /\ none \in [B -> Int] /\ \A e \in B : b[e] = none[e] - out[e]
  <2>1. ASSUME NEW e \in B PROVE b[e] \in Int /\ b[e] = 0 - out[e]
    <3>1. OpenPosition(e) = IF e \in books THEN Signed(e) ELSE 0
      BY <1>1 DEF RowsNet
    <3>2. Signed(e) = (IF e.kind = "hours" THEN 0 ELSE -e.amount) /\ e.amount \in Nat
      <4>1. e \in Entries
        BY <1>1
      <4> QED BY <1>4, <4>1, SignedIs, EntriesAre
    <3>3. b[e] = OpenPosition(e) /\ out[e] = IF e \in Out THEN e.amount ELSE 0
      OBVIOUS
    <3> HIDE DEF b, out, B, Out
    <3> QED BY <1>4, <3>1, <3>2, <3>3
  <2>2. b = [e \in B |-> b[e]] /\ none \in [B -> Int] /\ \A e \in B : none[e] = 0
    OBVIOUS
  <2> HIDE DEF b, none, out, B
  <2> QED BY <2>1, <2>2
<1>9. SumFunction(none) = 0
  <2> HIDE DEF B
  <2> QED BY <1>1, SumOfNothing
<1>10. SumFunction(b) = SumFunction(none) - SumFunction(out)
  <2> HIDE DEF b, none, out, B
  <2> QED BY <1>1, <1>6, <1>8, SumOfDifferences
<1>11. NetFlow("USD") = SumFunction(u) /\ NetFlow("BDT") = SumFunction(b)
  BY CurrencyAddsUp DEF Currencies, RowsNet
<1>12. SumEntries(In) = Of("payment", w)
  BY DEF Of
<1>13. SumEntries(Out) = SumEntries(OnFile(Costly, w)) + Of("interest", w)
  <2>1. Costly \cap {"interest"} = {}
    BY DEF Costly
  <2>2. SumEntries(OnFile(Costly \cup {"interest"}, w))
           = SumEntries(OnFile(Costly, w)) + SumEntries(OnFile({"interest"}, w))
    <3> HIDE DEF w
    <3> QED BY <2>1, KindsSplit
  <2> QED BY <2>2 DEF Of
<1>14. PICK pl : pl = ProfitAndLoss(w)
  OBVIOUS
<1>15. pl.revenue = Of("payment", w) /\ pl.cost = SumEntries(Out)
  <2>1. /\ pl.revenue = Of("payment", w)
        /\ pl.cost = Of("expense", w) + Of("salary", w) + Of("payout", w) + Of("interest", w)
    BY <1>14 DEF ProfitAndLoss
  <2>2. SumEntries(OnFile(Costly, w)) = Of("expense", w) + Of("salary", w) + Of("payout", w)
    BY CostsAre
  <2> HIDE DEF Out, w
  <2> QED BY <1>13, <2>1, <2>2
<1>16. SumFunction(out) \in Int
  <2> HIDE DEF B, out
  <2> QED BY <1>1, <1>6, SumIsNumber
<1> HIDE DEF u, in, b, out, none, In, Out, U, B
<1>17. NetFlow("USD") = pl.revenue /\ NetFlow("BDT") = -pl.cost
  <2>1. SumFunction(u) = SumEntries(In)
    BY <1>5, <1>7
  <2>2. SumFunction(b) = -SumFunction(out)
    BY <1>9, <1>10, <1>16
  <2> QED BY <1>6, <1>11, <1>12, <1>15, <2>1, <2>2
<1> QED BY <1>14, <1>17 DEF CashAgrees

-----------------------------------------------------------------------------
\* What is on file of some kinds, by project: of none, of those there are, of those deleted.
LEMMA ByProject ==
    ASSUME Booked, ReportsTypeOK, NEW kinds, NEW g, g \in [Jobs \ gone -> Int],
           \A z \in Jobs \ gone : g[z] = OnJob(z, kinds, AllDays)
    PROVE  /\ SumEntries(OnFile(kinds, AllDays))
                 = OnJob(NoJob, kinds, AllDays) + SumFunction(g)
                      + SumEntries({e \in OnFile(kinds, AllDays) : e.job \in gone})
           /\ OnJob(NoJob, kinds, AllDays) \in Nat /\ SumFunction(g) \in Int
           /\ SumEntries({e \in OnFile(kinds, AllDays) : e.job \in gone}) \in Nat
<1> DEFINE E == OnFile(kinds, AllDays)
           N == {e \in E : e.job = NoJob}
           G == {e \in E : e.job \in gone}
           R == E \ N
           L == R \ G
           K == Jobs \ gone
           key == [e \in L |-> e.job]
<1>1. E \in SUBSET Entries /\ IsFiniteSet(E)
  BY OnFileIs
<1>2. /\ NoJob \notin Jobs /\ IsFiniteSet(Jobs) /\ gone \subseteq Jobs
      /\ \A e \in E : e.job \in Jobs \cup {NoJob}
  BY <1>1, EntriesAssumption, EntriesAre DEF ReportsTypeOK
<1>3. /\ N \in SUBSET E /\ R \in SUBSET E /\ N \cup R = E /\ N \cap R = {}
      /\ OnJob(NoJob, kinds, AllDays) = SumEntries(N)
  BY DEF OnJob
<1>4. G \in SUBSET R /\ L \in SUBSET R /\ G \cup L = R /\ G \cap L = {}
  BY <1>2
<1>5. \A e \in L : key[e] \in K /\ e \in E /\ key[e] = e.job
  BY <1>2
<1>6. \A z \in K : {e \in L : key[e] = z} = {e \in E : e.job = z}
  BY <1>2
<1>7. \A z \in K : g[z] = SumEntries({e \in L : key[e] = z})
  <2> HIDE DEF L, key, K
  <2>1. \A z \in K : g[z] = SumEntries({e \in E : e.job = z})
    BY DEF OnJob, K
  <2> HIDE DEF E
  <2> QED BY <1>6, <2>1
<1>8. IsFiniteSet(K)
  BY <1>2, FS_Subset
<1>9. G \in SUBSET E /\ L \in SUBSET E
  OBVIOUS
<1> HIDE DEF E, N, G, R, L, key
<1>10. SumEntries(E) = SumEntries(N) + SumEntries(R)
  BY <1>1, <1>3, EntriesSplit
<1>11. SumEntries(N) \in Nat /\ IsFiniteSet(R) /\ R \in SUBSET Entries
  BY <1>1, <1>3, EntriesPart
<1>12. /\ L \in SUBSET Entries /\ IsFiniteSet(L) /\ SumEntries(L) \in Nat
       /\ SumEntries(G) \in Nat
  BY <1>1, <1>9, EntriesPart
<1>13. SumEntries(R) = SumEntries(G) + SumEntries(L)
  BY <1>4, <1>11, EntriesSplit
<1>14. SumFunction(g) = SumEntries(L)
  <2>1. g \in [K -> Int]
    OBVIOUS
  <2> HIDE DEF K
  <2> QED BY <1>5, <1>7, <1>8, <1>12, <2>1, EntriesByKey
<1>15. SumEntries(E) = SumEntries(N) + SumFunction(g) + SumEntries(G)
  BY <1>10, <1>11, <1>12, <1>14, <1>13
<1> QED BY <1>3, <1>11, <1>12, <1>14, <1>15 DEF E, N, G

\* The projects' profit is the company's, what lies on the deleted ones set apart: payouts, and what
\* came after its like was counted.
LEMMA ProjectsDoAgree == ASSUME ReportsInv PROVE ProjectsAgree
<1> DEFINE P == {"payment"}
           w == AllDays
           K == Jobs \ gone
           in == [z \in K |-> OnJob(z, P, w)]
           out == [z \in K |-> OnJob(z, Costly, w)]
           list == ProjectProfitability(w)
<1>1. Booked /\ ReportsTypeOK
  BY DEF ReportsInv, BooksInv
<1>2. \A z, A : OnJob(z, A, w) \in Nat
  <2> SUFFICES ASSUME NEW z, NEW A PROVE OnJob(z, A, w) \in Nat
    OBVIOUS
  <2> DEFINE E == OnFile(A, w)
             Q == {e \in E : e.job = z}
  <2>1. E \in SUBSET Entries /\ IsFiniteSet(E)
    BY <1>1, OnFileIs
  <2>2. Q \in SUBSET E
    OBVIOUS
  <2> HIDE DEF E, Q
  <2>3. SumEntries(Q) \in Nat
    BY <2>1, <2>2, EntriesPart
  <2> QED BY <2>3 DEF OnJob, E, Q
<1>3. /\ in \in [K -> Int] /\ out \in [K -> Int]
      /\ \A z \in K : in[z] = OnJob(z, P, w) /\ out[z] = OnJob(z, Costly, w)
  BY <1>2
<1>4. /\ SumEntries(OnFile(P, w)) = OnJob(NoJob, P, w) + SumFunction(in)
                                       + SumEntries({e \in OnFile(P, w) : e.job \in gone})
      /\ SumFunction(in) \in Int
  <2> HIDE DEF in, P
  <2> QED BY <1>1, <1>3, ByProject
<1>5. /\ SumEntries(OnFile(Costly, w)) = OnJob(NoJob, Costly, w) + SumFunction(out)
                                       + SumEntries({e \in OnFile(Costly, w) : e.job \in gone})
      /\ SumFunction(out) \in Int
      /\ SumEntries({e \in OnFile(Costly, w) : e.job \in gone}) \in Nat
  <2> HIDE DEF out
  <2> QED BY <1>1, <1>3, ByProject
<1>6. ASSUME NEW kinds \in {P, Costly}
      PROVE  {e \in OnFile(kinds, w) : e.job \in gone}
                = {e \in OnFile(kinds, w) : e.job \in gone /\ (e.kind = "payout" \/ e \in slipped)}
  <2>1. ASSUME NEW e \in OnFile(kinds, w), e.job \in gone PROVE e.kind = "payout" \/ e \in slipped
    <3>1. e \in books /\ e.kind \in kinds /\ WasCounted(e)
      BY <2>1 DEF OnFile, WasCounted
    <3>2. e.kind = "payout" \/ e.kind \in {"payment", "expense", "salary"}
      BY <3>1 DEF Costly
    <3> QED BY <3>1, <3>2 DEF ReportsInv, BooksInv, NoneLeft
  <2> QED BY <2>1
<1>7. SumEntries({e \in OnFile(P, w) : e.job \in gone}) \in Nat
  <2> HIDE DEF in, P
  <2> QED BY <1>1, <1>3, ByProject
<1>8. list = [z \in K |-> OnJob(z, P, w) - OnJob(z, Costly, w)]
  BY DEF ProjectProfitability, Costly
<1>9. list \in [K -> Int] /\ \A z \in K : list[z] = in[z] - out[z]
  <2> HIDE DEF P, w, K, list
  <2>1. \A m, n \in Nat : m - n \in Int
    OBVIOUS
  <2> QED BY <1>2, <1>3, <1>8, <2>1
<1>10. IsFiniteSet(K)
  BY EntriesAssumption, FS_Subset
<1>11. SumFunction(list) = SumFunction(in) - SumFunction(out)
  <2> HIDE DEF list, in, out, K
  <2> QED BY <1>3, <1>9, <1>10, SumOfDifferences
<1>12. PICK pl : pl = ProfitAndLoss(w)
  OBVIOUS
<1>13. pl.net + pl.interest = SumEntries(OnFile(P, w)) - SumEntries(OnFile(Costly, w))
  BY <1>1, <1>12, ProfitIs DEF Of
<1>14. PICK found, lost \in Nat :
          /\ found = SumEntries({e \in OnFile(P, w) :
                                     e.job \in gone /\ (e.kind = "payout" \/ e \in slipped)})
          /\ lost = SumEntries({e \in OnFile(Costly, w) :
                                     e.job \in gone /\ (e.kind = "payout" \/ e \in slipped)})
  <2>1. PICK f, l : /\ f = SumEntries({e \in OnFile(P, w) : e.job \in gone})
                    /\ l = SumEntries({e \in OnFile(Costly, w) : e.job \in gone})
    OBVIOUS
  <2> HIDE DEF P, w
  <2>2. f \in Nat /\ l \in Nat
    BY <1>5, <1>7, <2>1
  <2> QED BY <1>6, <2>1, <2>2
<1>15. SumFunction(list) + (OnJob(NoJob, P, w) - OnJob(NoJob, Costly, w)) + found - lost
          = pl.net + pl.interest
  <2>1. OnJob(NoJob, P, w) \in Nat /\ OnJob(NoJob, Costly, w) \in Nat
    BY <1>2
  <2> HIDE DEF P, w, list, in, out
  <2>2. SumEntries(OnFile(P, w)) = OnJob(NoJob, P, w) + SumFunction(in) + found
    BY <1>4, <1>6, <1>14
  <2>3. SumEntries(OnFile(Costly, w)) = OnJob(NoJob, Costly, w) + SumFunction(out) + lost
    BY <1>5, <1>6, <1>14
  <2> QED BY <1>4, <1>5, <1>11, <1>13, <2>1, <2>2, <2>3
<1>16. ASSUME NEW z \in K PROVE ProjectFinancials(z) = list[z]
  <2>1. OnJob(z, Costly, w) = OnJob(z, {"payout"}, w) + OnJob(z, {"expense", "salary"}, w)
    <3>1. /\ Costly = {"payout"} \cup {"expense", "salary"}
          /\ {"payout"} \cap {"expense", "salary"} = {}
      BY DEF Costly
    <3> QED BY <1>1, <3>1, KindsSplit
  <2>2. list[z] = OnJob(z, P, w) - OnJob(z, Costly, w)
    BY <1>8
  <2>3. /\ OnJob(z, P, w) \in Nat /\ OnJob(z, {"payout"}, w) \in Nat
        /\ OnJob(z, {"expense", "salary"}, w) \in Nat
    BY <1>2
  <2>4. ProjectFinancials(z)
           = OnJob(z, P, w) - OnJob(z, {"payout"}, w) - OnJob(z, {"expense", "salary"}, w)
    BY DEF ProjectFinancials
  <2> HIDE DEF list, P, w
  <2> QED BY <2>1, <2>2, <2>3, <2>4
<1> HIDE DEF in, out, K
<1> QED BY <1>12, <1>14, <1>15, <1>16 DEF ProjectsAgree, Costly, K

-----------------------------------------------------------------------------
\* A day is of the month that it lies in, and of no other.
LEMMA MonthOfDay ==
    ASSUME NEW d \in Int, NEW m \in Int
    PROVE  /\ MonthOf(d) \in Int
           /\ MonthOf(d) = m <=> Within(d, MonthDays(m))
           /\ Within(d, MonthDays(m)) <=> m * DaysInMonth <= d /\ d < (m + 1) * DaysInMonth
<1> DEFINE D == DaysInMonth
           q == d \div D
<1>1. D \in Nat \ {0}
  BY EntriesAssumption
<1>2. q \in Int /\ q * D <= d /\ d < q * D + D
  BY <1>1, QuotientIs
<1>3. MonthOf(d) = q
  BY DEF MonthOf
<1>4. m <= q <=> m * D <= d
  BY <1>1, AtMostQuotient
<1>5. m + 1 <= q <=> (m + 1) * D <= d
  BY <1>1, AtMostQuotient
<1>6. MonthDays(m).from = m * D /\ MonthDays(m).to = (m + 1) * D - 1
  BY DEF MonthDays
<1> HIDE DEF q, D
<1>7. m * D \in Int /\ (m + 1) * D \in Int
  BY <1>1
<1>8. Within(d, MonthDays(m)) <=> m * D <= d /\ d < (m + 1) * D
  BY <1>6, <1>7 DEF Within
<1>9. q = m <=> m <= q /\ ~(m + 1 <= q)
  BY <1>2
<1> QED BY <1>2, <1>3, <1>4, <1>5, <1>7, <1>8, <1>9 DEF D

\* The months up to one, taken together, are all its days and those before.
LEMMA ByMonth ==
    ASSUME Booked, NEW kinds, NEW M \in Nat,
           NEW g, g \in [0 .. M -> Int],
           \A m \in 0 .. M : g[m] = SumEntries(OnFile(kinds, MonthDays(m)))
    PROVE  SumFunction(g) = SumEntries(OnFile(kinds, [from |-> 0, to |-> MonthDays(M).to]))
<1> DEFINE w == [from |-> 0, to |-> MonthDays(M).to]
           E == OnFile(kinds, w)
           K == 0 .. M
           key == [e \in E |-> MonthOf(e.day)]
<1>1. E \in SUBSET Entries /\ IsFiniteSet(E) /\ E \in SUBSET books
  BY OnFileIs
<1>2. IsFiniteSet(K)
  BY FS_Interval
<1>3. DaysInMonth \in Nat \ {0}
  BY EntriesAssumption
<1>4. w.from = 0 /\ w.to = (M + 1) * DaysInMonth - 1
  BY DEF MonthDays
<1>5. ASSUME NEW e \in books
      PROVE  /\ e.day \in Int /\ 0 <= e.day
             /\ Within(e.day, w) <=> MonthOf(e.day) \in K
  <2>1. e.day \in Int /\ 0 <= e.day
    BY EntriesAre DEF Booked
  <2>2. PICK q : q = MonthOf(e.day)
    OBVIOUS
  <2>3. q \in Int /\ q * DaysInMonth <= e.day /\ e.day < (q + 1) * DaysInMonth
    BY <2>1, <2>2, MonthOfDay
  <2>4. /\ 0 <= q <=> 0 * DaysInMonth <= e.day
        /\ M + 1 <= q <=> (M + 1) * DaysInMonth <= e.day
    BY <1>3, <2>1, <2>2, AtMostQuotient DEF MonthOf
  <2>5. (M + 1) * DaysInMonth \in Int /\ 0 * DaysInMonth = 0
    BY <1>3
  <2>6. Within(e.day, w) <=> ~(M + 1 <= q)
    <3> HIDE DEF w
    <3> QED BY <1>4, <2>1, <2>4, <2>5 DEF Within
  <2>7. 0 <= q
    BY <2>1, <2>4, <2>5
  <2>8. q \in K <=> ~(M + 1 <= q)
    BY <2>3, <2>7
  <2> HIDE DEF K, w
  <2> QED BY <2>1, <2>2, <2>6, <2>8
<1>6. \A e \in E : key[e] \in K
  <2> HIDE DEF K, w
  <2> QED BY <1>1, <1>5 DEF OnFile
<1>7. ASSUME NEW m \in K PROVE g[m] = SumEntries({e \in E : key[e] = m})
  <2>1. m \in Int
    OBVIOUS
  <2>2. \A e \in books : MonthOf(e.day) = m <=> Within(e.day, MonthDays(m))
    BY <1>5, <2>1, MonthOfDay
  <2>3. {e \in E : key[e] = m} = OnFile(kinds, MonthDays(m))
    <3> HIDE DEF K, w
    <3> QED BY <1>5, <2>2 DEF OnFile
  <2> QED BY <2>3
<1> HIDE DEF E, key, K
<1>8. SumFunction(g) = SumEntries(E)
  <2>1. g \in [K -> Int]
    BY DEF K
  <2>2. \A m \in K : g[m] = SumEntries({e \in E : key[e] = m})
    BY <1>7
  <2>3. /\ E \in SUBSET Entries /\ IsFiniteSet(E) /\ IsFiniteSet(K) /\ g \in [K -> Int]
        /\ \A e \in E : key[e] \in K
        /\ \A m \in K : g[m] = SumEntries({e \in E : key[e] = m})
    BY <1>1, <1>2, <1>6, <2>1, <2>2
  <2> QED BY <2>3, EntriesByKey
<1> QED BY <1>8 DEF E

\* The months of the chart add up to the profit, the interest apart.
LEMMA SeriesDoesAgree == ASSUME Booked, ReportsTypeOK PROVE SeriesAgrees
<1>1. today \in Int /\ 0 <= today /\ DaysInMonth \in Nat \ {0}
  BY EntriesAssumption DEF ReportsTypeOK
<1>2. PICK M : M = MonthOf(today)
  OBVIOUS
<1>3. M \in Nat
  <2>1. M \in Int
    BY <1>1, <1>2, MonthOfDay
  <2>2. 0 <= M <=> 0 * DaysInMonth <= today
    BY <1>1, <1>2, AtMostQuotient DEF MonthOf
  <2>3. 0 * DaysInMonth = 0
    BY <1>1
  <2> QED BY <1>1, <2>1, <2>2, <2>3
<1> DEFINE w == [from |-> 0, to |-> MonthDays(M).to]
           K == 0 .. M
           in == [m \in K |-> Of("payment", MonthDays(m))]
           out == [m \in K |-> SumEntries(OnFile(Costly, MonthDays(m)))]
           series == MonthlySeries(M + 1)
           own == [m \in DOMAIN series |-> series[m].revenue - series[m].cost]
<1>4. DOMAIN series = K
  <2>1. M - (M + 1) + 1 = 0
    BY <1>3
  <2> QED BY <1>2, <2>1 DEF MonthlySeries
<1>5. ASSUME NEW m \in K
      PROVE  /\ in[m] \in Nat /\ out[m] \in Nat
             /\ series[m].revenue = in[m] /\ series[m].cost = out[m]
  <2>1. in[m] = Of("payment", MonthDays(m)) /\ out[m] = SumEntries(OnFile(Costly, MonthDays(m)))
    OBVIOUS
  <2>2. in[m] \in Nat /\ out[m] \in Nat
    BY <2>1, KindIs, OnFileIs, EntriesSum
  <2>3. /\ series[m].revenue = Of("payment", MonthDays(m))
        /\ series[m].cost = Of("expense", MonthDays(m)) + Of("salary", MonthDays(m))
                               + Of("payout", MonthDays(m))
    <3>1. m \in DOMAIN series
      BY <1>4
    <3>2. m \in (MonthOf(today) - (M + 1) + 1) .. MonthOf(today)
      BY <3>1 DEF MonthlySeries
    <3> QED BY <3>2 DEF MonthlySeries
  <2> QED BY <2>1, <2>2, <2>3, CostsAre
<1>6. in \in [K -> Int] /\ out \in [K -> Int]
  <2>1. \A m \in K : in[m] \in Int /\ out[m] \in Int
    BY <1>5
  <2>2. in = [m \in K |-> in[m]] /\ out = [m \in K |-> out[m]]
    OBVIOUS
  <2> HIDE DEF in, out, K
  <2> QED BY <2>1, <2>2
<1>7. own \in [K -> Int] /\ \A m \in K : own[m] = in[m] - out[m]
  <2>1. \A p, q \in Nat : p - q \in Int
    OBVIOUS
  <2>2. \A m \in K : own[m] = series[m].revenue - series[m].cost
    BY <1>4
  <2>3. DOMAIN own = K /\ own = [m \in K |-> own[m]]
    BY <1>4
  <2> HIDE DEF own, in, out, series, K
  <2>4. \A m \in K : own[m] \in Int /\ own[m] = in[m] - out[m]
    BY <1>5, <2>1, <2>2
  <2> QED BY <2>3, <2>4
<1>8. \A m \in K : /\ in[m] = SumEntries(OnFile({"payment"}, MonthDays(m)))
                   /\ out[m] = SumEntries(OnFile(Costly, MonthDays(m)))
  BY DEF Of
<1>9. IsFiniteSet(K)
  BY <1>3, FS_Interval
<1> HIDE DEF in, out, own
<1>10. SumFunction(own) = SumFunction(in) - SumFunction(out)
  <2> HIDE DEF K
  <2> QED BY <1>6, <1>7, <1>9, SumOfDifferences
<1>11. /\ SumFunction(in) = SumEntries(OnFile({"payment"}, w))
       /\ SumFunction(out) = SumEntries(OnFile(Costly, w))
  <2>1. SumFunction(in) = SumEntries(OnFile({"payment"}, w))
    BY <1>3, <1>6, <1>8, ByMonth
  <2>2. SumFunction(out) = SumEntries(OnFile(Costly, w))
    BY <1>3, <1>6, <1>8, ByMonth
  <2> QED BY <2>1, <2>2
<1>12. PICK pl : pl = ProfitAndLoss(w)
  OBVIOUS
<1>13. pl.net + pl.interest = SumEntries(OnFile({"payment"}, w)) - SumEntries(OnFile(Costly, w))
  BY <1>12, ProfitIs DEF Of
<1>14. SumFunction(in) \in Nat /\ SumFunction(out) \in Nat
  BY <1>11, OnFileIs, EntriesSum
<1> HIDE DEF w, series, K
<1>15. SumFunction(own) = pl.net + pl.interest
  BY <1>10, <1>11, <1>13, <1>14
<1> QED BY <1>2, <1>12, <1>15 DEF SeriesAgrees, w, series, own

-----------------------------------------------------------------------------
\* What was asked of each person, whoever they are, and nobody twice.
FigureOf(x) == \E P \in SUBSET (Employees \cup {"none"}) : answers[x] \in [P -> Nat]

\* People are finitely many, with the entries that name nobody.
LEMMA PeopleAreFinite == IsFiniteSet(Employees \cup {"none"})
  BY EntriesAssumption, FS_AddElement

\* Hours by person add up to the hours.
LEMMA ByPerson ==
    ASSUME Booked, NEW kind, NEW w
    PROVE  /\ \E P \in SUBSET (Employees \cup {"none"}) : ByEmployee(kind, w) \in [P -> Nat]
           /\ SumFunction(ByEmployee(kind, w)) = Of(kind, w)
<1> DEFINE E == OnFile({kind}, w)
           K == {e.employee : e \in E}
           key == [e \in E |-> e.employee]
           g == ByEmployee(kind, w)
<1>1. E \in SUBSET Entries /\ IsFiniteSet(E)
  BY OnFileIs
<1>2. K \in SUBSET (Employees \cup {"none"})
  BY <1>1, EntriesAre
<1>3. IsFiniteSet(K)
  BY <1>2, PeopleAreFinite, FS_Subset
<1>4. \A e \in E : key[e] \in K
  OBVIOUS
<1>5. ASSUME NEW u \in K
      PROVE  g[u] = SumEntries({e \in E : key[e] = u}) /\ g[u] \in Nat
  <2> DEFINE P == {e \in E : key[e] = u}
  <2>1. P = {e \in E : e.employee = u} /\ P \in SUBSET E
    OBVIOUS
  <2>2. g[u] = SumEntries(P)
    BY <2>1 DEF ByEmployee
  <2> HIDE DEF P, E
  <2>3. SumEntries(P) \in Nat
    BY <1>1, <2>1, EntriesPart
  <2> QED BY <2>2, <2>3 DEF P
<1>6. g = [u \in K |-> g[u]]
  BY DEF ByEmployee
<1> HIDE DEF g, K, key, E
<1>7. g \in [K -> Nat] /\ g \in [K -> Int]
  <2>1. \A u \in K : g[u] \in Nat
    BY <1>5
  <2> QED BY <1>6, <2>1
<1>8. SumFunction(g) = SumEntries(E)
  BY <1>1, <1>3, <1>4, <1>5, <1>7, EntriesByKey
<1> QED BY <1>2, <1>7, <1>8 DEF g, E, Of

\* The departments add up to the agency.
LEMMA DepartmentsDoAddUp == ASSUME ReportsInv PROVE DepartmentsAddUp
<1> SUFFICES ASSUME Shown, NEW x \in Named
             PROVE  LET told == SumFunction([d \in Departments |-> RowOf(x, d)]) + LooseRow(x)
                    IN  /\ told = SumFunction(answers[x])
                        /\ x = "hoursOf" /\ ~disturbed => told = answers["total"]
  BY DEF DepartmentsAddUp, Named
<1>1. /\ DOMAIN answers = {"total", "members", "hoursOf", "paidOf"}
      /\ Seats \in [Employees -> Departments \cup {NoDepartment}]
      /\ \A y \in Named : FigureOf(y)
  BY DEF Shown, Queries, Named, Seats, ReportsInv, FigureOf
<1> DEFINE S == Placed \cup Loose
           f == [u \in S |-> Known(x, u)]
           a == answers[x]
<1>2. PICK P \in SUBSET (Employees \cup {"none"}) : a \in [P -> Nat]
  BY <1>1 DEF FigureOf
<1>3. /\ DOMAIN answers["hoursOf"] \in SUBSET (Employees \cup {"none"})
      /\ DOMAIN answers["paidOf"] \in SUBSET (Employees \cup {"none"})
  BY <1>1 DEF FigureOf, Named
<1>4. /\ S \in SUBSET (Employees \cup {"none"}) /\ P \in SUBSET S /\ S \ Placed = Loose
      /\ Placed \in SUBSET S
  BY <1>2, <1>3 DEF Placed, Loose, Named
<1>5. IsFiniteSet(S) /\ IsFiniteSet(Placed)
  BY <1>4, PeopleAreFinite, FS_Subset
<1>6. \A u : /\ Known(x, u) \in Nat
             /\ (u \in P => Known(x, u) = a[u]) /\ (u \notin P => Known(x, u) = 0)
  BY <1>2 DEF Known
<1>7. f \in [S -> Int] /\ DOMAIN f = S /\ \A u \in S : f[u] = Known(x, u)
  BY <1>6
<1>8. Restrict(f, P) = a
  <2>1. \A u \in P : f[u] = a[u]
    BY <1>4, <1>6, <1>7
  <2>2. a = [u \in P |-> a[u]]
    BY <1>2
  <2> HIDE DEF f, a, S
  <2> QED BY <2>1, <2>2 DEF Restrict
<1>9. Restrict(f, Loose) = [u \in Loose |-> Known(x, u)]
  <2>1. \A u \in Loose : f[u] = Known(x, u)
    BY <1>4, <1>7
  <2> HIDE DEF f
  <2> QED BY <2>1 DEF Restrict
<1> HIDE DEF S, f
<1>10. SumFunction(f) = SumFunction(a)
  <2>1. \A u \in S \ P : f[u] = 0
    BY <1>6, <1>7
  <2> QED BY <1>4, <1>5, <1>7, <1>8, <2>1, SumOfRest
<1>11. SumFunction(f) = SumFunction(Restrict(f, Placed)) + LooseRow(x)
  BY <1>4, <1>5, <1>7, <1>9, SumSplits DEF LooseRow
<1> DEFINE g == [d \in Departments |-> RowOf(x, d)]
           p == Restrict(f, Placed)
<1>12. p \in [Placed -> Int] /\ DOMAIN p = Placed /\ \A u \in Placed : p[u] = Known(x, u)
  BY <1>4, <1>5, <1>7, PartOfSum
<1> HIDE DEF p
<1>13. \A u \in Placed : Seats[u] \in Departments
  BY <1>1 DEF Placed
<1>14. ASSUME NEW d \in Departments
       PROVE  RowOf(x, d) = SumFunction(GroupOf(p, Seats, d)) /\ RowOf(x, d) \in Int
  <2> DEFINE Q == {u \in Placed : Seats[u] = d}
  <2>1. NoDepartment \notin Departments
    BY EntriesAssumption
  <2>2. Q = {u \in Employees : Seats[u] = d} /\ Q \in SUBSET Placed
    BY <2>1 DEF Placed
  <2>3. GroupOf(p, Seats, d) = Restrict(p, Q)
    BY <1>12 DEF GroupOf
  <2>4. Restrict(p, Q) = [u \in Q |-> Known(x, u)]
    <3>1. \A u \in Q : p[u] = Known(x, u)
      BY <1>12, <2>2
    <3> HIDE DEF Q
    <3> QED BY <3>1 DEF Restrict
  <2>5. RowOf(x, d) = SumFunction([u \in Q |-> Known(x, u)])
    <3> HIDE DEF Q
    <3> QED BY <2>2 DEF RowOf
  <2> HIDE DEF Q
  <2>6. SumFunction(Restrict(p, Q)) \in Int
    BY <1>5, <1>12, <2>2, PartOfSum
  <2> QED BY <2>3, <2>4, <2>5, <2>6
<1>15. g \in [Departments -> Int] /\ \A d \in Departments : g[d] = SumFunction(GroupOf(p, Seats, d))
  BY <1>14
<1>16. IsFiniteSet(Departments)
  BY EntriesAssumption
<1> HIDE DEF g
<1>17. SumFunction(g) = SumFunction(p)
  BY <1>5, <1>12, <1>13, <1>15, <1>16, SumOfGroups
<1>18. SumFunction(g) + LooseRow(x) = SumFunction(a)
  BY <1>10, <1>11, <1>17 DEF p
<1>19. ASSUME x = "hoursOf", ~disturbed PROVE SumFunction(a) = answers["total"]
  <2>1. a = ByEmployee("hours", AllDays) /\ answers["total"] = Of("hours", AllDays)
    BY <1>1, <1>19 DEF ReportsInv
  <2>2. Booked
    BY DEF ReportsInv, BooksInv
  <2> QED BY <2>1, <2>2, ByPerson
<1> QED BY <1>18, <1>19 DEF g

\* What an answer says is of its shape, and is what is on file when it is asked for.
AnswersFit(a, undisturbed) ==
    /\ DOMAIN a \subseteq Queries
    /\ "members" \in DOMAIN a => a["members"] \in [Employees -> Departments \cup {NoDepartment}]
    /\ \A x \in Named \cap DOMAIN a :
           \E P \in SUBSET (Employees \cup {"none"}) : a[x] \in [P -> Nat]
    /\ undisturbed =>
           /\ "hoursOf" \in DOMAIN a => a["hoursOf"] = ByEmployee("hours", AllDays)
           /\ "total" \in DOMAIN a => a["total"] = Of("hours", AllDays)

\* What is answered by name is so much for each.
LEMMA AnswersAre ==
    ReportsInv <=>
        /\ BooksInv /\ today \in 0 .. FinalDay
        /\ departmentOf \in [Employees -> Departments \cup {NoDepartment}] /\ disturbed \in BOOLEAN
        /\ AnswersFit(answers, ~disturbed)
  BY DEF ReportsInv, ReportsTypeOK, BooksInv, Booked, RowsNet, NoneLeft, AnswersFit

\* What stays as it is stays true.
LEMMA BooksStay == ASSUME BooksInv, UNCHANGED bookVars PROVE BooksInv'
  BY DEF BooksInv, bookVars, Booked, RowsNet, NoneLeft, OpenPosition, WasCounted

\* So it is after a step.
LEMMA AnswersAfter ==
    ASSUME BooksInv', today' \in 0 .. FinalDay, disturbed' \in BOOLEAN,
           AnswersFit(answers, ~disturbed)',
           departmentOf' \in [Employees -> Departments \cup {NoDepartment}]
    PROVE  ReportsInv'
  BY DEF ReportsInv, ReportsTypeOK, BooksInv, Booked, RowsNet, NoneLeft, AnswersFit

\* What is on file is all that an answer of the same moment depends on.
LEMMA AnswersStay ==
    ASSUME books' = books, NEW a, NEW u PROVE AnswersFit(a, u)' <=> AnswersFit(a, u)
<1>1. /\ ByEmployee("hours", AllDays)' = ByEmployee("hours", AllDays)
      /\ Of("hours", AllDays)' = Of("hours", AllDays)
  BY DEF ByEmployee, Of, OnFile
<1> QED BY <1>1 DEF AnswersFit

\* Nobody has asked: there is nothing to fit.
LEMMA NoAnswers == ASSUME NEW u PROVE AnswersFit(<< >>, u)
<1>1. DOMAIN << >> = {}
  OBVIOUS
<1> QED BY <1>1 DEF AnswersFit

\* Nothing is recorded.
LEMMA ReportsBegin == ASSUME ReportsInit PROVE ReportsInv
<1>1. AnswersFit(answers, ~disturbed)
  BY NoAnswers DEF ReportsInit
<1>2. today = 0 /\ disturbed = FALSE
  BY DEF ReportsInit
<1>3. departmentOf \in [Employees -> Departments \cup {NoDepartment}] /\ 0 \in 0 .. FinalDay
  BY EntriesAssumption DEF ReportsInit
<1>4. Booked
  BY FS_EmptySet DEF ReportsInit, Booked
<1>5. RowsNet
  <2>1. ledger = [row \in LedgerRows |-> 0] /\ asked = {} /\ books = {}
    BY DEF ReportsInit
  <2>2. \A e \in Entries : <<e, "own">> \in LedgerRows /\ <<e, "adjustment">> \in LedgerRows
    BY DEF LedgerRows
  <2> QED BY <2>1, <2>2 DEF RowsNet, OpenPosition
<1>6. NoneLeft
  BY DEF ReportsInit, NoneLeft
<1> QED BY <1>1, <1>2, <1>3, <1>4, <1>5, <1>6, AnswersAre DEF BooksInv

\* A query that answers fits among the answers.
LEMMA AskKeeps == ASSUME ReportsInv, Ask PROVE ReportsInv'
<1>1. PICK q \in Queries \ DOMAIN answers :
         answers' = [x \in DOMAIN answers \cup {q} |->
                        IF x = q THEN Answer(q, AllDays) ELSE answers[x]]
  BY DEF Ask
<1>2. /\ UNCHANGED bookVars /\ books' = books /\ departmentOf' = departmentOf /\ today' = today
      /\ disturbed' = disturbed
  BY DEF Ask, bookVars
<1>3. /\ Booked /\ AnswersFit(answers, ~disturbed)
      /\ departmentOf \in [Employees -> Departments \cup {NoDepartment}]
  BY AnswersAre DEF BooksInv
<1>4. PICK a : a = answers'
  OBVIOUS
<1>5. /\ DOMAIN a = DOMAIN answers \cup {q} /\ a[q] = Answer(q, AllDays)
      /\ \A x \in DOMAIN answers : a[x] = answers[x]
  BY <1>1, <1>4
<1>6. q \in {"total", "members", "hoursOf", "paidOf"} /\ q \notin DOMAIN answers
  BY <1>1 DEF Queries
<1>7. /\ q = "total" => a[q] = Of("hours", AllDays)
      /\ q = "members" => a[q] = departmentOf
      /\ q = "hoursOf" => a[q] = ByEmployee("hours", AllDays)
      /\ q = "paidOf" => a[q] = ByEmployee("payout", AllDays)
  BY <1>5 DEF Answer
<1>8. \A kind : \E P \in SUBSET (Employees \cup {"none"}) : ByEmployee(kind, AllDays) \in [P -> Nat]
  BY <1>3, ByPerson
<1>9. "members" \in DOMAIN a => a["members"] \in [Employees -> Departments \cup {NoDepartment}]
  BY <1>3, <1>5, <1>6, <1>7 DEF AnswersFit
<1>10. ASSUME NEW x \in Named \cap DOMAIN a
       PROVE  \E P \in SUBSET (Employees \cup {"none"}) : a[x] \in [P -> Nat]
  <2>1. CASE x = q
    <3>1. \E kind : a[x] = ByEmployee(kind, AllDays)
      BY <1>6, <1>7, <2>1 DEF Named
    <3> QED BY <1>8, <3>1
  <2>2. CASE x # q
    <3>1. x \in Named \cap DOMAIN answers /\ a[x] = answers[x]
      BY <1>5, <2>2
    <3> QED BY <1>3, <3>1 DEF AnswersFit
  <2> QED BY <2>1, <2>2
<1>11. ASSUME ~disturbed
       PROVE  /\ "hoursOf" \in DOMAIN a => a["hoursOf"] = ByEmployee("hours", AllDays)
              /\ "total" \in DOMAIN a => a["total"] = Of("hours", AllDays)
  BY <1>3, <1>5, <1>6, <1>7, <1>11 DEF AnswersFit
<1>12. AnswersFit(a, ~disturbed)
  <2>1. DOMAIN a \subseteq Queries
    BY <1>1, <1>3, <1>5 DEF AnswersFit
  <2> QED BY <1>9, <1>10, <1>11, <2>1 DEF AnswersFit
<1>13. PICK u \in BOOLEAN : u <=> ~disturbed
  OBVIOUS
<1>14. AnswersFit(a, u)'
  <2>1. AnswersFit(a, u)
    BY <1>12, <1>13 DEF AnswersFit
  <2> QED BY <1>2, <2>1, AnswersStay
<1>15. AnswersFit(answers, ~disturbed)'
  BY <1>2, <1>4, <1>13, <1>14 DEF AnswersFit
<1>16. /\ BooksInv' /\ today' \in 0 .. FinalDay
       /\ departmentOf' \in [Employees -> Departments \cup {NoDepartment}] /\ disturbed' \in BOOLEAN
  BY <1>2, AnswersAre, BooksStay
<1> QED BY <1>15, <1>16, AnswersAfter

\* What changes meanwhile leaves the answers and marks them, if there are any.
LEMMA ChangeKeeps ==
    ASSUME ReportsInv, Change, BooksInv', today' \in 0 .. FinalDay,
           departmentOf' \in [Employees -> Departments \cup {NoDepartment}]
    PROVE  ReportsInv'
<1>1. answers' = answers /\ disturbed' = (answers # << >>)
  BY DEF Change
<1>2. AnswersFit(answers, FALSE)
  BY AnswersAre DEF AnswersFit
<1>3. disturbed' \in BOOLEAN
  BY <1>1
<1>4. ~disturbed' => DOMAIN answers = {}
  <2>1. DOMAIN << >> = {}
    OBVIOUS
  <2>2. ~disturbed' => answers = << >>
    BY <1>1
  <2> QED BY <2>1, <2>2
<1>5. AnswersFit(answers, ~disturbed)'
  BY <1>1, <1>2, <1>4 DEF AnswersFit
<1> QED BY <1>3, <1>5, AnswersAfter

\* A row more, or one changed, and the entry comes to what the change makes of it.
LEMMA RowChanges ==
    ASSUME RowsNet, NEW e \in Entries, NEW which \in {"own", "adjustment"}, NEW n \in Int,
           ledger' = [ledger EXCEPT ![<<e, which>>] = @ + n]
    PROVE  /\ ledger' \in [LedgerRows -> Int] /\ OpenPosition(e)' = OpenPosition(e) + n
           /\ \A x \in Entries \ {e} : OpenPosition(x)' = OpenPosition(x)
<1>1. ledger \in [LedgerRows -> Int]
  BY DEF RowsNet
<1>2. \A x \in Entries : <<x, "own">> \in LedgerRows /\ <<x, "adjustment">> \in LedgerRows
  BY DEF LedgerRows
<1>3. <<e, which>> \in LedgerRows /\ ledger[<<e, which>>] \in Int
  BY <1>1, <1>2
<1>4. ledger' \in [LedgerRows -> Int]
  BY <1>1, <1>3
<1>5. ledger[<<e, "own">>] \in Int /\ ledger[<<e, "adjustment">>] \in Int
  BY <1>1, <1>2
<1>6. OpenPosition(e)' = OpenPosition(e) + n
  <2>1. CASE which = "own"
    <3>1. /\ ledger'[<<e, "own">>] = ledger[<<e, "own">>] + n
          /\ ledger'[<<e, "adjustment">>] = ledger[<<e, "adjustment">>]
      BY <1>1, <1>2, <2>1
    <3> QED BY <1>5, <3>1 DEF OpenPosition
  <2>2. CASE which = "adjustment"
    <3>1. /\ ledger'[<<e, "adjustment">>] = ledger[<<e, "adjustment">>] + n
          /\ ledger'[<<e, "own">>] = ledger[<<e, "own">>]
      BY <1>1, <1>2, <2>2
    <3> QED BY <1>5, <3>1 DEF OpenPosition
  <2> QED BY <2>1, <2>2
<1>7. ASSUME NEW x \in Entries \ {e} PROVE OpenPosition(x)' = OpenPosition(x)
  <2>1. /\ ledger'[<<x, "own">>] = ledger[<<x, "own">>]
        /\ ledger'[<<x, "adjustment">>] = ledger[<<x, "adjustment">>]
    BY <1>1, <1>2
  <2> QED BY <2>1 DEF OpenPosition
<1> QED BY <1>4, <1>6, <1>7

\* What was written once is a row of what is on file, and slipped in if its like had been counted.
LEMMA RecordKeeps == ASSUME BooksInv, Record PROVE BooksInv'
<1>1. PICK e \in asked :
         /\ asked' = asked \ {e} /\ books' = books \cup {e}
         /\ ledger' = [ledger EXCEPT ![<<e, "own">>] = @ + Signed(e)]
         /\ slipped' = IF WasCounted(e) THEN slipped \cup {e} ELSE slipped
  BY DEF Record
<1>2. gone' = gone /\ counted' = counted /\ \A x : WasCounted(x)' <=> WasCounted(x)
  BY DEF Record, WasCounted
<1>3. e \in Entries /\ e \notin books /\ OpenPosition(e) = 0 /\ Signed(e) \in Int
  BY SignedIs DEF BooksInv, RowsNet
<1>4. Booked'
  BY <1>1, <1>3, FS_AddElement DEF BooksInv, Booked
<1>5. RowsNet'
  <2>1. /\ ledger' \in [LedgerRows -> Int] /\ OpenPosition(e)' = OpenPosition(e) + Signed(e)
        /\ \A x \in Entries \ {e} : OpenPosition(x)' = OpenPosition(x)
    BY <1>1, <1>3, RowChanges DEF BooksInv
  <2>2. ASSUME NEW x \in Entries
        PROVE  OpenPosition(x)' = IF x \in books' THEN Signed(x) ELSE 0
    <3>1. CASE x = e
      BY <1>1, <1>3, <2>1, <3>1
    <3>2. CASE x # e
      <4>1. x \in books' <=> x \in books
        BY <1>1, <3>2
      <4> QED BY <2>1, <3>2, <4>1 DEF BooksInv, RowsNet
    <3> QED BY <3>1, <3>2
  <2>3. asked' \subseteq Entries /\ books' \cap asked' = {}
    BY <1>1 DEF BooksInv, RowsNet
  <2>4. \A x : Signed(x)' = Signed(x)
    BY DEF Signed
  <2> QED BY <2>1, <2>2, <2>3, <2>4 DEF RowsNet
<1>6. NoneLeft'
  <2>1. ASSUME NEW x \in books' \ slipped', x.kind \in {"payment", "expense", "salary"}
        PROVE  ~WasCounted(x)
    <3>1. CASE x = e
      BY <1>1, <2>1, <3>1
    <3>2. CASE x # e
      BY <1>1, <2>1, <3>2 DEF BooksInv, NoneLeft
    <3> QED BY <3>1, <3>2
  <2>2. slipped' \subseteq books'
    BY <1>1 DEF BooksInv, NoneLeft
  <2> QED BY <1>2, <2>1, <2>2 DEF BooksInv, NoneLeft
<1> QED BY <1>4, <1>5, <1>6 DEF BooksInv

\* What is deleted is taken back in full, whatever its rows are.
LEMMA UnrecordKeeps == ASSUME BooksInv, Unrecord PROVE BooksInv'
<1>1. PICK e \in books :
         /\ books' = books \ {e} /\ slipped' = slipped \ {e}
         /\ ledger' = [ledger EXCEPT ![<<e, "adjustment">>] = @ - OpenPosition(e)]
  BY DEF Unrecord
<1>2. /\ asked' = asked /\ gone' = gone /\ counted' = counted
      /\ \A x : WasCounted(x)' <=> WasCounted(x)
  BY DEF Unrecord, WasCounted
<1>3. e \in Entries /\ OpenPosition(e) \in Int /\ -OpenPosition(e) \in Int
  <2>1. e \in Entries
    BY DEF BooksInv, Booked
  <2>2. OpenPosition(e) \in Int
    BY <2>1, SignedIs DEF BooksInv, RowsNet
  <2> QED BY <2>1, <2>2
<1>4. ledger' = [ledger EXCEPT ![<<e, "adjustment">>] = @ + -OpenPosition(e)]
  <2>1. ledger[<<e, "adjustment">>] \in Int
    BY <1>3 DEF BooksInv, RowsNet, LedgerRows
  <2>2. ledger[<<e, "adjustment">>] - OpenPosition(e)
           = ledger[<<e, "adjustment">>] + -OpenPosition(e)
    BY <1>3, <2>1
  <2> QED BY <1>1, <2>2
<1>5. Booked'
  BY <1>1, FS_Subset DEF BooksInv, Booked
<1>6. RowsNet'
  <2>1. /\ ledger' \in [LedgerRows -> Int] /\ OpenPosition(e)' = OpenPosition(e) + -OpenPosition(e)
        /\ \A x \in Entries \ {e} : OpenPosition(x)' = OpenPosition(x)
    BY <1>3, <1>4, RowChanges DEF BooksInv
  <2>2. ASSUME NEW x \in Entries
        PROVE  OpenPosition(x)' = IF x \in books' THEN Signed(x) ELSE 0
    <3>1. CASE x = e
      BY <1>1, <1>3, <2>1, <3>1
    <3>2. CASE x # e
      <4>1. x \in books' <=> x \in books
        BY <1>1, <3>2
      <4> QED BY <2>1, <3>2, <4>1 DEF BooksInv, RowsNet
    <3> QED BY <3>1, <3>2
  <2>3. asked' \subseteq Entries /\ books' \cap asked' = {}
    BY <1>1, <1>2 DEF BooksInv, RowsNet
  <2>4. \A x : Signed(x)' = Signed(x)
    BY DEF Signed
  <2> QED BY <2>1, <2>2, <2>3, <2>4 DEF RowsNet
<1>7. NoneLeft'
  BY <1>1, <1>2 DEF BooksInv, NoneLeft
<1> QED BY <1>5, <1>6, <1>7 DEF BooksInv

\* What is counted is counted once nothing of it is on file; deleted is what has been counted.
LEMMA CountKeeps == ASSUME BooksInv, NEW z \in Jobs, CountOnJob(z) PROVE BooksInv'
<1>1. PICK of \in JobKeepers \ counted[z] :
         counted' = [counted EXCEPT ![z] =
                        IF \E e \in books : e.job = z /\ e.kind \in of THEN {} ELSE @ \cup {of}]
  BY DEF CountOnJob
<1>2. books' = books /\ asked' = asked /\ ledger' = ledger /\ gone' = gone /\ slipped' = slipped
  BY DEF CountOnJob
<1>3. Booked' /\ RowsNet'
  BY <1>2 DEF BooksInv, Booked, RowsNet, OpenPosition
<1>4. counted \in [Jobs -> SUBSET JobKeepers]
  BY DEF BooksInv, NoneLeft
<1>5. counted' \in [Jobs -> SUBSET JobKeepers]
  BY <1>1, <1>4
<1>6. ASSUME NEW e \in books \ slipped, e.kind \in {"payment", "expense", "salary"}
      PROVE  ~WasCounted(e)'
  <2>1. ~WasCounted(e)
    BY <1>6 DEF BooksInv, NoneLeft
  <2>2. CASE e.job # z
    <3>1. e.job \in Jobs => counted'[e.job] = counted[e.job]
      BY <1>1, <1>4, <2>2
    <3> QED BY <1>2, <2>1, <3>1 DEF WasCounted
  <2>3. CASE e.job = z
    <3>1. \A x \in counted'[z] : x \in counted[z] \/ (x = of /\ e.kind \notin of)
      BY <1>1, <1>4, <2>3
    <3> QED BY <1>2, <2>1, <2>3, <3>1 DEF WasCounted
  <2> QED BY <2>2, <2>3
<1> QED BY <1>2, <1>3, <1>5, <1>6 DEF BooksInv, NoneLeft

\* So what lies on a deleted project is a payout, or slipped in.
LEMMA DeleteKeeps == ASSUME BooksInv, NEW z \in Jobs, DeleteJob(z) PROVE BooksInv'
<1>1. counted[z] = JobKeepers /\ gone' = gone \cup {z} /\ counted' = [counted EXCEPT ![z] = {}]
  BY DEF DeleteJob
<1>2. books' = books /\ asked' = asked /\ ledger' = ledger /\ slipped' = slipped
  BY DEF DeleteJob
<1>3. Booked' /\ RowsNet'
  BY <1>2 DEF BooksInv, Booked, RowsNet, OpenPosition
<1>4. counted \in [Jobs -> SUBSET JobKeepers] /\ gone \subseteq Jobs
  BY DEF BooksInv, NoneLeft
<1>5. counted' \in [Jobs -> SUBSET JobKeepers] /\ gone' \subseteq Jobs
  BY <1>1, <1>4
<1>6. ASSUME NEW e \in books \ slipped, e.kind \in {"payment", "expense", "salary"}
      PROVE  ~WasCounted(e)'
  <2>1. ~WasCounted(e)
    BY <1>6 DEF BooksInv, NoneLeft
  <2>2. e.job # z
    <3>1. \E of \in JobKeepers : e.kind \in of
      BY <1>6 DEF JobKeepers
    <3> QED BY <1>1, <2>1, <3>1 DEF WasCounted
  <2>3. e.job \in Jobs => counted'[e.job] = counted[e.job]
    BY <1>1, <1>4, <2>2
  <2> QED BY <1>1, <2>1, <2>2, <2>3 DEF WasCounted
<1> QED BY <1>2, <1>3, <1>5, <1>6 DEF BooksInv, NoneLeft

\* Whatever is recorded, deleted, moved or asked, the books can be read.
LEMMA ReportsStep == ASSUME ReportsInv, [ReportsNext]_reportVars PROVE ReportsInv'
<1>1. /\ BooksInv /\ today \in 0 .. FinalDay
      /\ departmentOf \in [Employees -> Departments \cup {NoDepartment}] /\ disturbed \in BOOLEAN
      /\ AnswersFit(answers, ~disturbed)
  BY AnswersAre
<1>2. CASE Ask
  BY <1>2, AskKeeps
<1>3. CASE CloseScreen
  <2>1. answers' = << >> /\ disturbed' = FALSE /\ DOMAIN answers' = {}
    BY <1>3 DEF CloseScreen
  <2>2. AnswersFit(answers, ~disturbed)'
    BY <2>1 DEF AnswersFit
  <2>3. BooksInv' /\ departmentOf' = departmentOf /\ today' = today
    BY <1>1, <1>3, BooksStay DEF CloseScreen
  <2> QED BY <1>1, <2>1, <2>2, <2>3, AnswersAfter
<1>4. CASE Record
  <2>1. Change /\ departmentOf' = departmentOf /\ today' = today
    BY <1>4 DEF Record
  <2> QED BY <1>1, <1>4, <2>1, RecordKeeps, ChangeKeeps
<1>5. CASE Unrecord
  <2>1. Change /\ departmentOf' = departmentOf /\ today' = today
    BY <1>5 DEF Unrecord
  <2> QED BY <1>1, <1>5, <2>1, UnrecordKeeps, ChangeKeeps
<1>6. CASE \E z \in Jobs : DeleteJob(z)
  <2>1. PICK z \in Jobs : DeleteJob(z)
    BY <1>6
  <2>2. Change /\ departmentOf' = departmentOf /\ today' = today
    BY <2>1 DEF DeleteJob
  <2> QED BY <1>1, <2>1, <2>2, DeleteKeeps, ChangeKeeps
<1>7. CASE Move
  <2>1. PICK u \in Employees, d \in Departments \cup {NoDepartment} :
           departmentOf' = [departmentOf EXCEPT ![u] = d]
    BY <1>7 DEF Move
  <2>2. Change /\ UNCHANGED bookVars /\ today' = today
    BY <1>7 DEF Move
  <2>3. departmentOf' \in [Employees -> Departments \cup {NoDepartment}] /\ BooksInv'
    BY <1>1, <2>1, <2>2, BooksStay
  <2> QED BY <1>1, <2>2, <2>3, ChangeKeeps
<1>8. ASSUME BooksInv', books' = books, departmentOf' = departmentOf, answers' = answers,
             disturbed' = disturbed, today' \in 0 .. FinalDay
      PROVE  ReportsInv'
  <2>1. PICK a, u : a = answers /\ u = ~disturbed
    OBVIOUS
  <2>2. AnswersFit(a, u)
    BY <1>1, <2>1 DEF AnswersFit
  <2>3. AnswersFit(a, u)'
    BY <1>8, <2>2, AnswersStay
  <2>4. AnswersFit(answers, ~disturbed)'
    BY <1>8, <2>1, <2>3 DEF AnswersFit
  <2> QED BY <1>1, <1>8, <2>4, AnswersAfter
<1>9. CASE FindProject
  <2>1. PICK e \in Entries \ (books \cup asked) : asked' = asked \cup {e}
    BY <1>9 DEF FindProject
  <2>2. /\ books' = books /\ ledger' = ledger /\ counted' = counted
        /\ gone' = gone /\ slipped' = slipped
    BY <1>9 DEF FindProject
  <2>3. asked' \subseteq Entries /\ books' \cap asked' = {}
    BY <1>1, <2>1, <2>2 DEF BooksInv, RowsNet
  <2>4. BooksInv'
    BY <1>1, <2>2, <2>3 DEF BooksInv, Booked, RowsNet, NoneLeft, OpenPosition, WasCounted
  <2> QED BY <1>1, <1>8, <1>9, <2>2, <2>4 DEF FindProject
<1>10. CASE \E z \in Jobs : CountOnJob(z)
  <2>1. PICK z \in Jobs : CountOnJob(z)
    BY <1>10
  <2>2. BooksInv'
    BY <1>1, <2>1, CountKeeps
  <2> QED BY <1>1, <1>8, <2>1, <2>2 DEF CountOnJob
<1>11. CASE NextMonth
  <2>1. today' \in 0 .. FinalDay
    <3>1. /\ today + DaysInMonth <= FinalDay /\ today' = today + DaysInMonth
      BY <1>11 DEF NextMonth
    <3> QED BY <1>1, <3>1, EntriesAssumption
  <2>2. UNCHANGED bookVars /\ books' = books
    BY <1>11 DEF NextMonth, bookVars
  <2>3. BooksInv'
    BY <1>1, <2>2, BooksStay
  <2> QED BY <1>8, <1>11, <2>1, <2>2, <2>3 DEF NextMonth
<1>12. CASE UNCHANGED reportVars
  <2>1. UNCHANGED bookVars /\ books' = books
    BY <1>12 DEF reportVars, bookVars
  <2>2. BooksInv'
    BY <1>1, <2>1, BooksStay
  <2> QED BY <1>1, <1>8, <1>12, <2>1, <2>2 DEF reportVars
<1> QED BY <1>2, <1>3, <1>4, <1>5, <1>6, <1>7, <1>9, <1>10, <1>11, <1>12 DEF ReportsNext

\* What is claimed of the company's figures follows.
LEMMA ReportsSuffice == ASSUME ReportsInv PROVE ReportsTypeOK /\ BooksAgree
<1>1. Booked /\ RowsNet /\ ReportsTypeOK
  BY DEF ReportsInv, BooksInv
<1> QED BY <1>1, DepartmentsDoAddUp, SeriesDoesAgree, ScreensDoAgree, DashboardDoesAgree,
           CashDoesAgree, ProjectsDoAgree DEF BooksAgree

-----------------------------------------------------------------------------
(***************************************************************************)
(* Formulas.  A rounded quotient is known by what lies between.            *)
(***************************************************************************)
LEMMA RoundedIs ==
    ASSUME NEW n \in Int, NEW d \in Nat \ {0}
    PROVE  /\ Rounded(n, d) \in Int
           /\ Rounded(n, d) * (2 * d) <= 2 * n + d
           /\ 2 * n + d < Rounded(n, d) * (2 * d) + 2 * d
<1>1. 2 * n + d \in Int /\ 2 * d \in Nat \ {0}
  OBVIOUS
<1> QED BY <1>1, QuotientIs DEF Rounded

\* A whole number is no more than a rounded quotient if it is within half of it.
LEMMA RoundedAtLeast ==
    ASSUME NEW n \in Int, NEW d \in Nat \ {0}, NEW q \in Int
    PROVE  q <= Rounded(n, d) <=> q * (2 * d) <= 2 * n + d
<1>1. 2 * n + d \in Int /\ 2 * d \in Nat \ {0}
  OBVIOUS
<1> QED BY <1>1, AtMostQuotient DEF Rounded

\* And is the rounded quotient if it is within half on either side.
LEMMA RoundedIsThe ==
    ASSUME NEW n \in Int, NEW d \in Nat \ {0}, NEW q \in Int,
           q * (2 * d) <= 2 * n + d, 2 * n + d < q * (2 * d) + 2 * d
    PROVE  Rounded(n, d) = q
<1>1. q <= Rounded(n, d)
  BY RoundedAtLeast
<1>2. (q + 1) * (2 * d) = q * (2 * d) + 2 * d /\ q * (2 * d) \in Int /\ q + 1 \in Int
  OBVIOUS
<1>3. ~(q + 1 <= Rounded(n, d))
  BY <1>2, RoundedAtLeast
<1>4. Rounded(n, d) \in Int
  BY RoundedIs
<1> QED BY <1>1, <1>3, <1>4

\* A metric is of one value or of none.
LEMMA MetricIs ==
    ASSUME NEW n \in Int, NEW d \in Int
    PROVE  /\ d > 0 => Metric(n, d) = {Rounded(n, d)} /\ Rounded(n, d) \in Int
           /\ ~(d > 0) => Metric(n, d) = {}
           /\ \A v \in Metric(n, d) : d > 0 /\ v = Rounded(n, d) /\ v \in Int
  BY RoundedIs DEF Metric

\* Percentages of so much of d make sense, for small numbers.
LEMMA HalvesNeverMeet ==
    ASSUME NEW m \in Int, NEW d \in 1 .. 12, NEW v \in Int PROVE 20000 * m + d # v * (2 * d)
<1>1. CASE d = 1
  BY <1>1
<1>2. CASE d = 2
  BY <1>2
<1>3. CASE d = 3
  BY <1>3
<1>4. CASE d = 4
  BY <1>4
<1>5. CASE d = 5
  BY <1>5
<1>6. CASE d = 6
  BY <1>6
<1>7. CASE d = 7
  BY <1>7
<1>8. CASE d = 8
  BY <1>8
<1>9. CASE d = 9
  BY <1>9
<1>10. CASE d = 10
  BY <1>10
<1>11. CASE d = 11
  BY <1>11
<1>12. CASE d = 12
  BY <1>12
<1> QED BY <1>1, <1>2, <1>3, <1>4, <1>5, <1>6, <1>7, <1>8, <1>9, <1>10, <1>11, <1>12

\* Percentages of so much make sense, for small numbers.
LEMMA FormulasDoMakeSense == FormulasMakeSense
<1> SUFFICES ASSUME NEW n \in 0 .. 12, NEW d \in 0 .. 12
             PROVE  /\ \A v \in PlanVsActual(n, d) : (n = d <=> v = 10000) /\ (n > d <=> v > 10000)
                    /\ \A v \in ScopeChange(n, d) : PlanVsActual(n, d) = {v + 10000}
                    /\ \A v \in GrossMargin(d, n) : (v < 0 <=> n > d) /\ ScopeChange(n, d) = {-v}
                    /\ d = 0 => PlanVsActual(n, d) = {}
  BY DEF FormulasMakeSense
<1>1. n \in Nat /\ d \in Nat /\ n <= 12 /\ d <= 12
  OBVIOUS
<1>2. /\ PlanVsActual(n, d) = Metric(10000 * n, d)
      /\ ScopeChange(n, d) = Metric(10000 * (n - d), d)
      /\ GrossMargin(d, n) = Metric(10000 * (d - n), d)
  BY DEF PlanVsActual, ScopeChange, GrossMargin, Percent
<1>3. CASE d = 0
  <2>1. /\ Metric(10000 * n, d) = {} /\ Metric(10000 * (n - d), d) = {}
        /\ Metric(10000 * (d - n), d) = {}
    BY <1>3 DEF Metric
  <2> QED BY <1>2, <2>1
<1>4. CASE d # 0
  <2>1. d \in Nat \ {0} /\ d > 0 /\ d \in 1 .. 12 /\ d \in Int
    BY <1>1, <1>4
  <2>2. 10000 * n \in Int /\ 10000 * (n - d) \in Int /\ 10000 * (d - n) \in Int
    BY <1>1
  <2>3. /\ Rounded(10000 * n, d) \in Int /\ Rounded(10000 * (n - d), d) \in Int
        /\ Rounded(10000 * (d - n), d) \in Int
    <3>1. PICK x \in Int, y \in Int, z \in Int :
             x = 10000 * n /\ y = 10000 * (n - d) /\ z = 10000 * (d - n)
      BY <2>2
    <3>2. Rounded(x, d) \in Int /\ Rounded(y, d) \in Int /\ Rounded(z, d) \in Int
      BY <2>1, RoundedIs
    <3> QED BY <3>1, <3>2
  <2>4. PICK plan \in Int : plan = Rounded(10000 * n, d)
    BY <2>3
  <2>5. PICK scope \in Int : scope = Rounded(10000 * (n - d), d)
    BY <2>3
  <2>6. PICK gross \in Int : gross = Rounded(10000 * (d - n), d)
    BY <2>3
  <2>7. /\ plan = Rounded(10000 * n, d) /\ scope = Rounded(10000 * (n - d), d)
        /\ gross = Rounded(10000 * (d - n), d)
    BY <2>4, <2>5, <2>6
  <2>8. /\ PlanVsActual(n, d) = {plan} /\ ScopeChange(n, d) = {scope} /\ GrossMargin(d, n) = {gross}
    BY <1>2, <2>1, <2>7 DEF Metric
  <2>9. \A q \in Int : /\ q <= plan <=> q * (2 * d) <= 2 * (10000 * n) + d
                       /\ q <= gross <=> q * (2 * d) <= 2 * (10000 * (d - n)) + d
    BY <2>1, <2>2, <2>7, RoundedAtLeast
  <2>10. /\ 10000 <= plan <=> 10000 * (2 * d) <= 2 * (10000 * n) + d
         /\ 10001 <= plan <=> 10001 * (2 * d) <= 2 * (10000 * n) + d
         /\ 0 <= gross <=> 0 <= 2 * (10000 * (d - n)) + d
    <3>1. 0 * (2 * d) = 0 /\ 10000 \in Int /\ 10001 \in Int /\ 0 \in Int
      BY <1>1
    <3> QED BY <2>9, <3>1
  <2>11. (n = d <=> plan = 10000) /\ (n > d <=> plan > 10000)
    <3>1. 10000 <= plan <=> n >= d
      BY <1>1, <2>1, <2>10
    <3>2. 10001 <= plan <=> n > d
      BY <1>1, <2>1, <2>10
    <3> QED BY <1>1, <2>7, <3>1, <3>2
  <2>12. gross < 0 <=> n > d
    BY <1>1, <2>1, <2>7, <2>10
  <2>13. plan = scope + 10000
    <3>1. /\ scope * (2 * d) <= 2 * (10000 * (n - d)) + d
          /\ 2 * (10000 * (n - d)) + d < scope * (2 * d) + 2 * d
      BY <2>1, <2>2, <2>7, RoundedIs
    <3>2. (scope + 10000) * (2 * d) = scope * (2 * d) + 20000 * d /\ scope * (2 * d) \in Int
      BY <1>1
    <3>3. /\ (scope + 10000) * (2 * d) <= 2 * (10000 * n) + d
          /\ 2 * (10000 * n) + d < (scope + 10000) * (2 * d) + 2 * d
      BY <1>1, <3>1, <3>2
    <3> QED BY <2>1, <2>2, <2>7, <3>3, RoundedIsThe
  <2>14. scope = -gross
    <3>1. /\ gross * (2 * d) <= 2 * (10000 * (d - n)) + d
          /\ 2 * (10000 * (d - n)) + d < gross * (2 * d) + 2 * d
      BY <2>1, <2>2, <2>7, RoundedIs
    <3>2. 20000 * (d - n) + d # gross * (2 * d)
      BY <1>1, <2>1, HalvesNeverMeet
    <3>3. (-gross) * (2 * d) = -(gross * (2 * d)) /\ gross * (2 * d) \in Int /\ -gross \in Int
      BY <1>1
    <3>4. /\ (-gross) * (2 * d) <= 2 * (10000 * (n - d)) + d
          /\ 2 * (10000 * (n - d)) + d < (-gross) * (2 * d) + 2 * d
      BY <1>1, <3>1, <3>2, <3>3
    <3> QED BY <2>1, <2>2, <2>7, <3>3, <3>4, RoundedIsThe
  <2> QED BY <1>4, <2>8, <2>11, <2>12, <2>13, <2>14
<1> QED BY <1>3, <1>4

\* The greatest of two.
LEMMA LatestOfTwo ==
    ASSUME NEW a \in Int, NEW b \in Int, a <= b PROVE Latest({a, b}) = b
<1>1. \E x \in {a, b} : \A y \in {a, b} : y <= x
  OBVIOUS
<1>2. /\ Latest({a, b}) \in {a, b} /\ \A y \in {a, b} : y <= Latest({a, b})
  BY <1>1 DEF Latest
<1> QED BY <1>2

\* A window is as many days long as it has.
LEMMA WindowsDoSuit == WindowsAreTheirDays
<1> SUFFICES ASSUME NEW from \in 0 .. 3, NEW to \in 0 .. 3, NEW now \in 0 .. 7
             PROVE  /\ from <= to => /\ ResolveRange({from}, {to}, now).days = to - from + 1
                                     /\ WorkloadDays({from}, {to}, now) = to - from + 2
                    /\ ResolveRange({}, {}, now).days = 30 /\ WorkloadDays({}, {}, now) = 7
  BY DEF WindowsAreTheirDays
<1>1. from \in Int /\ to \in Int /\ now \in Int
  OBVIOUS
<1>2. /\ \A x : Bound({from}, ToDateOnly, x) = 2 * from /\ Bound({to}, EndOfDay, x) = 2 * to + 1
      /\ \A x : Bound({}, ToDateOnly, x) = x /\ Bound({}, EndOfDay, x) = x
  BY DEF Bound, ToDateOnly, EndOfDay
<1>3. ASSUME from <= to
      PROVE  /\ ResolveRange({from}, {to}, now).days = to - from + 1
             /\ WorkloadDays({from}, {to}, now) = to - from + 2
  <2>1. DaysOf((2 * to + 1) - 2 * from) = to - from + 1
    <3>1. ((2 * to + 1) - 2 * from) \div 2 = to - from
      BY <1>1
    <3> QED BY <1>1, <3>1 DEF DaysOf
  <2>2. RoundedDaysOf((2 * to + 1) - 2 * from) = to - from + 2
    <3>1. Rounded((2 * to + 1) - 2 * from, 2) = to - from + 1
      BY <1>1, RoundedIsThe
    <3> QED BY <1>1, <3>1 DEF RoundedDaysOf
  <2>3. Latest({1, to - from + 1}) = to - from + 1 /\ Latest({1, to - from + 2}) = to - from + 2
    BY <1>1, <1>3, LatestOfTwo
  <2>4. ResolveRange({from}, {to}, now).days = Latest({1, DaysOf((2 * to + 1) - 2 * from)})
    BY <1>2 DEF ResolveRange
  <2>5. WorkloadDays({from}, {to}, now) = Latest({1, RoundedDaysOf((2 * to + 1) - 2 * from)})
    BY <1>2 DEF WorkloadDays
  <2> QED BY <2>1, <2>2, <2>3, <2>4, <2>5
<1>4. ResolveRange({}, {}, now).days = 30 /\ WorkloadDays({}, {}, now) = 7
  <2>1. now - (now - 2 * 29) = 58 /\ now - (now - 2 * 6) = 12
    BY <1>1
  <2>2. ResolveRange({}, {}, now).days = Latest({1, DaysOf(now - (now - 2 * 29))})
    BY <1>2 DEF ResolveRange
  <2>3. WorkloadDays({}, {}, now) = Latest({1, RoundedDaysOf(now - (now - 2 * 6))})
    BY <1>2 DEF WorkloadDays
  <2>4. DaysOf(58) = 30
    BY DEF DaysOf
  <2>5. Rounded(12, 2) = 6
    BY RoundedIsThe
  <2>6. RoundedDaysOf(12) = 7
    BY <2>5 DEF RoundedDaysOf
  <2>7. Latest({1, 30}) = 30 /\ Latest({1, 7}) = 7
    BY LatestOfTwo
  <2> QED BY <2>1, <2>2, <2>3, <2>4, <2>6, <2>7
<1> QED BY <1>3, <1>4

-----------------------------------------------------------------------------
(***************************************************************************)
(* People.                                                                 *)
(***************************************************************************)
BilledBy == [u \in Crew |-> logged[u].billable]
WeeklyOf == [u \in working |-> Row(u).weekly]

\* What is known of the crew.
LEMMA CrewIs ==
    ASSUME MeasuresTypeOK
    PROVE  /\ IsFiniteSet(Crew) /\ IsFiniteSet(working) /\ working \in SUBSET Crew
           /\ \A u : Row(u).weekly \in Nat /\ Row(u).rate \in Nat
           /\ \A u \in Crew : logged[u].billable \in Nat
           /\ collected \in Nat
           /\ BilledBy \in [Crew -> Int]
           /\ WeeklyOf \in [working -> Int] /\ WeeklyOf \in [working -> Nat]
           /\ \A u \in Crew : BilledBy[u] = logged[u].billable
           /\ \A u \in working : WeeklyOf[u] = Row(u).weekly
<1>1. IsFiniteSet(Crew) /\ working \in SUBSET Crew
  BY MeasuresAssumption DEF MeasuresTypeOK
<1>2. IsFiniteSet(working)
  BY <1>1, FS_Subset
<1>3. ASSUME NEW u PROVE Row(u).weekly \in Nat /\ Row(u).rate \in Nat
  <2>1. CASE u \in DOMAIN capacity
    <3>1. capacity[u] \in CapacityRow /\ Row(u) = capacity[u]
      BY <2>1 DEF MeasuresTypeOK, Row
    <3>2. Row(u).weekly \in WeeklyHours \cup {DefaultWeekly} /\ Row(u).rate \in BillRates \cup {0}
      BY <3>1 DEF CapacityRow
    <3>3. Row(u).weekly \in Nat
      <4>1. WeeklyHours \subseteq Nat /\ DefaultWeekly \in Nat
        BY MeasuresAssumption DEF DefaultWeekly
      <4> QED BY <3>2, <4>1
    <3>4. Row(u).rate \in Nat
      <4>1. BillRates \subseteq Nat /\ 0 \in Nat
        BY MeasuresAssumption
      <4> QED BY <3>2, <4>1
    <3> QED BY <3>3, <3>4
  <2>2. CASE u \notin DOMAIN capacity
    BY <2>2 DEF Row, DefaultWeekly
  <2> QED BY <2>1, <2>2
<1>4. \A u \in Crew : logged[u].billable \in Nat
  BY DEF MeasuresTypeOK, Hours
<1>5. collected \in Nat
  BY MeasuresAssumption DEF MeasuresTypeOK
<1>6. BilledBy \in [Crew -> Int] /\ \A u \in Crew : BilledBy[u] = logged[u].billable
  BY <1>4 DEF BilledBy
<1>7. /\ WeeklyOf \in [working -> Int] /\ WeeklyOf \in [working -> Nat]
      /\ \A u \in working : WeeklyOf[u] = Row(u).weekly
  BY <1>3 DEF WeeklyOf
<1> QED BY <1>1, <1>2, <1>3, <1>4, <1>5, <1>6, <1>7

\* What is the agency's, in numbers.
LEMMA AgencyIs ==
    ASSUME MeasuresTypeOK
    PROVE  /\ SumFunction(WeeklyOf) \in Nat /\ SumFunction(BilledBy) \in Nat
           /\ \A days : /\ AgencyScope(days).available = AvailableHours(SumFunction(WeeklyOf), days)
                        /\ AgencyScope(days).utilization
                              = Utilization(SumFunction(BilledBy), AgencyScope(days).available)
<1>1. SumFunction(WeeklyOf) \in Nat
  BY CrewIs, SumOfNaturals
<1>2. SumFunction(BilledBy) \in Nat
  <2>1. BilledBy \in [Crew -> Nat] /\ IsFiniteSet(Crew)
    BY CrewIs DEF BilledBy
  <2> QED BY <2>1, SumOfNaturals
<1>3. LoadCapacity(working).weekly = SumFunction(WeeklyOf)
  BY DEF LoadCapacity, WeeklyOf
<1>4. LoadHours(Crew).billable = SumFunction(BilledBy)
  BY DEF LoadHours, BilledBy
<1>5. ASSUME NEW days
      PROVE  /\ AgencyScope(days).available = AvailableHours(LoadCapacity(working).weekly, days)
             /\ AgencyScope(days).utilization
                   = Utilization(LoadHours(Crew).billable, AgencyScope(days).available)
  BY DEF AgencyScope
<1> QED BY <1>1, <1>2, <1>3, <1>4, <1>5

\* What is a person's, in numbers: nothing is available of who has left.
LEMMA PersonIs ==
    ASSUME MeasuresTypeOK, NEW u \in Crew, NEW days
    PROVE  /\ u \in working => MeScope(u, days).available = AvailableHours(Row(u).weekly, days)
           /\ u \notin working => MeScope(u, days).available = AvailableHours(0, days)
           /\ MeScope(u, days).utilization
                 = Utilization(logged[u].billable, MeScope(u, days).available)
<1>1. \A own : LoadCapacity(own).weekly = SumFunction([x \in own |-> Row(x).weekly])
  BY DEF LoadCapacity
<1>2. /\ MeScope(u, days).available = AvailableHours(LoadCapacity({u} \cap working).weekly, days)
      /\ MeScope(u, days).utilization = Utilization(logged[u].billable, MeScope(u, days).available)
  BY DEF MeScope
<1>3. ASSUME u \in working PROVE LoadCapacity({u} \cap working).weekly = Row(u).weekly
  <2> DEFINE f == [x \in {u} |-> Row(x).weekly]
  <2>1. {u} \cap working = {u}
    BY <1>3
  <2>2. f[u] \in Int /\ f[u] = Row(u).weekly /\ DOMAIN f = {u}
    BY CrewIs
  <2> HIDE DEF f
  <2>3. SumFunctionOnSet(f, {u}) = f[u]
    BY <2>2, SumOfOne
  <2>4. SumFunction(f) = f[u]
    BY <2>2, <2>3 DEF SumFunction
  <2> QED BY <1>1, <2>1, <2>2, <2>4 DEF f
<1>4. ASSUME u \notin working PROVE LoadCapacity({u} \cap working).weekly = 0
  <2>1. {u} \cap working = {}
    BY <1>4
  <2>2. SumFunction([x \in {} |-> Row(x).weekly]) = 0
    BY SumOfNone
  <2> QED BY <1>1, <2>1, <2>2
<1> QED BY <1>2, <1>3, <1>4

\* Hours available are at most half a hundredth from what they would be unrounded.
LEMMA AvailableIs ==
    ASSUME NEW w \in Nat, NEW days \in Nat
    PROVE  /\ AvailableHours(w, days) \in Int
           /\ 14 * AvailableHours(w, days) <= 200 * days * w + 7
           /\ 200 * days * w <= 14 * AvailableHours(w, days) + 6
<1> DEFINE n == 100 * w * days
           a == Rounded(n, 7)
<1>1. n \in Int /\ 2 * n = 200 * days * w /\ 200 * days * w \in Int
  OBVIOUS
<1>2. AvailableHours(w, days) = a
  BY DEF AvailableHours
<1> HIDE DEF n
<1>3. a \in Int /\ a * (2 * 7) <= 2 * n + 7 /\ 2 * n + 7 < a * (2 * 7) + 2 * 7
  BY <1>1, RoundedIs
<1> HIDE DEF a
<1>4. 14 * a <= 2 * n + 7 /\ 2 * n <= 14 * a + 6
  BY <1>1, <1>3
<1> QED BY <1>1, <1>2, <1>3, <1>4

\* Of a whole week nothing is rounded.
LEMMA WholeWeeks == ASSUME NEW w \in Nat PROVE AvailableHours(w, 7) = 100 * w
<1>1. /\ (100 * w) * (2 * 7) <= 2 * (100 * w * 7) + 7
      /\ 2 * (100 * w * 7) + 7 < (100 * w) * (2 * 7) + 2 * 7
  OBVIOUS
<1>2. 100 * w * 7 \in Int /\ 100 * w \in Int
  OBVIOUS
<1> QED BY <1>1, <1>2, RoundedIsThe DEF AvailableHours

\* What is available of the agency is what is available of its people, but for the rounding.
LEMMA AvailableAddsUp ==
    ASSUME MeasuresTypeOK, NEW days \in Nat
    PROVE  AgencyScope(days).available - SumFunction([u \in working |-> MeScope(u, days).available])
              \in -Cardinality(Crew) .. Cardinality(Crew)
<1> DEFINE own == [u \in working |-> MeScope(u, days).available]
           all == AgencyScope(days).available
           W == SumFunction(WeeklyOf)
           n == Cardinality(working)
           c == 200 * days
<1>1. /\ IsFiniteSet(Crew) /\ IsFiniteSet(working) /\ working \in SUBSET Crew
      /\ WeeklyOf \in [working -> Int]
      /\ \A u \in working : WeeklyOf[u] \in Nat /\ WeeklyOf[u] = Row(u).weekly
  BY CrewIs
<1>2. W \in Nat /\ all = AvailableHours(W, days)
  BY AgencyIs
<1>3. n \in Nat /\ Cardinality(Crew) \in Nat /\ n <= Cardinality(Crew)
  BY <1>1, FS_CardinalityType, FS_Subset
<1>4. c \in Int /\ all \in Int /\ 14 * all <= c * W + 7 /\ c * W <= 14 * all + 6
  <2>1. PICK x \in Nat : x = W
    BY <1>2
  <2>2. /\ AvailableHours(x, days) \in Int
        /\ 14 * AvailableHours(x, days) <= 200 * days * x + 7
        /\ 200 * days * x <= 14 * AvailableHours(x, days) + 6
    BY AvailableIs
  <2>3. 200 * days \in Int
    OBVIOUS
  <2> HIDE DEF all, W
  <2> QED BY <1>2, <2>1, <2>2, <2>3
<1>5. ASSUME NEW u \in working
      PROVE  /\ own[u] \in Int
             /\ 14 * own[u] <= c * WeeklyOf[u] + 7 /\ c * WeeklyOf[u] <= 14 * own[u] + 6
             /\ c * WeeklyOf[u] \in Int
  <2>1. own[u] = AvailableHours(WeeklyOf[u], days) /\ WeeklyOf[u] \in Nat
    BY <1>1, PersonIs
  <2>2. c * WeeklyOf[u] \in Int
    BY <2>1
  <2> HIDE DEF own
  <2> QED BY <2>1, <2>2, AvailableIs
<1>6. own \in [working -> Int]
  <2>1. own = [u \in working |-> own[u]]
    OBVIOUS
  <2> HIDE DEF own
  <2> QED BY <1>5, <2>1
<1>7. PICK s \in Int : s = SumFunction(own)
  BY <1>1, <1>6, SumIsNumber
<1> HIDE DEF own, all, c, n
<1>8. PICK k \in Int, l \in Int, m \in Int : k = 14 /\ l = -7 /\ m = -6
  OBVIOUS
<1>9. AtMostOf(working, k, own, l, c, WeeklyOf) /\ AtMostOf(working, c, WeeklyOf, m, k, own)
  BY <1>5, <1>8 DEF AtMostOf
<1>10. k * SumFunction(own) + l * n <= c * W /\ c * W + m * n <= k * SumFunction(own)
  <2>1. k * SumFunction(own) + l * n <= c * W
    BY <1>1, <1>4, <1>6, <1>9, SumAbove DEF n
  <2>2. c * W + m * n <= k * SumFunction(own)
    BY <1>1, <1>4, <1>6, <1>9, SumAbove DEF n
  <2> QED BY <2>1, <2>2
<1>11. CASE n = 0
  <2>1. working = {}
    BY <1>1, <1>11, FS_EmptySet DEF n
  <2>2. W = 0 /\ SumFunction(own) = 0
    <3>1. DOMAIN own = {} /\ DOMAIN WeeklyOf = {}
      BY <1>1, <1>6, <2>1
    <3> QED BY <3>1, SumOfNone
  <2>3. all = 0
    <3>1. c * W = 0
      BY <1>4, <2>2
    <3> QED BY <1>4, <3>1
  <2> QED BY <1>3, <2>2, <2>3 DEF all, own
<1>12. CASE n > 0
  <2>1. PICK x \in Int : x = c * W
    BY <1>2, <1>4
  <2>2. 14 * s + -7 * n <= x /\ x + -6 * n <= 14 * s /\ 14 * all <= x + 7 /\ x <= 14 * all + 6
    <3>1. PICK p \in Int, q \in Int, r \in Int : p = k * s /\ q = l * n /\ r = m * n
      BY <1>3, <1>7
    <3>2. p = 14 * s /\ q = -7 * n /\ r = -6 * n
      BY <1>8, <3>1, <1>3, <1>7
    <3>3. p + q <= x /\ x + r <= p
      BY <1>7, <1>10, <2>1, <3>1
    <3> QED BY <1>3, <1>4, <1>7, <2>1, <3>2, <3>3
  <2>3. all - s <= n /\ -n <= all - s
    BY <1>3, <1>4, <1>7, <1>12, <2>2
  <2>4. all - s \in -Cardinality(Crew) .. Cardinality(Crew)
    BY <1>3, <1>4, <1>7, <2>3
  <2> QED BY <1>7, <2>4 DEF all, own
<1> QED BY <1>3, <1>11, <1>12

\* Who is used less than another, per hour available, is not shown as used more.
LEMMA UsedGrows ==
    ASSUME NEW b \in Nat, NEW w \in Nat \ {0}, NEW B \in Nat, NEW W \in Nat \ {0}, b * W <= B * w
    PROVE  Rounded(1000000 * b, 100 * w) <= Rounded(1000000 * B, 100 * W)
<1> DEFINE n == 2 * (1000000 * b) + 100 * w
           d == 2 * (100 * w)
           N == 2 * (1000000 * B) + 100 * W
           D == 2 * (100 * W)
<1>1. n \in Int /\ N \in Int /\ d \in Nat \ {0} /\ D \in Nat \ {0}
  OBVIOUS
<1>2. n * D <= N * d
  <2>1. PICK x \in Int, y \in Int, z \in Int : x = b * W /\ y = B * w /\ z = w * W
    OBVIOUS
  <2>2. n * D = 400000000 * x + 20000 * z
    BY <2>1
  <2>3. N * d = 400000000 * y + 20000 * z
    BY <2>1
  <2> QED BY <2>1, <2>2, <2>3
<1>3. Rounded(1000000 * b, 100 * w) = n \div d /\ Rounded(1000000 * B, 100 * W) = N \div D
  BY DEF Rounded
<1> HIDE DEF n, d, N, D
<1>4. n \div d <= N \div D
  BY <1>1, <1>2, QuotientsGrow
<1> QED BY <1>3, <1>4

\* Of a week, somebody is used who works here, has hours and is found to be.
LEMMA UsedIs ==
    ASSUME MeasuresTypeOK, NEW u \in Crew
    PROVE  /\ u \in working /\ Row(u).weekly > 0 =>
                 MeScope(u, 7).utilization
                    = {Rounded(1000000 * logged[u].billable, 100 * Row(u).weekly)}
           /\ ~(u \in working /\ Row(u).weekly > 0) => MeScope(u, 7).utilization = {}
<1>1. MeScope(u, 7).utilization = Metric(1000000 * logged[u].billable, MeScope(u, 7).available)
  BY PersonIs DEF Utilization
<1>2. Row(u).weekly \in Nat
  BY CrewIs
<1>3. CASE u \in working
  <2>1. MeScope(u, 7).available = 100 * Row(u).weekly
    <3>1. PICK w \in Nat : w = Row(u).weekly
      BY <1>2
    <3>2. MeScope(u, 7).available = AvailableHours(w, 7)
      BY <1>3, <3>1, PersonIs
    <3> QED BY <3>1, <3>2, WholeWeeks
  <2> QED BY <1>1, <1>2, <1>3, <2>1 DEF Metric
<1>4. CASE u \notin working
  <2>1. MeScope(u, 7).available = 0
    <3>1. MeScope(u, 7).available = AvailableHours(0, 7)
      BY <1>4, PersonIs
    <3>2. AvailableHours(0, 7) = 100 * 0
      <4>1. PICK z \in Nat : z = 0
        OBVIOUS
      <4>2. AvailableHours(z, 7) = 100 * z
        BY WholeWeeks
      <4> QED BY <4>1, <4>2
    <3> QED BY <3>1, <3>2
  <2> QED BY <1>1, <1>4, <2>1 DEF Metric
<1> QED BY <1>3, <1>4

\* The agency is used within what its people are used, if all who billed are found to be.
LEMMA UsedBetween ==
    ASSUME MeasuresTypeOK,
           \A u \in Crew : logged[u].billable > 0 => MeScope(u, 7).utilization # {},
           NEW v \in AgencyScope(7).utilization
    PROVE  \E lo, hi \in UNION {MeScope(u, 7).utilization : u \in working} : lo <= v /\ v <= hi
<1> DEFINE T == {u \in working : Row(u).weekly > 0}
           f == Restrict(WeeklyOf, T)
           g == Restrict(BilledBy, T)
           used(u) == MeScope(u, 7).utilization
<1>1. /\ IsFiniteSet(Crew) /\ IsFiniteSet(working) /\ working \in SUBSET Crew
      /\ \A u : Row(u).weekly \in Nat
      /\ BilledBy \in [Crew -> Int] /\ \A u \in Crew : BilledBy[u] = logged[u].billable
      /\ WeeklyOf \in [working -> Int] /\ \A u \in working : WeeklyOf[u] = Row(u).weekly
      /\ \A u \in Crew : logged[u].billable \in Nat
  BY CrewIs
<1>2. PICK B \in Nat, W \in Nat : B = SumFunction(BilledBy) /\ W = SumFunction(WeeklyOf)
  BY AgencyIs
<1>3. T \in SUBSET working /\ T \in SUBSET Crew /\ IsFiniteSet(T)
  BY <1>1, FS_Subset
<1>4. \A u \in T : used(u) = {Rounded(1000000 * logged[u].billable, 100 * Row(u).weekly)}
  BY <1>1, UsedIs
<1>5. \A u \in Crew \ T : logged[u].billable = 0
  <2> SUFFICES ASSUME NEW u \in Crew \ T PROVE logged[u].billable = 0
    OBVIOUS
  <2>1. ~(u \in working /\ Row(u).weekly > 0)
    OBVIOUS
  <2>2. MeScope(u, 7).utilization = {}
    BY <2>1, UsedIs
  <2> QED BY <1>1, <2>2
<1>6. \A u \in working \ T : WeeklyOf[u] = 0
  BY <1>1
<1>7. \A u \in T : Row(u).weekly \in Nat \ {0}
  BY <1>1
<1>8. v = Rounded(1000000 * B, 100 * W) /\ W \in Nat \ {0}
  <2>1. AgencyScope(7).utilization = Metric(1000000 * B, 100 * W)
    <3>1. AgencyScope(7).available = AvailableHours(W, 7)
      BY <1>2, AgencyIs
    <3>2. AvailableHours(W, 7) = 100 * W
      BY WholeWeeks
    <3> QED BY <1>2, <3>1, <3>2, AgencyIs DEF Utilization
  <2> QED BY <2>1 DEF Metric
<1> HIDE DEF T
<1>9. /\ f \in [T -> Int] /\ \A u \in T : f[u] = Row(u).weekly
      /\ g \in [T -> Int] /\ \A u \in T : g[u] = logged[u].billable
  <2>1. f \in [T -> Int] /\ \A u \in T : f[u] = WeeklyOf[u]
    BY <1>1, <1>3, PartOfSum
  <2>2. g \in [T -> Int] /\ \A u \in T : g[u] = BilledBy[u]
    BY <1>1, <1>3, PartOfSum
  <2> QED BY <1>1, <1>3, <2>1, <2>2
<1>10. B = SumFunction(g) /\ W = SumFunction(f)
  <2>1. SumFunction(WeeklyOf) = SumFunction(f)
    BY <1>1, <1>3, <1>6, SumOfRest
  <2>2. \A u \in Crew \ T : BilledBy[u] = 0
    BY <1>1, <1>5
  <2>3. SumFunction(BilledBy) = SumFunction(g)
    BY <1>1, <1>3, <2>2, SumOfRest
  <2> QED BY <1>2, <2>1, <2>3
<1> HIDE DEF f, g, used
<1>11. T # {}
  <2> SUFFICES ASSUME T = {} PROVE FALSE
    OBVIOUS
  <2>1. DOMAIN f = {}
    BY <1>9
  <2>2. SumFunction(f) = 0
    BY <2>1, SumOfNone
  <2> QED BY <1>8, <1>10, <2>2
<1>12. /\ \E x \in T : g[x] * W <= B * f[x]
       /\ \E x \in T : B * f[x] <= g[x] * W
  BY <1>3, <1>9, <1>10, <1>11, SomeAtMost
<1>13. PICK x \in T : logged[x].billable * W <= B * Row(x).weekly
  BY <1>9, <1>12
<1>14. PICK y \in T : B * Row(y).weekly <= logged[y].billable * W
  BY <1>9, <1>12
<1>15. Rounded(1000000 * logged[x].billable, 100 * Row(x).weekly) <= v
  <2>1. PICK b \in Nat, w \in Nat \ {0} : b = logged[x].billable /\ w = Row(x).weekly
    BY <1>1, <1>3, <1>7
  <2>2. b * W <= B * w
    BY <1>13, <2>1
  <2>3. Rounded(1000000 * b, 100 * w) <= Rounded(1000000 * B, 100 * W)
    BY <1>8, <2>2, UsedGrows
  <2> QED BY <1>8, <2>1, <2>3
<1>16. v <= Rounded(1000000 * logged[y].billable, 100 * Row(y).weekly)
  <2>1. PICK b \in Nat, w \in Nat \ {0} : b = logged[y].billable /\ w = Row(y).weekly
    BY <1>1, <1>3, <1>7
  <2>2. B * w <= b * W
    BY <1>14, <2>1
  <2>3. Rounded(1000000 * B, 100 * W) <= Rounded(1000000 * b, 100 * w)
    BY <1>8, <2>2, UsedGrows
  <2> QED BY <1>8, <2>1, <2>3
<1>17. PICK lo : lo = Rounded(1000000 * logged[x].billable, 100 * Row(x).weekly)
  OBVIOUS
<1>18. PICK hi : hi = Rounded(1000000 * logged[y].billable, 100 * Row(y).weekly)
  OBVIOUS
<1>19. lo \in used(x) /\ hi \in used(y) /\ x \in working /\ y \in working
  BY <1>3, <1>4, <1>17, <1>18
<1>20. /\ lo \in UNION {used(u) : u \in working} /\ hi \in UNION {used(u) : u \in working}
       /\ lo <= v /\ v <= hi
  BY <1>15, <1>16, <1>17, <1>18, <1>19
<1> QED BY <1>20 DEF used

\* People make the agency.
LEMMA PeopleDoMakeTheAgency == ASSUME MeasuresTypeOK PROVE PeopleMakeTheAgency
<1>1. ASSUME NEW days \in {1, 7, 30}
      PROVE  AgencyScope(days).available
                - SumFunction([u \in working |-> MeScope(u, days).available])
                \in -Cardinality(Crew) .. Cardinality(Crew)
  <2>1. days \in Nat
    OBVIOUS
  <2> QED BY <2>1, AvailableAddsUp
<1>2. ASSUME \A u \in Crew : logged[u].billable > 0 => MeScope(u, 7).utilization # {},
             NEW v \in AgencyScope(7).utilization
      PROVE  \E lo, hi \in UNION {MeScope(u, 7).utilization : u \in working} : lo <= v /\ v <= hi
  BY <1>2, UsedBetween
<1> QED BY <1>1, <1>2 DEF PeopleMakeTheAgency

\* Who has no rate changes no average of those who have one.
LEMMA UnratedDoNot == ASSUME MeasuresTypeOK PROVE UnratedDoNotDilute
<1>1. ASSUME NEW u \in working \ Rated(working)
      PROVE  BlendedRate(working \ {u}) = BlendedRate(working)
  <2>1. Rated(working \ {u}) = Rated(working)
    BY DEF Rated
  <2> QED BY <2>1 DEF BlendedRate
<1>2. ASSUME Rated(working) = {} PROVE AgencyScope(30).realization = {}
  <2>1. LoadCapacity(working).rate.sum = SumFunction([u \in Rated(working) |-> Row(u).rate])
    BY DEF LoadCapacity, BlendedRate
  <2>2. SumFunction([u \in {} |-> Row(u).rate]) = 0
    BY SumOfNone
  <2>3. LoadCapacity(working).rate.sum = 0
    BY <1>2, <2>1, <2>2
  <2>4. AgencyScope(30).realization
           = Realization(collected * LoadCapacity(working).rate.over, LoadHours(Crew).approved,
                         LoadCapacity(working).rate.sum)
    BY DEF AgencyScope
  <2> QED BY <2>3, <2>4 DEF Realization
<1> QED BY <1>1, <1>2 DEF UnratedDoNotDilute

\* What the agency is used, in one number or none.
LEMMA UtilizationIs ==
    ASSUME MeasuresTypeOK
    PROVE  \/ AgencyScope(30).utilization = {}
           \/ \E u \in Int : AgencyScope(30).utilization = {u}
<1>1. PICK B \in Nat, W \in Nat : B = SumFunction(BilledBy) /\ W = SumFunction(WeeklyOf)
  BY AgencyIs
<1>2. PICK days \in Nat : days = 30
  OBVIOUS
<1>3. PICK a \in Int : a = AvailableHours(W, days)
  BY AvailableIs
<1>4. AgencyScope(30).utilization = Metric(1000000 * B, a)
  BY <1>1, <1>2, <1>3, AgencyIs, SMT DEF Utilization
<1>5. PICK n \in Int : n = 1000000 * B
  BY SMT
<1>6. AgencyScope(30).utilization = Metric(n, a)
  BY <1>4, <1>5
<1>7. PICK q \in Int : q = Rounded(n, a) \/ ~(a > 0)
  BY <1>3, MetricIs
<1>8. Metric(n, a) = {} \/ Metric(n, a) = {q}
  BY <1>3, <1>7 DEF Metric
<1> QED BY <1>6, <1>8

\* A score is on its side of the target whatever the rounding of its percentage.
LEMMA ScoreIs ==
    ASSUME NEW u \in Int, NEW t \in Int, t > 0
    PROVE  /\ u <= t => Rounded(10000 * u, t) <= 10000
           /\ Rounded(10000 * u, t) < 10000 => u <= t
           /\ u >= t => Rounded(10000 * u, t) >= 10000
           /\ Rounded(10000 * u, t) > 10000 => u >= t
<1>1. PICK n \in Int, d \in Nat \ {0} : n = 10000 * u /\ d = t
  OBVIOUS
<1>2. PICK p \in Int : p = Rounded(n, d)
  BY RoundedIs
<1>3. PICK lo \in Int, hi \in Int : lo = 10000 /\ hi = 10001
  OBVIOUS
<1>4. /\ lo <= p <=> lo * (2 * d) <= 2 * n + d
      /\ hi <= p <=> hi * (2 * d) <= 2 * n + d
  BY <1>2, RoundedAtLeast
<1>5. /\ 10000 <= p <=> 20000 * t <= 20000 * u + t
      /\ 10001 <= p <=> 20002 * t <= 20000 * u + t
  BY <1>1, <1>3, <1>4
<1>6. /\ u <= t => p <= 10000
      /\ p < 10000 => u <= t
      /\ u >= t => p >= 10000
      /\ p > 10000 => u >= t
  BY <1>5
<1>7. p = Rounded(10000 * u, t)
  BY <1>1, <1>2
<1> QED BY <1>6, <1>7

\* A metric beside a target that was set.
ScoresAre(metric, t, lower, a) ==
    /\ a.onTrack # {} <=> metric # {}
    /\ TRUE \in a.onTrack => \E v \in metric : IF lower THEN v <= t ELSE v >= t
    /\ FALSE \in a.onTrack => \E v \in metric : ~IF lower THEN v <= t ELSE v >= t
    /\ \A p \in a.pct : \E v \in metric : p = Rounded(InFull * v, t)

\* That is what there is to know of it.
LEMMA AttainmentIs ==
    ASSUME NEW metric, NEW t, NEW lower \in BOOLEAN
    PROVE  ScoresAre(metric, t, lower, Attainment(metric, {t}, lower))
<1>1. {w \in metric : {t} # {}} = metric /\ (CHOOSE x \in {t} : TRUE) = t
  OBVIOUS
<1>2. Attainment(metric, {t}, lower).onTrack
         = {IF lower THEN v <= t ELSE v >= t : v \in metric}
  BY <1>1 DEF Attainment
<1>3. Attainment(metric, {t}, lower).pct
         = {Rounded(10000 * v, t) : v \in {x \in metric : t # 0}}
  BY <1>1 DEF Attainment
<1>4. PICK on : on = Attainment(metric, {t}, lower).onTrack
  OBVIOUS
<1>5. on = {IF lower THEN v <= t ELSE v >= t : v \in metric}
  BY <1>2, <1>4
<1>6. /\ on # {} <=> metric # {}
      /\ TRUE \in on => \E v \in metric : IF lower THEN v <= t ELSE v >= t
      /\ FALSE \in on => \E v \in metric : ~IF lower THEN v <= t ELSE v >= t
  BY <1>5, Zenon
<1>7. \A p \in Attainment(metric, {t}, lower).pct : \E v \in metric : p = Rounded(InFull * v, t)
  BY <1>3 DEF InFull
<1> QED BY <1>4, <1>6, <1>7, Zenon DEF ScoresAre

\* Sense and sums agree.
LEMMA ScoresDoMakeSense == ASSUME MeasuresTypeOK PROVE ScoresMakeSense
<1> DEFINE metric == AgencyScope(30).utilization
<1> SUFFICES ASSUME NEW t \in GoalValues, NEW lower \in BOOLEAN
             PROVE  LET a == Attainment(metric, {t}, lower)
                    IN  /\ a.onTrack # {} <=> metric # {}
                        /\ t > 0 => \A p \in a.pct :
                              /\ TRUE \in a.onTrack => IF lower THEN p <= InFull ELSE p >= InFull
                              /\ FALSE \in a.onTrack => IF lower THEN p >= InFull ELSE p <= InFull
  BY Zenon DEF ScoresMakeSense
<1>1. t \in Int
  BY MeasuresAssumption
<1>2. metric = {} \/ \E u \in Int : metric = {u}
  BY UtilizationIs
<1> HIDE DEF metric
<1>3. PICK on : on = Attainment(metric, {t}, lower).onTrack
  OBVIOUS
<1>4. PICK pct : pct = Attainment(metric, {t}, lower).pct
  OBVIOUS
<1>5. /\ on # {} <=> metric # {}
      /\ TRUE \in on => \E v \in metric : IF lower THEN v <= t ELSE v >= t
      /\ FALSE \in on => \E v \in metric : ~IF lower THEN v <= t ELSE v >= t
      /\ \A p \in pct : \E v \in metric : p = Rounded(InFull * v, t)
  <2>1. ScoresAre(metric, t, lower, Attainment(metric, {t}, lower))
    BY AttainmentIs
  <2> QED BY <1>3, <1>4, <2>1, Zenon DEF ScoresAre
<1>6. ASSUME t > 0, NEW p \in pct
      PROVE  /\ TRUE \in on => IF lower THEN p <= InFull ELSE p >= InFull
             /\ FALSE \in on => IF lower THEN p >= InFull ELSE p <= InFull
  <2>1. PICK u \in Int : metric = {u}
    BY <1>2, <1>5, <1>6
  <2>2. p = Rounded(InFull * u, t)
    BY <1>5, <2>1
  <2>3. p = Rounded(10000 * u, t)
    BY <2>2 DEF InFull
  <2>4. p \in Int /\ InFull \in Int
    <3>1. PICK n \in Int, d \in Nat \ {0} : n = 10000 * u /\ d = t
      BY <1>1, <1>6
    <3>2. Rounded(n, d) \in Int
      BY RoundedIs
    <3> QED BY <2>3, <3>1, <3>2 DEF InFull
  <2>5. /\ u <= t => p <= InFull
        /\ ~(u <= t) => p >= InFull
        /\ u >= t => p >= InFull
        /\ ~(u >= t) => p <= InFull
    BY <1>1, <1>6, <2>3, <2>4, ScoreIs DEF InFull
  <2>6. /\ TRUE \in on => IF lower THEN u <= t ELSE u >= t
        /\ FALSE \in on => ~IF lower THEN u <= t ELSE u >= t
    BY <1>5, <2>1, Zenon
  <2>7. CASE lower
    BY <2>5, <2>6, <2>7, Zenon
  <2>8. CASE ~lower
    BY <2>5, <2>6, <2>8, Zenon
  <2> QED BY <2>7, <2>8, Zenon
<1> QED BY <1>3, <1>4, <1>5, <1>6, Zenon

-----------------------------------------------------------------------------
\* What is measured stays what can be.
LEMMA MeasuresBegin == MeasuresInit => MeasuresTypeOK
<1> SUFFICES ASSUME MeasuresInit PROVE MeasuresTypeOK
  OBVIOUS
<1>1. DOMAIN capacity = {}
  BY DEF MeasuresInit
<1>2. logged \in [Crew -> Hours]
  BY DEF MeasuresInit, Hours
<1> QED BY <1>1, <1>2 DEF MeasuresInit, MeasuresTypeOK

\* Whoever comes, leaves, logs or has time approved, what is measured is of its type.
LEMMA MeasuresStep == MeasuresTypeOK /\ [MeasuresNext]_measureVars => MeasuresTypeOK'
<1> SUFFICES ASSUME MeasuresTypeOK, [MeasuresNext]_measureVars PROVE MeasuresTypeOK'
  OBVIOUS
<1>1. /\ working \subseteq Crew /\ collected \in Collected \cup {0}
      /\ DOMAIN capacity \subseteq Crew /\ \A u \in DOMAIN capacity : capacity[u] \in CapacityRow
      /\ logged \in [Crew -> Hours]
  BY DEF MeasuresTypeOK
<1>2. ASSUME NEW u \in Crew, SetCapacity(u) PROVE MeasuresTypeOK'
  <2>1. PICK weekly \in WeeklyHours \cup {Row(u).weekly}, rate \in BillRates \cup {Row(u).rate} :
           capacity' = [x \in DOMAIN capacity \cup {u} |->
                           IF x = u THEN [weekly |-> weekly, rate |-> rate] ELSE capacity[x]]
    BY <1>2, Zenon DEF SetCapacity
  <2>2. Row(u) \in CapacityRow
    <3>1. CASE u \in DOMAIN capacity
      BY <1>1, <3>1 DEF Row
    <3>2. CASE u \notin DOMAIN capacity
      BY <3>2 DEF Row, CapacityRow
    <3> QED BY <3>1, <3>2
  <2>3. weekly \in WeeklyHours \cup {DefaultWeekly} /\ rate \in BillRates \cup {0}
    BY <2>1, <2>2 DEF CapacityRow
  <2>4. [weekly |-> weekly, rate |-> rate] \in CapacityRow
    BY <2>3 DEF CapacityRow
  <2>5. /\ DOMAIN capacity' \subseteq Crew
        /\ \A x \in DOMAIN capacity' : capacity'[x] \in CapacityRow
    <3> DEFINE r == [weekly |-> weekly, rate |-> rate]
    <3>1. r \in CapacityRow
      BY <2>4
    <3>2. capacity' = [x \in DOMAIN capacity \cup {u} |-> IF x = u THEN r ELSE capacity[x]]
      BY <2>1
    <3> HIDE DEF r
    <3> QED BY <1>1, <3>1, <3>2
  <2>6. working' = working /\ logged' = logged /\ collected' = collected
    BY <1>2 DEF SetCapacity
  <2> QED BY <1>1, <2>5, <2>6 DEF MeasuresTypeOK
<1>3. ASSUME NEW u \in Crew, LogTime(u) PROVE MeasuresTypeOK'
  <2>1. PICK n \in HourSteps, billable \in BOOLEAN :
           logged' = [logged EXCEPT ![u].total = @ + n,
                                    ![u].billable = IF billable THEN @ + n ELSE @]
    BY <1>3, Zenon DEF LogTime
  <2>2. n \in Nat
    BY MeasuresAssumption
  <2>3. logged' \in [Crew -> Hours]
    <3>1. PICK total \in Nat, bill \in Nat :
             /\ total = logged[u].total + n
             /\ bill = IF billable THEN logged[u].billable + n ELSE logged[u].billable
      BY <1>1, <2>2 DEF Hours
    <3>2. logged' = [logged EXCEPT ![u].total = total, ![u].billable = bill]
      BY <1>1, <2>1, <3>1 DEF Hours
    <3> QED BY <1>1, <3>1, <3>2 DEF Hours
  <2>4. working' = working /\ capacity' = capacity /\ collected' = collected
    BY <1>3 DEF LogTime
  <2> QED BY <1>1, <2>3, <2>4 DEF MeasuresTypeOK
<1>4. ASSUME NEW u \in Crew, ApproveTime(u) PROVE MeasuresTypeOK'
  <2>1. logged' \in [Crew -> Hours]
    BY <1>1, <1>4 DEF ApproveTime, Hours
  <2>2. working' = working /\ capacity' = capacity /\ collected' = collected
    BY <1>4 DEF ApproveTime
  <2> QED BY <1>1, <2>1, <2>2 DEF MeasuresTypeOK
<1>5. ASSUME NEW u \in Crew, Depart(u) PROVE MeasuresTypeOK'
  BY <1>1, <1>5 DEF Depart, MeasuresTypeOK
<1>6. CASE Collect
  BY <1>1, <1>6 DEF Collect, MeasuresTypeOK
<1>7. CASE UNCHANGED measureVars
  BY <1>1, <1>7 DEF measureVars, MeasuresTypeOK
<1> QED BY <1>2, <1>3, <1>4, <1>5, <1>6, <1>7 DEF MeasuresNext

\* What can be measured is as it should be.
LEMMA MeasuresSuffice == MeasuresTypeOK => MeasuresHold
<1>1. MeasuresTypeOK => PeopleMakeTheAgency /\ UnratedDoNotDilute /\ ScoresMakeSense
  BY PeopleDoMakeTheAgency, UnratedDoNot, ScoresDoMakeSense
<1> QED BY <1>1, FormulasDoMakeSense, WindowsDoSuit DEF MeasuresHold

-----------------------------------------------------------------------------
(***************************************************************************)
(* Sales.                                                                  *)
(***************************************************************************)
StepRow == [lead : Deals, to : DealStages, day : Nat]
SalesInv == SellingTypeOK /\ steps \in Seq(StepRow)

\* Nothing is sold.
LEMMA SalesBegin == SellingInit => SalesInv
<1> SUFFICES ASSUME SellingInit PROVE SalesInv
  OBVIOUS
<1>1. deal \in [Deals -> DealRow]
  BY DEF SellingInit, DealRow, DealStages, OpenStages
<1>2. steps = << >> /\ dayOfSale \in 0 .. LastMove
  BY SellingAssumption DEF SellingInit
<1> QED BY <1>1, <1>2 DEF SalesInv, SellingTypeOK

\* A step that is written is on file with all there were.
LEMMA StepIsAdded ==
    ASSUME SalesInv, NEW l \in Deals, NEW stage \in DealStages,
           steps' = Append(steps, [lead |-> l, to |-> stage, day |-> dayOfSale])
    PROVE  /\ steps' \in Seq(StepRow)
           /\ \A i \in DOMAIN steps' :
                 steps'[i] \in [lead : Deals, to : DealStages, day : 0 .. LastMove]
<1>1. steps \in Seq(StepRow) /\ dayOfSale \in 0 .. LastMove /\ LastMove \in Nat
  BY SellingAssumption DEF SalesInv, SellingTypeOK
<1>2. PICK row : row = [lead |-> l, to |-> stage, day |-> dayOfSale]
  OBVIOUS
<1>3. row \in StepRow /\ row \in [lead : Deals, to : DealStages, day : 0 .. LastMove]
  BY <1>1, <1>2 DEF StepRow
<1>4. /\ steps' \in Seq(StepRow) /\ Len(steps') = Len(steps) + 1
      /\ \A i \in 1 .. Len(steps) : steps'[i] = steps[i]
      /\ steps'[Len(steps) + 1] = row
  BY <1>1, <1>2, <1>3, AppendProperties
<1>5. DOMAIN steps' = 1 .. Len(steps) + 1 /\ DOMAIN steps = 1 .. Len(steps) /\ Len(steps) \in Nat
  BY <1>1, <1>4, LenProperties
<1>6. \A i \in 1 .. Len(steps) : steps[i] \in [lead : Deals, to : DealStages, day : 0 .. LastMove]
  BY <1>5 DEF SalesInv, SellingTypeOK
<1>7. \A i \in 1 .. Len(steps) + 1 : i \in 1 .. Len(steps) \/ i = Len(steps) + 1
  BY <1>5
<1> QED BY <1>3, <1>4, <1>5, <1>6, <1>7

\* Whatever becomes of the leads, they and their steps are of their types.
LEMMA SalesStep == SalesInv /\ [SellingNext]_sellingVars => SalesInv'
<1> SUFFICES ASSUME SalesInv, [SellingNext]_sellingVars PROVE SalesInv'
  OBVIOUS
<1>1. /\ deal \in [Deals -> DealRow] /\ dayOfSale \in 0 .. LastMove /\ steps \in Seq(StepRow)
      /\ \A i \in DOMAIN steps : steps[i] \in [lead : Deals, to : DealStages, day : 0 .. LastMove]
      /\ LastMove \in Nat
  BY SellingAssumption DEF SalesInv, SellingTypeOK
<1>2. ASSUME NEW l \in Deals, NewDeal(l) PROVE SalesInv'
  <2>1. PICK o \in Brokers, s \in Sources \cup {NoSource}, stage \in DealStages :
           /\ deal' = [deal EXCEPT
                          ![l] = [at |-> "live", stage |-> stage, owner |-> o, source |-> s]]
           /\ steps' = Append(steps, [lead |-> l, to |-> stage, day |-> dayOfSale])
    BY <1>2, Zenon DEF NewDeal
  <2>2. deal' \in [Deals -> DealRow]
    <3>1. PICK row : row = [at |-> "live", stage |-> stage, owner |-> o, source |-> s]
      OBVIOUS
    <3>2. row \in DealRow
      BY <3>1 DEF DealRow
    <3>3. deal' = [deal EXCEPT ![l] = row]
      BY <2>1, <3>1
    <3> QED BY <1>1, <3>2, <3>3
  <2>3. dayOfSale' = dayOfSale
    BY <1>2 DEF NewDeal
  <2>4. /\ steps' \in Seq(StepRow)
        /\ \A i \in DOMAIN steps' :
              steps'[i] \in [lead : Deals, to : DealStages, day : 0 .. LastMove]
    BY <2>1, StepIsAdded
  <2> QED BY <1>1, <2>2, <2>3, <2>4 DEF SalesInv, SellingTypeOK
<1>3. ASSUME NEW l \in Deals, HandOver(l) PROVE SalesInv'
  <2>1. PICK o \in AllOwners : deal' = [deal EXCEPT ![l].owner = o]
    BY <1>3, Zenon DEF HandOver
  <2>2. deal' \in [Deals -> DealRow]
    BY <1>1, <2>1 DEF DealRow, AllOwners
  <2>3. dayOfSale' = dayOfSale /\ steps' = steps
    BY <1>3 DEF HandOver
  <2> QED BY <1>1, <2>2, <2>3 DEF SalesInv, SellingTypeOK
<1>4. ASSUME NEW l \in Deals, MoveDeal(l) PROVE SalesInv'
  <2>1. PICK s \in DealStages :
           /\ deal' = [deal EXCEPT ![l].stage = s]
           /\ steps' = Append(steps, [lead |-> l, to |-> s, day |-> dayOfSale])
    BY <1>4, Zenon DEF MoveDeal
  <2>2. deal' \in [Deals -> DealRow]
    BY <1>1, <2>1 DEF DealRow
  <2>3. dayOfSale' = dayOfSale
    BY <1>4 DEF MoveDeal
  <2>4. /\ steps' \in Seq(StepRow)
        /\ \A i \in DOMAIN steps' :
              steps'[i] \in [lead : Deals, to : DealStages, day : 0 .. LastMove]
    BY <2>1, StepIsAdded
  <2> QED BY <1>1, <2>2, <2>3, <2>4 DEF SalesInv, SellingTypeOK
<1>5. ASSUME NEW l \in Deals, DeleteDeal(l) PROVE SalesInv'
  <2>1. deal' \in [Deals -> DealRow]
    BY <1>1, <1>5 DEF DeleteDeal, DealRow
  <2>2. dayOfSale' = dayOfSale /\ steps' = steps
    BY <1>5 DEF DeleteDeal
  <2> QED BY <1>1, <2>1, <2>2 DEF SalesInv, SellingTypeOK
<1>6. CASE NextDayOfSale
  BY <1>1, <1>6 DEF NextDayOfSale, SalesInv, SellingTypeOK
<1>7. CASE UNCHANGED sellingVars
  BY <1>1, <1>7 DEF sellingVars, SalesInv, SellingTypeOK
<1> QED BY <1>2, <1>3, <1>4, <1>5, <1>6, <1>7 DEF SellingNext

-----------------------------------------------------------------------------
\* What is known of the leads.
LEMMA DealsAre ==
    ASSUME SalesInv
    PROVE  /\ IsFiniteSet(Deals) /\ IsFiniteSet(AllOwners)
           /\ IsFiniteSet(DOMAIN steps) /\ DOMAIN steps \subseteq Nat
           /\ \A i \in DOMAIN steps :
                 steps[i].lead \in Deals /\ steps[i].day \in Nat /\ steps[i].to \in DealStages
           /\ \A l \in Deals : deal[l].owner \in AllOwners
           /\ \A l \in Deals : deal[l].stage \in DealStages
           /\ Whose("all") = AllOwners
           /\ \A o \in AllOwners : Whose(o) = {o}
<1>1. IsFiniteSet(Deals) /\ IsFiniteSet(AllOwners)
  <2>1. IsFiniteSet(Brokers \cup {NoBroker})
    BY SellingAssumption, FS_AddElement
  <2> QED BY <2>1, SellingAssumption DEF AllOwners
<1>2. IsFiniteSet(DOMAIN steps) /\ DOMAIN steps \subseteq Nat
  <2>1. DOMAIN steps = 1 .. Len(steps) /\ Len(steps) \in Nat
    BY LenProperties DEF SalesInv
  <2>2. IsFiniteSet(1 .. Len(steps))
    BY <2>1, FS_Interval
  <2> QED BY <2>1, <2>2
<1>3. \A i \in DOMAIN steps :
         steps[i].lead \in Deals /\ steps[i].day \in Nat /\ steps[i].to \in DealStages
  BY DEF SalesInv, SellingTypeOK
<1>4. \A l \in Deals : deal[l].owner \in AllOwners /\ deal[l].stage \in DealStages
  BY DEF SalesInv, SellingTypeOK, DealRow, AllOwners
<1>5. Whose("all") = AllOwners
  BY DEF Whose
<1>6. \A o \in AllOwners : Whose(o) = {o}
  BY SellingAssumption DEF Whose, AllOwners
<1> QED BY <1>1, <1>2, <1>3, <1>4, <1>5, <1>6

\* The steps to a stage are counted once by owner, all told.
LEMMA StepsAddUp ==
    ASSUME SalesInv, NEW stage, NEW from, NEW to,
           NEW g, g = [o \in AllOwners |-> Decided(stage, from, to, o)]
    PROVE  SumFunction(g) = Decided(stage, from, to, "all")
<1> DEFINE S == StepsTo(stage, from, to, "all")
           k == [i \in S |-> deal[steps[i].lead].owner]
<1>1. /\ IsFiniteSet(DOMAIN steps) /\ IsFiniteSet(AllOwners)
      /\ \A i \in DOMAIN steps : deal[steps[i].lead].owner \in AllOwners
      /\ Whose("all") = AllOwners
      /\ \A o \in AllOwners : Whose(o) = {o}
  BY DealsAre
<1>2. S \subseteq DOMAIN steps
  BY DEF StepsTo
<1>3. IsFiniteSet(S)
  BY <1>1, <1>2, FS_Subset
<1>4. \A o \in AllOwners : StepsTo(stage, from, to, o) = {i \in S : k[i] = o}
  <2> SUFFICES ASSUME NEW o \in AllOwners
               PROVE  StepsTo(stage, from, to, o) = {i \in S : k[i] = o}
    OBVIOUS
  <2>1. StepsTo(stage, from, to, o) = {i \in S : deal[steps[i].lead].owner = o}
    BY <1>1 DEF StepsTo
  <2> QED BY <2>1
<1>5. \A i \in S : k[i] \in AllOwners
  BY <1>1, <1>2
<1> HIDE DEF S, k
<1>6. g \in [AllOwners -> Int] /\ \A o \in AllOwners : g[o] = Cardinality({i \in S : k[i] = o})
  <2>1. \A o \in AllOwners : g[o] = Cardinality({i \in S : k[i] = o})
    BY <1>4 DEF Decided
  <2>2. ASSUME NEW o \in AllOwners PROVE g[o] \in Int
    <3> DEFINE Q == {i \in S : k[i] = o}
    <3>1. Q \subseteq S /\ g[o] = Cardinality(Q)
      BY <2>1
    <3> HIDE DEF Q
    <3> QED BY <1>3, <3>1, FS_Subset, FS_CardinalityType
  <2>3. \A o \in AllOwners : g[o] \in Int
    BY <2>2
  <2> QED BY <2>1, <2>3
<1>7. SumFunction(g) = Cardinality(S)
  BY <1>1, <1>3, <1>5, <1>6, CountOfGroups
<1> QED BY <1>7 DEF S, Decided

\* And so are the leads that are open.
OpenOf(mine) ==
    {l \in Deals : Live(l) /\ deal[l].stage \in OpenStages /\ deal[l].owner \in Whose(mine)}

\* They are counted once by owner, all told.
LEMMA OpenAddsUp ==
    ASSUME SalesInv, NEW g, g = [o \in AllOwners |-> Cardinality(OpenOf(o))]
    PROVE  SumFunction(g) = Cardinality(OpenOf("all"))
<1> DEFINE S == OpenOf("all")
           k == [l \in S |-> deal[l].owner]
<1>1. /\ IsFiniteSet(Deals) /\ IsFiniteSet(AllOwners)
      /\ \A l \in Deals : deal[l].owner \in AllOwners
      /\ Whose("all") = AllOwners
      /\ \A o \in AllOwners : Whose(o) = {o}
  BY DealsAre
<1>2. S \subseteq Deals
  BY DEF OpenOf
<1>3. IsFiniteSet(S)
  BY <1>1, <1>2, FS_Subset
<1>4. \A o \in AllOwners : OpenOf(o) = {l \in S : k[l] = o}
  <2> SUFFICES ASSUME NEW o \in AllOwners PROVE OpenOf(o) = {l \in S : k[l] = o}
    OBVIOUS
  <2>1. OpenOf(o) = {l \in S : deal[l].owner = o}
    BY <1>1 DEF OpenOf
  <2> QED BY <2>1
<1>5. \A l \in S : k[l] \in AllOwners
  BY <1>1, <1>2
<1> HIDE DEF S, k
<1>6. g \in [AllOwners -> Int] /\ \A o \in AllOwners : g[o] = Cardinality({l \in S : k[l] = o})
  <2>1. \A o \in AllOwners : g[o] = Cardinality({l \in S : k[l] = o})
    BY <1>4
  <2>2. ASSUME NEW o \in AllOwners PROVE g[o] \in Int
    <3> DEFINE Q == {l \in S : k[l] = o}
    <3>1. Q \subseteq S /\ g[o] = Cardinality(Q)
      BY <2>1
    <3> HIDE DEF Q
    <3> QED BY <1>3, <3>1, FS_Subset, FS_CardinalityType
  <2>3. \A o \in AllOwners : g[o] \in Int
    BY <2>2
  <2> QED BY <2>1, <2>3
<1>7. SumFunction(g) = Cardinality(S)
  BY <1>1, <1>3, <1>5, <1>6, CountOfGroups
<1> QED BY <1>7 DEF S

\* The sources, with the one that is not recorded, are all the leads there are.
LEMMA SourcesAddUp ==
    ASSUME SalesInv
    PROVE  SumFunction([s \in DOMAIN BySource |->
                           BySource[s].won + BySource[s].lost + BySource[s].open])
              = Cardinality({l \in Deals : Live(l)})
<1> DEFINE S == {l \in Deals : Live(l)}
           K == {deal[l].source : l \in S}
           k == [l \in S |-> deal[l].source]
           g == [s \in DOMAIN BySource |-> BySource[s].won + BySource[s].lost + BySource[s].open]
           of(s) == {l \in Deals : Live(l) /\ deal[l].source = s}
<1>1. IsFiniteSet(Deals) /\ \A l \in Deals : deal[l].stage \in DealStages
  BY DealsAre
<1>2. IsFiniteSet(S) /\ S \subseteq Deals
  BY <1>1, FS_Subset
<1>3. \A l \in S : k[l] \in K
  OBVIOUS
<1>4. IsFiniteSet(K)
  <2>1. \A c \in K : \E l \in S : k[l] = c
    OBVIOUS
  <2> HIDE DEF K, S, k
  <2> QED BY <1>2, <2>1, ImageIsFinite
<1>5. DOMAIN BySource = K
  BY DEF BySource
<1>6. ASSUME NEW s \in K
      PROVE  /\ g[s] = Cardinality({l \in S : k[l] = s})
             /\ g[s] \in Int
  <2> DEFINE W == {l \in of(s) : deal[l].stage = "won"}
             L == {l \in of(s) : deal[l].stage = "lost"}
             O == {l \in of(s) : deal[l].stage \notin {"won", "lost"}}
  <2>1. g[s] = Cardinality(W) + Cardinality(L) + Cardinality(O)
    <3>1. g[s] = BySource[s].won + BySource[s].lost + BySource[s].open
      BY <1>5
    <3>2. BySource[s] = [won |-> Cardinality(W), lost |-> Cardinality(L), open |-> Cardinality(O)]
      BY DEF BySource
    <3> HIDE DEF W, L, O, g
    <3> QED BY <3>1, <3>2
  <2>2. {l \in S : k[l] = s} = of(s)
    OBVIOUS
  <2>3. IsFiniteSet(of(s))
    BY <1>1, FS_Subset
  <2>4. /\ W \subseteq of(s) /\ L \subseteq of(s) /\ O \subseteq of(s)
        /\ W \cap L = {} /\ (W \cup L) \cap O = {} /\ (W \cup L) \cup O = of(s)
    OBVIOUS
  <2> HIDE DEF W, L, O, of, g, S, K, k
  <2>5. IsFiniteSet(W) /\ IsFiniteSet(L) /\ IsFiniteSet(O)
    BY <2>3, <2>4, FS_Subset
  <2>6. /\ Cardinality(W) \in Nat /\ Cardinality(L) \in Nat /\ Cardinality(O) \in Nat
    BY <2>5, FS_CardinalityType
  <2>7. IsFiniteSet(W \cup L) /\ Cardinality(W \cup L) = Cardinality(W) + Cardinality(L)
    <3>1. Cardinality(W \cap L) = 0
      BY <2>4, FS_EmptySet
    <3>2. /\ IsFiniteSet(W \cup L)
          /\ Cardinality(W \cup L) = Cardinality(W) + Cardinality(L) - Cardinality(W \cap L)
      BY <2>5, FS_Union
    <3> QED BY <2>6, <3>1, <3>2
  <2>8. Cardinality((W \cup L) \cup O) = Cardinality(W \cup L) + Cardinality(O)
    <3>1. Cardinality((W \cup L) \cap O) = 0
      BY <2>4, FS_EmptySet
    <3>2. PICK V : V = W \cup L
      OBVIOUS
    <3>3. /\ Cardinality(V \cup O) = Cardinality(V) + Cardinality(O) - Cardinality(V \cap O)
          /\ Cardinality(V) \in Nat
      BY <2>5, <2>6, <2>7, <3>2, FS_Union
    <3> QED BY <2>6, <3>1, <3>2, <3>3
  <2>9. g[s] = Cardinality(of(s)) /\ g[s] \in Int
    <3>1. g[s] = Cardinality((W \cup L) \cup O) /\ g[s] \in Int
      BY <2>1, <2>6, <2>7, <2>8
    <3>2. (W \cup L) \cup O = of(s)
      BY <2>4
    <3> QED BY <3>1, <3>2
  <2> QED BY <2>2, <2>9
<1>7. g \in [K -> Int]
  <2>1. g = [s \in K |-> g[s]]
    BY <1>5
  <2>2. \A s \in K : g[s] \in Int
    BY <1>6
  <2> HIDE DEF g, K
  <2> QED BY <2>1, <2>2
<1> HIDE DEF S, K, k, g
<1>8. SumFunction(g) = Cardinality(S)
  BY <1>2, <1>3, <1>4, <1>6, <1>7, CountOfGroups
<1> QED BY <1>8 DEF g, S

\* What an owner is shown, in numbers.
LEMMA ScopeIs ==
    ASSUME NEW from, NEW to, NEW mine
    PROVE  /\ SalesScope(from, to, mine).won = Decided("won", from, to, mine)
           /\ SalesScope(from, to, mine).lost = Decided("lost", from, to, mine)
           /\ SalesScope(from, to, mine).open = Cardinality(OpenOf(mine))
           /\ SalesScope(from, to, mine).winRate
                 = WinRate(Decided("won", from, to, mine), Decided("lost", from, to, mine))
           /\ SalesScope(from, to, mine).dealSize # {} => Decided("won", from, to, mine) > 0
           /\ SalesScope(from, to, mine).cycle
                 = IF Cycles(from, to, mine) # {}
                      THEN {<<SumFunction([l \in Cycles(from, to, mine) |-> CycleOf(l)]),
                              Cardinality(Cycles(from, to, mine))>>}
                      ELSE {}
  BY DEF SalesScope, OpenOf

\* What salespeople are shown is the agency's, cut between them.
LEMMA CutsDoAddUp == ASSUME SalesInv PROVE CutsAddUp
<1>1. ASSUME NEW from, NEW to
      PROVE  /\ SumFunction([o \in AllOwners |-> SalesScope(from, to, o).won])
                   = SalesScope(from, to, "all").won
             /\ SumFunction([o \in AllOwners |-> SalesScope(from, to, o).lost])
                   = SalesScope(from, to, "all").lost
             /\ SumFunction([o \in AllOwners |-> SalesScope(from, to, o).open])
                   = SalesScope(from, to, "all").open
  <2>1. /\ [o \in AllOwners |-> SalesScope(from, to, o).won]
              = [o \in AllOwners |-> Decided("won", from, to, o)]
        /\ [o \in AllOwners |-> SalesScope(from, to, o).lost]
              = [o \in AllOwners |-> Decided("lost", from, to, o)]
        /\ [o \in AllOwners |-> SalesScope(from, to, o).open]
              = [o \in AllOwners |-> Cardinality(OpenOf(o))]
    BY ScopeIs
  <2>2. /\ SumFunction([o \in AllOwners |-> Decided("won", from, to, o)])
              = Decided("won", from, to, "all")
        /\ SumFunction([o \in AllOwners |-> Decided("lost", from, to, o)])
              = Decided("lost", from, to, "all")
    BY StepsAddUp
  <2>3. SumFunction([o \in AllOwners |-> Cardinality(OpenOf(o))]) = Cardinality(OpenOf("all"))
    BY OpenAddsUp
  <2>4. /\ SalesScope(from, to, "all").won = Decided("won", from, to, "all")
        /\ SalesScope(from, to, "all").lost = Decided("lost", from, to, "all")
        /\ SalesScope(from, to, "all").open = Cardinality(OpenOf("all"))
    BY ScopeIs
  <2> QED BY <2>1, <2>2, <2>3, <2>4
<1>2. SumFunction([s \in DOMAIN BySource |-> BySource[s].won + BySource[s].lost + BySource[s].open])
         = Cardinality({l \in Deals : Live(l)})
  BY SourcesAddUp
<1> QED BY <1>1, <1>2 DEF CutsAddUp

\* Every deal that is valued has a win that is counted.
LEMMA WinOfKept ==
    ASSUME NEW from, NEW to, NEW mine, NEW l \in StillWon(from, to, mine)
    PROVE  \E i \in StepsTo("won", from, to, mine) : steps[i].lead = l
<1>1. deal[l].owner \in Whose(mine) /\ WonInWindow(l, from, to)
  BY DEF StillWon
<1>2. PICK i \in DOMAIN steps : /\ steps[i].lead = l /\ steps[i].to = "won"
                                /\ from <= steps[i].day /\ steps[i].day <= to
  BY <1>1 DEF WonInWindow
<1>3. i \in StepsTo("won", from, to, mine)
  BY <1>1, <1>2 DEF StepsTo
<1> QED BY <1>2, <1>3

\* No more deals are valued than wins are counted; as many, if every win is of a deal of its own
\* that is still won.
LEMMA KeptAreCounted ==
    ASSUME SalesInv, NEW from, NEW to, NEW mine
    PROVE  /\ Cardinality(StillWon(from, to, mine)) <= Decided("won", from, to, mine)
           /\ /\ \A i, k \in StepsTo("won", from, to, mine) : steps[i].lead = steps[k].lead => i = k
              /\ \A i \in StepsTo("won", from, to, mine) :
                    deal[steps[i].lead].stage = "won" /\ Live(steps[i].lead)
              => Cardinality(StillWon(from, to, mine)) = Decided("won", from, to, mine)
<1> DEFINE wins == StepsTo("won", from, to, mine)
           kept == StillWon(from, to, mine)
           R == {i \in wins : steps[i].lead \in kept}
           m == [i \in R |-> steps[i].lead]
<1>1. wins \subseteq DOMAIN steps /\ IsFiniteSet(DOMAIN steps)
  BY DealsAre DEF StepsTo
<1>2. IsFiniteSet(wins)
  BY <1>1, FS_Subset
<1>3. \A l \in kept : \E i \in wins : steps[i].lead = l
  BY WinOfKept
<1>4. ASSUME NEW i \in wins, deal[steps[i].lead].stage = "won", Live(steps[i].lead)
      PROVE  steps[i].lead \in kept
  <2>1. /\ i \in DOMAIN steps /\ steps[i].to = "won" /\ from <= steps[i].day /\ steps[i].day <= to
        /\ deal[steps[i].lead].owner \in Whose(mine)
    BY DEF StepsTo
  <2>2. steps[i].lead \in Deals
    BY <2>1, DealsAre
  <2>3. WonInWindow(steps[i].lead, from, to)
    BY <2>1 DEF WonInWindow
  <2> QED BY <1>4, <2>1, <2>2, <2>3 DEF StillWon
<1>5. Decided("won", from, to, mine) = Cardinality(wins)
  BY DEF Decided
<1> HIDE DEF wins, kept
<1>6. R \subseteq wins
  OBVIOUS
<1>7. IsFiniteSet(R) /\ Cardinality(R) <= Cardinality(wins)
  BY <1>2, <1>6, FS_Subset
<1>8. m \in Surjection(R, kept)
  BY <1>3 DEF Surjection
<1>9. /\ IsFiniteSet(kept) /\ Cardinality(kept) <= Cardinality(R)
      /\ Cardinality(kept) = Cardinality(R) <=> m \in Injection(R, kept)
  <2> HIDE DEF m, R
  <2> QED BY <1>7, <1>8, FS_Surjection
<1>10. Cardinality(kept) \in Nat /\ Cardinality(R) \in Nat /\ Cardinality(wins) \in Nat
  BY <1>2, <1>7, <1>9, FS_CardinalityType
<1>11. Cardinality(kept) <= Cardinality(wins)
  BY <1>7, <1>9, <1>10
<1>12. ASSUME \A i, k \in wins : steps[i].lead = steps[k].lead => i = k,
              \A i \in wins : deal[steps[i].lead].stage = "won" /\ Live(steps[i].lead)
       PROVE  Cardinality(kept) = Cardinality(wins)
  <2>1. R = wins
    BY <1>4, <1>12
  <2>2. m \in [R -> kept] /\ \A i \in R : m[i] = steps[i].lead
    OBVIOUS
  <2>3. \A i, k \in R : m[i] = m[k] => i = k
    BY <1>12, <2>1, <2>2
  <2> HIDE DEF m, R
  <2>4. m \in Injection(R, kept)
    BY <2>2, <2>3 DEF Injection, IsInjective
  <2> QED BY <1>9, <2>1, <2>4
<1> QED BY <1>5, <1>11, <1>12 DEF wins, kept

\* The first of some steps is one of them.
LEMMA FirstIs == ASSUME NEW S, S \subseteq Nat, S # {} PROVE Min(S) \in S
<1>1. \E x \in S : \A y \in S : x <= y
  BY LeastNumber
<1> QED BY <1>1 DEF Min

\* A deal that was won has a first step, and a first that won it.
LEMMA CycleIsNumber ==
    ASSUME SalesInv, NEW l, NEW from, NEW to, WonInWindow(l, from, to)
    PROVE  CycleOf(l) \in Int
<1> DEFINE first(stages) == {i \in DOMAIN steps : steps[i].lead = l /\ steps[i].to \in stages}
<1>1. PICK i \in DOMAIN steps : steps[i].lead = l /\ steps[i].to = "won"
  BY DEF WonInWindow
<1>2. DOMAIN steps \subseteq Nat /\ \A k \in DOMAIN steps : steps[k].day \in Nat
  BY DealsAre
<1>3. i \in first({"won"}) /\ i \in first(DealStages)
  BY <1>1 DEF DealStages
<1>4. first({"won"}) \subseteq DOMAIN steps /\ first(DealStages) \subseteq DOMAIN steps
  OBVIOUS
<1>5. /\ FirstStep(l, {"won"}) = Min(first({"won"}))
      /\ FirstStep(l, DealStages) = Min(first(DealStages))
  BY DEF FirstStep
<1> HIDE DEF first
<1>6. PICK A, B : A = first({"won"}) /\ B = first(DealStages)
  OBVIOUS
<1>7. Min(A) \in A /\ Min(B) \in B
  BY <1>2, <1>3, <1>4, <1>6, FirstIs
<1>8. FirstStep(l, {"won"}) \in DOMAIN steps /\ FirstStep(l, DealStages) \in DOMAIN steps
  BY <1>4, <1>5, <1>6, <1>7
<1> QED BY <1>2, <1>8 DEF CycleOf

\* Deals that took some time took a day each at least.
LEMMA CyclesTakeDays ==
    ASSUME SalesInv, NEW from, NEW to, NEW mine
    PROVE  SumFunction([l \in Cycles(from, to, mine) |-> CycleOf(l)])
              >= Cardinality(Cycles(from, to, mine))
<1> DEFINE C == Cycles(from, to, mine)
           f == [l \in C |-> CycleOf(l)]
           one == [l \in C |-> 1]
<1>1. C \subseteq Deals /\ IsFiniteSet(Deals)
  BY DealsAre DEF Cycles
<1>2. IsFiniteSet(C)
  BY <1>1, FS_Subset
<1>3. \A l \in C : CycleOf(l) \in Int /\ CycleOf(l) > 0
  BY CycleIsNumber DEF Cycles
<1> HIDE DEF C
<1>4. f \in [C -> Int] /\ one \in [C -> Int] /\ \A l \in C : one[l] = 1 /\ one[l] <= f[l]
  BY <1>3
<1>5. SumFunction(f) \in Int
  <2> HIDE DEF f
  <2> QED BY <1>2, <1>4, SumIsNumber
<1> HIDE DEF f, one
<1>6. SumFunction(one) = 1 * Cardinality(C) /\ Cardinality(C) \in Nat
  BY <1>2, <1>4, SumOfEqual, FS_CardinalityType
<1>7. SumFunction(one) <= SumFunction(f)
  BY <1>2, <1>4, SumGrows
<1>8. SumFunction(f) >= Cardinality(C)
  BY <1>5, <1>6, <1>7
<1> QED BY <1>8 DEF f, C

\* What is valued is counted.
LEMMA ValuedIsCounted == ASSUME SalesInv PROVE ValuedMeansCounted
<1> SUFFICES ASSUME NEW from \in 0 .. LastMove, NEW to \in 0 .. LastMove,
                    NEW mine \in AllOwners \cup {"all"}
             PROVE  LET f    == SalesScope(from, to, mine)
                        wins == StepsTo("won", from, to, mine)
                        kept == StillWon(from, to, mine)
                    IN  /\ Cardinality(kept) <= f.won
                        /\ (\A i, k \in wins : steps[i].lead = steps[k].lead => i = k)
                           /\ (\A i \in wins :
                                  deal[steps[i].lead].stage = "won" /\ Live(steps[i].lead))
                               => Cardinality(kept) = f.won
                        /\ Velocity(f) => f.won > 0 /\ \A c \in f.cycle : c[1] >= c[2]
  BY Zenon DEF ValuedMeansCounted
<1> DEFINE f == SalesScope(from, to, mine)
<1>1. f.won = Decided("won", from, to, mine)
  BY ScopeIs
<1>2. Velocity(f) => f.won > 0
  BY <1>1, ScopeIs DEF Velocity
<1>3. ASSUME NEW c \in f.cycle PROVE c[1] >= c[2]
  <2>1. c = <<SumFunction([l \in Cycles(from, to, mine) |-> CycleOf(l)]),
              Cardinality(Cycles(from, to, mine))>>
    BY ScopeIs
  <2> QED BY <2>1, CyclesTakeDays
<1> HIDE DEF f
<1>4. /\ Cardinality(StillWon(from, to, mine)) <= f.won
      /\ (\A i, k \in StepsTo("won", from, to, mine) : steps[i].lead = steps[k].lead => i = k)
         /\ (\A i \in StepsTo("won", from, to, mine) :
                deal[steps[i].lead].stage = "won" /\ Live(steps[i].lead))
             => Cardinality(StillWon(from, to, mine)) = f.won
  BY <1>1, KeptAreCounted
<1> QED BY <1>2, <1>3, <1>4 DEF f

\* What is sold is counted as it should be.
LEMMA SalesSuffice == SalesInv => SellingTypeOK /\ SalesHold
<1>1. SalesInv => CutsAddUp /\ ValuedMeansCounted
  BY CutsDoAddUp, ValuedIsCounted
<1> QED BY <1>1 DEF SalesInv, SalesHold

-----------------------------------------------------------------------------
(***************************************************************************)
(* The parts together: a step of the office is a step of one of them, and  *)
(* leaves the variables of the others alone.                               *)
(***************************************************************************)
PeopleInv == DayInv /\ LeaveInv /\ ChatInv /\ SharesInv /\ PaidWithinBounds
MoneyInv == ReportsInv /\ TakingsInv /\ ScheduleInv
KpiInv == SalesInv /\ MeasuresTypeOK /\ ListInv

OfficeInv == PeopleInv /\ MoneyInv /\ KpiInv

\* Each part begins as it does alone.
LEMMA OfficeBegins == OfficeInit => OfficeInv
<1> SUFFICES ASSUME OfficeInit PROVE OfficeInv
  OBVIOUS
<1>1. PeopleInv
  BY DayBegins, LeaveBegins, ChatBegins, SharesBegin, PaidBegins DEF OfficeInit, PeopleInv
<1>2. MoneyInv
  BY ReportsBegin, TakingsBegins, ScheduleBegins DEF OfficeInit, MoneyInv
<1>3. KpiInv
  BY SalesBegin, MeasuresBegin, ListBegins DEF OfficeInit, KpiInv
<1> QED BY <1>1, <1>2, <1>3 DEF OfficeInv

\* A step of the office is, of each part, one of its own or none.
LEMMA OfficeParts ==
    ASSUME [OfficeNext]_officeVars
    PROVE  /\ [AttendanceNext]_attendanceVars /\ [LeaveNext]_leaveVars
           /\ [ChatNext]_chatVars /\ [SharesNext]_sharesVars
<1> USE DEF peopleVars, daysVars
<1>1. CASE UNCHANGED officeVars
  BY <1>1 DEF officeVars
<1>2. CASE OfficeNext
  <2>1. CASE UNCHANGED peopleVars
    BY <2>1
  <2>2. CASE PeopleNext
    BY <2>2 DEF PeopleNext
  <2> QED BY <1>2, <2>1, <2>2 DEF OfficeNext
<1> QED BY <1>1, <1>2

\* So it is of the parts the figures come of.
LEMMA FigureParts ==
    ASSUME [OfficeNext]_officeVars
    PROVE  /\ [ReportsNext]_reportVars /\ [TakingsNext]_takingsVars /\ [ScheduleNext]_scheduleVars
           /\ [SellingNext]_sellingVars /\ [MeasuresNext]_measureVars /\ [ListingNext]_listVars
<1>1. CASE UNCHANGED <<moneyVars, kpiVars>>
  BY <1>1 DEF moneyVars, kpiVars
<1>2. CASE MoneyNext /\ UNCHANGED kpiVars
  BY <1>2 DEF MoneyNext, OnAccounts, OnScreen, kpiVars
<1>3. CASE KpiNext /\ UNCHANGED moneyVars
  BY <1>3 DEF KpiNext, moneyVars
<1>4. CASE UNCHANGED officeVars
  BY <1>1, <1>4 DEF officeVars
<1>5. CASE OfficeNext
  BY <1>1, <1>2, <1>3, <1>5 DEF OfficeNext
<1> QED BY <1>4, <1>5

\* What holds of the parts in every reachable state, at once.
THEOREM OfficeInvariant == OfficeSpec => []OfficeInv
<1>1. OfficeInv /\ [OfficeNext]_officeVars => OfficeInv'
  <2> SUFFICES ASSUME OfficeInv, [OfficeNext]_officeVars PROVE OfficeInv'
    OBVIOUS
  <2>1. /\ DayInv /\ LeaveInv /\ ChatInv /\ SharesInv /\ PaidWithinBounds
        /\ ReportsInv /\ TakingsInv /\ ScheduleInv /\ SalesInv /\ MeasuresTypeOK /\ ListInv
    BY DEF OfficeInv, PeopleInv, MoneyInv, KpiInv
  <2>2. /\ [AttendanceNext]_attendanceVars /\ [LeaveNext]_leaveVars
        /\ [ChatNext]_chatVars /\ [SharesNext]_sharesVars
    BY OfficeParts
  <2>3. PeopleInv'
    BY <2>1, <2>2, DayStep, LeaveStep, ChatStep, SharesStep, PaidStep DEF PeopleInv
  <2>4. /\ [ReportsNext]_reportVars /\ [TakingsNext]_takingsVars /\ [ScheduleNext]_scheduleVars
        /\ [SellingNext]_sellingVars /\ [MeasuresNext]_measureVars /\ [ListingNext]_listVars
    BY FigureParts
  <2>5. MoneyInv'
    BY <2>1, <2>4, ReportsStep, TakingsStep, ScheduleStep DEF MoneyInv
  <2>6. KpiInv'
    BY <2>1, <2>4, SalesStep, MeasuresStep, ListStep DEF KpiInv
  <2> QED BY <2>3, <2>5, <2>6 DEF OfficeInv
<1> QED BY <1>1, OfficeBegins, PTL DEF OfficeSpec

\* Every variable of every part keeps its type, what was paid out to an owner among them: a request
\* that looked while there was room for one more may still be about to write.
THEOREM OfficeTypes == OfficeSpec => []OfficeTypeOK
<1>1. OfficeInv => OfficeTypeOK
  <2> SUFFICES ASSUME OfficeInv PROVE OfficeTypeOK
    OBVIOUS
  <2>1. /\ DayInv /\ LeaveInv /\ ChatInv /\ SharesInv /\ PaidWithinBounds
        /\ ReportsInv /\ TakingsInv /\ ScheduleInv /\ SalesInv /\ MeasuresTypeOK /\ ListInv
    BY DEF OfficeInv, PeopleInv, MoneyInv, KpiInv
  <2>2. ChatTypeOK /\ LeaveTypeOK /\ AttendanceTypeOK /\ SharesTypeOK
    BY <2>1, SharesAreTyped DEF ChatInv, LeaveInv, DayInv
  <2>3. ReportsTypeOK /\ TakingsTypeOK /\ ScheduleTypeOK /\ SellingTypeOK /\ ListingTypeOK
    BY <2>1, ReportsSuffice, TakingsSuffices, ScheduleSuffices, SalesSuffice, ListSuffices
  <2> QED BY <2>1, <2>2, <2>3 DEF OfficeTypeOK
<1> QED BY <1>1, OfficeInvariant, PTL

\* Whatever is recorded, whatever the prices, the people, the leads and the terms, the figures agree
\* with the rows they come of and with one another (report.service.ts, dashboard.service.ts,
\* kpi.delivery.ts, kpi.agency.ts, kpi.sales.ts, kpi.formulas.ts, platformFinance.service.ts,
\* loan.schedule.ts, listQuery.ts).
THEOREM FiguresAlwaysAgree == OfficeSpec => []FiguresAgree
<1>1. OfficeInv => FiguresAgree
  <2> SUFFICES ASSUME OfficeInv PROVE FiguresAgree
    OBVIOUS
  <2>1. ReportsInv /\ TakingsInv /\ ScheduleInv /\ SalesInv /\ MeasuresTypeOK /\ ListInv
    BY DEF OfficeInv, MoneyInv, KpiInv
  <2>2. BooksAgree /\ TakingsHold /\ ScheduleHolds
    BY <2>1, ReportsSuffice, TakingsSuffices, ScheduleSuffices
  <2>3. SalesHold /\ MeasuresHold /\ PagesMissNothingUnlessShaken
    BY <2>1, SalesSuffice, MeasuresSuffice, ListSuffices
  <2> QED BY <2>2, <2>3 DEF FiguresAgree
<1> QED BY <1>1, OfficeInvariant, PTL

\* However many ask to be away, decide and tap (leave.service.ts, attendance.service.ts), no day
\* counts twice, what was decided stands and nobody left before they came, unless a request was
\* overtaken or an admin wrote ahead of time.
THEOREM DaysHold == OfficeSpec => []DaysHoldUnlessRaced
<1>1. OfficeInv => DaysHoldUnlessRaced
  BY DaySuffices, LeaveSuffices DEF OfficeInv, PeopleInv, DaysHoldUnlessRaced
<1> QED BY <1>1, OfficeInvariant, PTL

\* Of any number of threads each pair has one, which nobody else is in, and a message stays unread
\* until it is read, unless it was stored after a read that came after its stamp
\* (chat.service.ts, chatMessage.service.ts).
THEOREM ThreadsHold == OfficeSpec => []ThreadsHoldUnlessLate
<1>1. OfficeInv => ThreadsHoldUnlessLate
  BY DEF OfficeInv, PeopleInv, ChatInv, ThreadsInv, ThreadsHoldUnlessLate
<1> QED BY <1>1, OfficeInvariant, PTL

\* However many hold whatever shares (shareholder.service.ts), those whose row was last written
\* with the check and without being overtaken hold the whole at most together, and whoever of them
\* was paid stays on file.
THEOREM OwnedOnceHolds == OfficeSpec => []OwnedOnceUnlessUnchecked
<1>1. OfficeInv => OwnedOnceUnlessUnchecked
  BY SharesSuffice DEF OfficeInv, PeopleInv
<1> QED BY <1>1, OfficeInvariant, PTL


-----------------------------------------------------------------------------
(***************************************************************************)
(* Payroll: what a completed run says is what was paid, and a month is     *)
(* paid once, unless its run was paid while somebody discarded it.         *)
(***************************************************************************)

\* Payouts are made of completed runs alone, and match them; they are left
\* behind by a discarded run only when its month was raced.
RowsInv ==
    \A r \in Runs :
        /\ run[r].state \in {"none", "draft"} => payouts[r] = Nothing
        /\ run[r].state = "completed" => payouts[r] = net[r]
        /\ run[r].state = "discarded" /\ run[r].month \notin raced => payouts[r] = Nothing
        /\ run[r].state # "none" => run[r].month \in Months

\* A month has one run at a time.
OneStanding ==
    \A r, s \in Runs : Standing(r) /\ Standing(s) /\ run[r].month = run[s].month => r = s

\* What a request has seen of its run and still finds so.
ReqInv(x) ==
    /\ x.op = "none" => x.pc = "idle" /\ x.run = NoRun
    /\ x.op = "create" =>
          /\ x.month \in Months
          /\ \/ x.pc = "insert" /\ x.run = NoRun
             \/ /\ x.pc = "commit" /\ x.run \in Runs /\ run[x.run].state = "none"
                /\ \A r \in Runs : Standing(r) => run[r].month # x.month
    /\ x.op \in {"set", "complete", "remove"} =>
          /\ x.run \in Runs /\ run[x.run].state # "none" /\ x.month = run[x.run].month
    /\ x.op \in {"set", "complete"} =>
          /\ x.pc \in {"lock", "check", "commit"}
          /\ x.pc = "commit" => Draft(x.run)
    /\ x.op = "complete" /\ x.pc = "commit" => x.wages = net[x.run]
    /\ x.op = "remove" =>
          /\ x.pc \in {"delete", "commit"}
          /\ run[x.run].state = "completed" => x.stale

\* The row of r is locked by a request in this state.
Holds(x, r) ==
    /\ x.run = r
    /\ \/ x.op \in {"set", "complete"} /\ x.pc \in {"check", "commit"}
       \/ x.op = "remove" /\ x.pc = "commit"

\* No two requests hold one run, or open a run for one month or under one id.
Apart(x, y) ==
    /\ \A r \in Runs : ~(Holds(x, r) /\ Holds(y, r))
    /\ x.op = "create" /\ y.op = "create" /\ x.pc = "commit" /\ y.pc = "commit"
          => x.run # y.run /\ x.month # y.month

RunsInv ==
    /\ TypeOK /\ RowsInv /\ OneStanding
    /\ \A p \in Requests : ReqInv(req[p])
    /\ \A p, q \in Requests : p # q => Apart(req[p], req[q])

USE PayrollAssumption

-----------------------------------------------------------------------------
(* Requests by themselves.                                                 *)

\* An idle request is one, has seen nothing and holds nothing.
LEMMA IdleFacts ==
    /\ Idle \in Request /\ ReqInv(Idle) /\ ReqInv(Idle)'
    /\ \A x : Apart(Idle, x) /\ Apart(x, Idle)
  BY DEF Idle, Request, PCs, Ops, Wages, Nothing, ReqInv, Apart, Holds

\* What HoldsRun says of the state, Holds says of the request.
LEMMA HoldsSame == \A p \in Requests, r \in Runs : HoldsRun(p, r) <=> Holds(req[p], r)
  BY DEF HoldsRun, Holds

\* Before any request the invariant holds.
LEMMA InitRunsInv == Init => RunsInv
<1> SUFFICES ASSUME Init PROVE RunsInv
  OBVIOUS
<1>1. TypeOK
  BY IdleFacts DEF Init, TypeOK, RunRow, NoSuchRun, Wages, Nothing
<1>2. RowsInv /\ OneStanding
  BY DEF Init, RowsInv, OneStanding, Standing, NoSuchRun
<1>3. \A p \in Requests : req[p] = Idle
  BY DEF Init
<1> QED
  BY <1>1, <1>2, <1>3, IdleFacts DEF RunsInv

\* A step that only changes what one request is doing keeps the invariant if
\* its new state has seen what is so, and is apart from every other request.
LEMMA LocalStep ==
    ASSUME RunsInv, NEW p \in Requests, NEW x \in Request,
           req' = [req EXCEPT ![p] = x], RowsStay, ReqInv(x),
           \A q \in Requests \ {p} : Apart(x, req[q]) /\ Apart(req[q], x)
    PROVE  RunsInv'
<1>1. /\ req' \in [Requests -> Request] /\ req'[p] = x
      /\ \A q \in Requests \ {p} : req'[q] = req[q]
  BY DEF RunsInv, TypeOK
<1>2. TypeOK' /\ RowsInv' /\ OneStanding'
  BY <1>1 DEF RunsInv, TypeOK, RowsInv, OneStanding, Standing, RowsStay
<1>3. \A y : ReqInv(y)' <=> ReqInv(y)
  BY DEF ReqInv, Standing, Draft, RowsStay
<1>4. \A q \in Requests : ReqInv(req[q])'
  BY <1>1, <1>3 DEF RunsInv, ReqInv, Draft, Standing, RowsStay
<1>5. \A q, s \in Requests : q # s => Apart(req'[q], req'[s])
  BY <1>1 DEF RunsInv
<1>6. (\A q, s \in Requests : q # s => Apart(req[q], req[s]))'
  BY <1>5 DEF Apart, Holds
<1> QED
  BY <1>2, <1>4, <1>6 DEF RunsInv

\* A request that ends keeps it.
LEMMA EndRunsInv ==
    ASSUME RunsInv, NEW p \in Requests, End(p), RowsStay
    PROVE  RunsInv'
  BY LocalStep, IdleFacts DEF End

-----------------------------------------------------------------------------
(* Beginning a request, and the statements before its commit.              *)

\* The first reads of a request keep the invariant.
LEMMA StartRunsInv ==
    ASSUME RunsInv, NEW p \in Requests,
           CreateRun(p) \/ SetItems(p) \/ Complete(p) \/ RemoveRun(p)
    PROVE  RunsInv'
<1> DEFINE Sound(x) == /\ x \in Request /\ ReqInv(x)
                      /\ x.pc \in {"insert", "lock", "delete"}
<1>1. ASSUME NEW x, Sound(x), Begin(p, x)
      PROVE  RunsInv'
  <2>1. \A y : Apart(x, y) /\ Apart(y, x)
    BY <1>1 DEF Apart, Holds
  <2> QED
    BY <1>1, <2>1, LocalStep DEF Begin
<1>2. Nothing \in Wages
  BY DEF Nothing, Wages
<1>3. \A r \in Runs : Standing(r) => run[r].state # "none" /\ run[r].month \in Months \cup {NoMonth}
  BY DEF RunsInv, TypeOK, RunRow, Standing
<1>4. CASE CreateRun(p)
  <2>1. PICK m \in Months :
            Begin(p, [Idle EXCEPT !.pc = "insert", !.op = "create", !.month = m])
    BY <1>4 DEF CreateRun
  <2>2. Sound([Idle EXCEPT !.pc = "insert", !.op = "create", !.month = m])
    BY <1>2 DEF Idle, Request, PCs, Ops, ReqInv
  <2> QED
    BY <2>1, <2>2, <1>1
<1>5. CASE SetItems(p)
  <2>1. PICK r \in Runs, named \in SUBSET Members, wages \in [Members -> Nets] :
            /\ Standing(r)
            /\ Begin(p, [Idle EXCEPT !.pc = "lock", !.op = "set", !.run = r,
                                     !.month = run[r].month, !.named = named, !.wages = wages])
    BY <1>5 DEF SetItems
  <2>2. wages \in Wages
    BY DEF Wages, PayrollAssumption
  <2>3. Sound([Idle EXCEPT !.pc = "lock", !.op = "set", !.run = r,
                          !.month = run[r].month, !.named = named, !.wages = wages])
    BY <1>3, <2>1, <2>2 DEF Idle, Request, PCs, Ops, ReqInv
  <2> QED
    BY <2>1, <2>3, <1>1
<1>6. CASE Complete(p)
  <2>1. PICK r \in Runs :
            /\ Standing(r)
            /\ Begin(p, [Idle EXCEPT !.pc = "lock", !.op = "complete", !.run = r,
                                     !.month = run[r].month])
    BY <1>6 DEF Complete
  <2>2. Sound([Idle EXCEPT !.pc = "lock", !.op = "complete", !.run = r, !.month = run[r].month])
    BY <1>2, <1>3, <2>1 DEF Idle, Request, PCs, Ops, ReqInv
  <2> QED
    BY <2>1, <2>2, <1>1
<1>7. CASE RemoveRun(p)
  <2>1. PICK r \in Runs :
            /\ Draft(r)
            /\ Begin(p, [Idle EXCEPT !.pc = "delete", !.op = "remove", !.run = r,
                                     !.month = run[r].month])
    BY <1>7 DEF RemoveRun, Removable
  <2>2. Sound([Idle EXCEPT !.pc = "delete", !.op = "remove", !.run = r, !.month = run[r].month])
    BY <1>2, <1>3, <2>1 DEF Idle, Request, PCs, Ops, ReqInv, Draft, Standing
  <2> QED
    BY <2>1, <2>2, <1>1
<1> QED
  BY <1>4, <1>5, <1>6, <1>7

\* A run is inserted under an id nobody has, for a month that has no run.
LEMMA InsertRunsInv ==
    ASSUME RunsInv, NEW p \in Requests, InsertRun(p)
    PROVE  RunsInv'
<1>1. req[p].pc = "insert" /\ req[p] \in Request /\ ReqInv(req[p]) /\ RowsStay
  BY DEF InsertRun, RunsInv, TypeOK
<1>2. req[p].op = "create" /\ req[p].month \in Months
  BY <1>1 DEF ReqInv, Request, Ops
<1>3. CASE End(p)
  BY <1>1, <1>3, EndRunsInv
<1>4. CASE ~End(p)
  <2>1. PICK r \in Runs : /\ Unused(r) /\ RunOf(req[p].month) = {}
                          /\ req' = [req EXCEPT ![p].pc = "commit", ![p].run = r]
    BY <1>4 DEF InsertRun
  <2> DEFINE x == [req[p] EXCEPT !.pc = "commit", !.run = r]
  <2>2. x \in Request /\ x.op = "create" /\ x.pc = "commit" /\ x.run = r
        /\ x.month = req[p].month
    BY <1>1, <1>2 DEF Request, PCs
  <2>3. req' = [req EXCEPT ![p] = x]
    BY <2>1 DEF RunsInv, TypeOK
  <2>4. ReqInv(x)
    BY <1>2, <2>1, <2>2 DEF ReqInv, Unused, RunOf
  <2>5. ASSUME NEW q \in Requests \ {p}
        PROVE  Apart(x, req[q]) /\ Apart(req[q], x)
    <3>1. req[q].op = "create" /\ req[q].pc = "commit" => req[q].month # x.month
      BY <1>4, <2>2 DEF InsertRun
    <3>2. req[q].run # r
      BY <2>1 DEF Unused
    <3> QED
      BY <2>2, <3>1, <3>2 DEF Apart, Holds
  <2> HIDE DEF x
  <2> QED
    BY <1>1, <2>2, <2>3, <2>4, <2>5, LocalStep
<1> QED
  BY <1>3, <1>4

\* Locking a run, looking whether it is a draft, and deleting it keep the
\* invariant.
LEMMA StatementRunsInv ==
    ASSUME RunsInv, NEW p \in Requests, LockRun(p) \/ CheckDraft(p) \/ DeleteRun(p)
    PROVE  RunsInv'
<1>1. /\ req[p] \in Request /\ ReqInv(req[p]) /\ RowsStay
      /\ \A q \in Requests \ {p} : Apart(req[p], req[q]) /\ Apart(req[q], req[p])
  BY DEF LockRun, CheckDraft, DeleteRun, RunsInv, TypeOK
<1>2. req[p].pc \in {"lock", "check", "delete"}
  BY DEF LockRun, CheckDraft, DeleteRun
<1>3. req[p].op \in {"set", "complete", "remove"} /\ req[p].run \in Runs
  BY <1>1, <1>2 DEF ReqInv, Request, Ops
<1>4. CASE End(p)
  BY <1>1, <1>4, EndRunsInv
<1>5. CASE ~End(p) /\ LockRun(p)
  <2> DEFINE x == [req[p] EXCEPT !.pc = "check"]
  <2>1. req' = [req EXCEPT ![p] = x] /\ x \in Request /\ req[p].pc = "lock"
    BY <1>1, <1>5 DEF LockRun, Goto, RunsInv, TypeOK, Request, PCs
  <2>2. x.op = req[p].op /\ x.run = req[p].run /\ x.month = req[p].month /\ x.pc = "check"
    BY <1>1 DEF Request
  <2>3. x.op \in {"set", "complete"} /\ ReqInv(x)
    BY <1>1, <1>3, <2>1, <2>2 DEF ReqInv
  <2>4. \A q \in Requests \ {p} : ~Holds(req[q], x.run)
    BY <1>3, <1>5, <2>2, HoldsSame DEF LockRun, Free
  <2>5. \A q \in Requests \ {p} : Apart(x, req[q]) /\ Apart(req[q], x)
    BY <2>2, <2>3, <2>4 DEF Apart, Holds
  <2> HIDE DEF x
  <2> QED
    BY <1>1, <2>1, <2>3, <2>5, LocalStep
<1>6. CASE ~End(p) /\ DeleteRun(p)
  <2> DEFINE x == [req[p] EXCEPT !.pc = "commit"]
  <2>1. req' = [req EXCEPT ![p] = x] /\ x \in Request /\ req[p].pc = "delete"
    BY <1>1, <1>6 DEF DeleteRun, Goto, RunsInv, TypeOK, Request, PCs
  <2>2. x.op = req[p].op /\ x.run = req[p].run /\ x.month = req[p].month /\ x.pc = "commit"
        /\ x.stale = req[p].stale
    BY <1>1 DEF Request
  <2>3. x.op = "remove" /\ ReqInv(x)
    BY <1>1, <1>3, <2>1, <2>2 DEF ReqInv
  <2>4. \A q \in Requests \ {p} : ~Holds(req[q], x.run)
    BY <1>3, <1>6, <2>2, HoldsSame DEF DeleteRun, Free
  <2>5. \A q \in Requests \ {p} : Apart(x, req[q]) /\ Apart(req[q], x)
    BY <2>2, <2>3, <2>4 DEF Apart, Holds
  <2> HIDE DEF x
  <2> QED
    BY <1>1, <2>1, <2>3, <2>5, LocalStep
<1>7. CASE ~End(p) /\ CheckDraft(p)
  <2> DEFINE r == req[p].run
             w == IF req[p].op = "complete" THEN net[r] ELSE NewLines(p)
             x == [req[p] EXCEPT !.pc = "commit", !.wages = w]
  <2>1. req[p].pc = "check" /\ Draft(r)
    BY <1>7 DEF CheckDraft
  <2>2. w \in Wages
    BY <1>1, <1>3 DEF RunsInv, TypeOK, Request, Wages, NewLines
  <2>3. req' = [req EXCEPT ![p] = x]
    BY <1>7 DEF CheckDraft, RunsInv, TypeOK
  <2> HIDE DEF w
  <2>4. x \in Request /\ x.op = req[p].op /\ x.run = r /\ x.month = req[p].month
        /\ x.pc = "commit" /\ x.wages = w
    BY <1>1, <2>2 DEF Request, PCs
  <2>5. x.op \in {"set", "complete"} /\ (x.op = "complete" => w = net[r])
    BY <1>1, <1>3, <2>1, <2>4 DEF ReqInv, w
  <2>6. ReqInv(x)
    BY <1>1, <1>3, <2>1, <2>4, <2>5 DEF ReqInv
  <2>7. \A q \in Requests \ {p} : Apart(x, req[q]) /\ Apart(req[q], x)
    BY <1>1, <2>1, <2>4, <2>5 DEF Apart, Holds
  <2> HIDE DEF x
  <2> QED
    BY <1>1, <2>3, <2>4, <2>6, <2>7, LocalStep
<1> QED
  BY <1>4, <1>5, <1>6, <1>7

-----------------------------------------------------------------------------
(* Commits.                                                                *)

\* A commit ends its request and leaves the others as they were, but for being
\* told that they are behind; who was apart stays apart.
LEMMA Overtaken ==
    ASSUME RunsInv, NEW p \in Requests, EndAndOvertake(p)
    PROVE  /\ req' \in [Requests -> Request] /\ req'[p] = Idle
           /\ \A q \in Requests \ {p} :
                 /\ req'[q].pc = req[q].pc /\ req'[q].op = req[q].op
                 /\ req'[q].run = req[q].run /\ req'[q].month = req[q].month
                 /\ req'[q].wages = req[q].wages
                 /\ req[q].stale => req'[q].stale
                 /\ req[p].op = "complete" /\ req[q].op = "remove" /\ req[q].run = req[p].run
                       => req'[q].stale
           /\ (\A q, s \in Requests : q # s => Apart(req[q], req[s]))'
<1>1. req' \in [Requests -> Request] /\ req'[p] = Idle
  BY IdleFacts DEF EndAndOvertake, RunsInv, TypeOK, Request
<1>2. ASSUME NEW q \in Requests \ {p}
      PROVE  req'[q] = req[q] \/ req'[q] = [req[q] EXCEPT !.stale = TRUE]
  BY DEF EndAndOvertake
<1>3. ASSUME NEW q \in Requests \ {p}
      PROVE  /\ req'[q].pc = req[q].pc /\ req'[q].op = req[q].op
             /\ req'[q].run = req[q].run /\ req'[q].month = req[q].month
             /\ req'[q].wages = req[q].wages
             /\ req[q].stale => req'[q].stale
  <2>1. req[q] \in Request
    BY DEF RunsInv, TypeOK
  <2> QED
    BY <2>1, <1>2 DEF Request
<1>4. ASSUME NEW q \in Requests \ {p},
             req[p].op = "complete" /\ req[q].op = "remove" /\ req[q].run = req[p].run
      PROVE  req'[q].stale
  <2>1. req'[q] = [req[q] EXCEPT !.stale = TRUE] /\ req[q] \in Request
    BY <1>4 DEF EndAndOvertake, RunsInv, TypeOK
  <2> QED
    BY <2>1 DEF Request
<1>5. ASSUME NEW q \in Requests, NEW s \in Requests, q # s
      PROVE  Apart(req'[q], req'[s])
  <2>1. CASE q = p \/ s = p
    BY <2>1, <1>1, IdleFacts
  <2>2. CASE q # p /\ s # p
    BY <2>2, <1>3, <1>5 DEF RunsInv, Apart, Holds
  <2> QED
    BY <2>1, <2>2
<1>6. (\A q, s \in Requests : q # s => Apart(req[q], req[s]))'
  BY <1>5 DEF Apart, Holds
<1> QED
  BY <1>1, <1>3, <1>4, <1>6

\* Opening a run keeps the invariant.
LEMMA CommitCreateRunsInv ==
    ASSUME RunsInv, NEW p \in Requests, CommitCreate(p)
    PROVE  RunsInv'
<1> DEFINE r == req[p].run
           m == req[p].month
<1>1. /\ r \in Runs /\ m \in Months /\ run[r].state = "none"
      /\ \A s \in Runs : Standing(s) => run[s].month # m
      /\ req[p].op = "create" /\ req[p].pc = "commit" /\ EndAndOvertake(p)
  BY DEF CommitCreate, Commit, RunsInv, ReqInv
<1>2. /\ run' = [run EXCEPT ![r] = [state |-> "draft", month |-> m]]
      /\ UNCHANGED <<net, payouts, raced>>
  BY DEF CommitCreate
<1> HIDE DEF r, m
<1>3. /\ run' \in [Runs -> RunRow] /\ run'[r] = [state |-> "draft", month |-> m]
      /\ \A s \in Runs \ {r} : run'[s] = run[s]
  BY <1>1, <1>2 DEF RunsInv, TypeOK, RunRow
<1>4. TypeOK'
  BY <1>1, <1>2, <1>3, Overtaken DEF RunsInv, TypeOK
<1>5. RowsInv'
  BY <1>1, <1>2, <1>3 DEF RunsInv, RowsInv
<1>6. OneStanding'
  <2>1. \A s \in Runs \ {r} : Standing(s)' <=> Standing(s)
    BY <1>3 DEF Standing
  <2> QED
    BY <1>1, <1>3, <2>1 DEF RunsInv, OneStanding, Standing
<1>7. ASSUME NEW q \in Requests PROVE ReqInv(req[q])'
  <2>1. CASE q = p
    BY <2>1, <1>1, Overtaken, IdleFacts DEF ReqInv, Idle
  <2>2. CASE q # p
    <3>1. ReqInv(req[q]) /\ Apart(req[p], req[q]) /\ req[q] \in Request
      BY <2>2 DEF RunsInv, TypeOK
    <3>2. req[q].op = "create" /\ req[q].pc = "commit" => req[q].run # r /\ req[q].month # m
      BY <3>1, <1>1 DEF Apart, r, m
    <3>3. req[q].op \in {"set", "complete", "remove"} => req[q].run \in Runs \ {r}
      BY <3>1, <1>1 DEF ReqInv
    <3>4. /\ req'[q].pc = req[q].pc /\ req'[q].op = req[q].op
          /\ req'[q].run = req[q].run /\ req'[q].month = req[q].month
          /\ req'[q].wages = req[q].wages /\ (req[q].stale => req'[q].stale)
      BY <2>2, <1>1, Overtaken
    <3> QED
      BY <1>2, <1>3, <3>1, <3>2, <3>3, <3>4 DEF ReqInv, Standing, Draft
  <2> QED
    BY <2>1, <2>2
<1> QED
  BY <1>1, <1>4, <1>5, <1>6, <1>7, Overtaken DEF RunsInv

\* Setting the lines of a draft keeps it: nobody else holds the run, so nobody
\* is about to pay other lines.
LEMMA CommitSetRunsInv ==
    ASSUME RunsInv, NEW p \in Requests, CommitSet(p)
    PROVE  RunsInv'
<1> DEFINE r == req[p].run
<1>1. /\ r \in Runs /\ run[r].state = "draft" /\ req[p].wages \in Wages
      /\ req[p].op = "set" /\ req[p].pc = "commit" /\ EndAndOvertake(p)
  BY DEF CommitSet, Commit, RunsInv, ReqInv, Draft, TypeOK, Request
<1>2. net' = [net EXCEPT ![r] = req[p].wages] /\ UNCHANGED <<run, payouts, raced>>
  BY DEF CommitSet
<1>3. Holds(req[p], r)
  BY <1>1 DEF Holds
<1> HIDE DEF r
<1>4. TypeOK'
  BY <1>1, <1>2, Overtaken DEF RunsInv, TypeOK
<1>5. RowsInv' /\ OneStanding'
  BY <1>1, <1>2 DEF RunsInv, TypeOK, RowsInv, OneStanding, Standing
<1>6. ASSUME NEW q \in Requests PROVE ReqInv(req[q])'
  <2>1. CASE q = p
    BY <2>1, <1>1, Overtaken, IdleFacts DEF ReqInv, Idle
  <2>2. CASE q # p
    <3>1. ReqInv(req[q]) /\ Apart(req[p], req[q]) /\ req[q] \in Request
      BY <2>2 DEF RunsInv, TypeOK
    <3>2. req[q].op = "complete" /\ req[q].pc = "commit" => req[q].run # r
      BY <3>1, <1>1, <1>3 DEF Apart, Holds
    <3>3. /\ req'[q].pc = req[q].pc /\ req'[q].op = req[q].op
          /\ req'[q].run = req[q].run /\ req'[q].month = req[q].month
          /\ req'[q].wages = req[q].wages /\ (req[q].stale => req'[q].stale)
      BY <2>2, <1>1, Overtaken
    <3> QED
      BY <1>1, <1>2, <3>1, <3>2, <3>3 DEF ReqInv, Standing, Draft, RunsInv, TypeOK
  <2> QED
    BY <2>1, <2>2
<1> QED
  BY <1>1, <1>4, <1>5, <1>6, Overtaken DEF RunsInv

\* Paying keeps it: a draft has no payouts and its lines are the ones that were
\* read, and whoever is discarding it is behind now.
LEMMA CommitCompleteRunsInv ==
    ASSUME RunsInv, NEW p \in Requests, CommitComplete(p)
    PROVE  RunsInv'
<1> DEFINE r == req[p].run
<1>1. /\ r \in Runs /\ run[r].state = "draft" /\ req[p].wages = net[r]
      /\ req[p].op = "complete" /\ req[p].pc = "commit" /\ EndAndOvertake(p)
  BY DEF CommitComplete, Commit, RunsInv, ReqInv, Draft
<1>2. /\ run' = [run EXCEPT ![r].state = "completed"]
      /\ payouts' = [payouts EXCEPT ![r] = [u \in Members |-> payouts[r][u] + req[p].wages[u]]]
      /\ UNCHANGED <<net, raced>>
  BY DEF CommitComplete
<1>3. Holds(req[p], r)
  BY <1>1 DEF Holds
<1>4. payouts' = [payouts EXCEPT ![r] = net[r]]
  <2>1. payouts[r] = Nothing /\ net[r] \in Wages
    BY <1>1 DEF RunsInv, RowsInv, TypeOK
  <2>2. [u \in Members |-> payouts[r][u] + req[p].wages[u]] = net[r]
    BY <2>1, <1>1 DEF Nothing, Wages
  <2> QED
    BY <1>2, <2>2
<1> HIDE DEF r
<1>5. /\ run' \in [Runs -> RunRow] /\ run'[r].state = "completed" /\ run'[r].month = run[r].month
      /\ \A s \in Runs \ {r} : run'[s] = run[s]
  BY <1>1, <1>2 DEF RunsInv, TypeOK, RunRow
<1>6. TypeOK'
  BY <1>1, <1>2, <1>4, <1>5, Overtaken DEF RunsInv, TypeOK
<1>7. RowsInv'
  BY <1>1, <1>2, <1>4, <1>5 DEF RunsInv, TypeOK, RowsInv
<1>8. OneStanding'
  BY <1>1, <1>5 DEF RunsInv, OneStanding, Standing
<1>9. ASSUME NEW q \in Requests PROVE ReqInv(req[q])'
  <2>1. CASE q = p
    BY <2>1, <1>1, Overtaken, IdleFacts DEF ReqInv, Idle
  <2>2. CASE q # p
    <3>1. ReqInv(req[q]) /\ Apart(req[p], req[q]) /\ req[q] \in Request
      BY <2>2 DEF RunsInv, TypeOK
    <3>2. req[q].op \in {"set", "complete"} /\ req[q].pc = "commit" => req[q].run # r
      BY <3>1, <1>1, <1>3 DEF Apart, Holds
    <3>3. /\ req'[q].pc = req[q].pc /\ req'[q].op = req[q].op
          /\ req'[q].run = req[q].run /\ req'[q].month = req[q].month
          /\ req'[q].wages = req[q].wages /\ (req[q].stale => req'[q].stale)
      BY <2>2, <1>1, Overtaken
    <3>4. req[q].op = "remove" /\ req[q].run = r => req'[q].stale
      BY <2>2, <1>1, Overtaken DEF r
    <3>5. \A s \in Runs : (run'[s].state = "none" <=> run[s].state = "none")
                          /\ (Standing(s)' <=> Standing(s)) /\ run'[s].month = run[s].month
      BY <1>1, <1>5 DEF Standing
    <3> QED
      BY <1>1, <1>2, <1>5, <3>1, <3>2, <3>3, <3>4, <3>5 DEF ReqInv, Draft
  <2> QED
    BY <2>1, <2>2
<1> QED
  BY <1>1, <1>6, <1>7, <1>8, <1>9, Overtaken DEF RunsInv

\* Discarding keeps it: a run that was paid meanwhile leaves its month raced.
LEMMA CommitRemoveRunsInv ==
    ASSUME RunsInv, NEW p \in Requests, CommitRemove(p)
    PROVE  RunsInv'
<1> DEFINE r == req[p].run
<1>1. /\ r \in Runs /\ run[r].state # "none" /\ req[p].month = run[r].month
      /\ run[r].state = "completed" => req[p].stale
      /\ req[p].op = "remove" /\ req[p].pc = "commit" /\ EndAndOvertake(p)
      /\ req[p].month \in Months \cup {NoMonth}
  BY DEF CommitRemove, Commit, RunsInv, ReqInv, TypeOK, Request
<1>2. /\ run' = [run EXCEPT ![r].state = "discarded"]
      /\ net' = [net EXCEPT ![r] = Nothing]
      /\ raced' = IF req[p].stale THEN raced \cup {run[r].month} ELSE raced
      /\ UNCHANGED payouts
  BY <1>1 DEF CommitRemove
<1>3. Holds(req[p], r)
  BY <1>1 DEF Holds
<1> HIDE DEF r
<1>4. /\ run' \in [Runs -> RunRow] /\ run'[r].state = "discarded" /\ run'[r].month = run[r].month
      /\ \A s \in Runs \ {r} : run'[s] = run[s]
  BY <1>1, <1>2 DEF RunsInv, TypeOK, RunRow
<1>5. TypeOK'
  <2>1. Nothing \in Wages
    BY DEF Nothing, Wages
  <2>2. net' \in [Runs -> Wages]
    BY <1>1, <1>2, <2>1 DEF RunsInv, TypeOK
  <2>3. raced' \subseteq Months
    BY <1>1, <1>2 DEF RunsInv, TypeOK, RowsInv
  <2> QED
    BY <1>1, <1>2, <1>4, <2>2, <2>3, Overtaken DEF RunsInv, TypeOK
<1>6. RowsInv'
  <2>1. /\ run[r].state \in {"draft", "completed", "discarded"}
        /\ raced \subseteq raced' /\ req[p].stale => run[r].month \in raced'
    BY <1>1, <1>2 DEF RunsInv, TypeOK, RunRow
  <2>2. run'[r].month \notin raced' => payouts'[r] = Nothing
    BY <1>1, <1>2, <1>4, <2>1 DEF RunsInv, RowsInv
  <2>3. run'[r].month \in Months
    BY <1>1, <1>4 DEF RunsInv, RowsInv
  <2>4. ASSUME NEW s \in Runs \ {r}
        PROVE  /\ run'[s].state \in {"none", "draft"} => payouts'[s] = Nothing
               /\ run'[s].state = "completed" => payouts'[s] = net'[s]
               /\ run'[s].state = "discarded" /\ run'[s].month \notin raced' =>
                     payouts'[s] = Nothing
               /\ run'[s].state # "none" => run'[s].month \in Months
    BY <1>2, <1>4, <2>1 DEF RunsInv, RowsInv, TypeOK
  <2> QED
    BY <1>4, <2>2, <2>3, <2>4 DEF RowsInv
<1>7. OneStanding'
  BY <1>1, <1>4 DEF RunsInv, OneStanding, Standing
<1>8. ASSUME NEW q \in Requests PROVE ReqInv(req[q])'
  <2>1. CASE q = p
    BY <2>1, <1>1, Overtaken, IdleFacts DEF ReqInv, Idle
  <2>2. CASE q # p
    <3>1. ReqInv(req[q]) /\ Apart(req[p], req[q]) /\ req[q] \in Request
      BY <2>2 DEF RunsInv, TypeOK
    <3>2. req[q].op \in {"set", "complete"} /\ req[q].pc = "commit" => req[q].run # r
      BY <3>1, <1>1, <1>3 DEF Apart, Holds
    <3>3. /\ req'[q].pc = req[q].pc /\ req'[q].op = req[q].op
          /\ req'[q].run = req[q].run /\ req'[q].month = req[q].month
          /\ req'[q].wages = req[q].wages /\ (req[q].stale => req'[q].stale)
      BY <2>2, <1>1, Overtaken
    <3>4. \A s \in Runs : (run'[s].state = "none" <=> run[s].state = "none")
                          /\ (Standing(s)' => Standing(s)) /\ run'[s].month = run[s].month
      BY <1>1, <1>4 DEF Standing
    <3>5. \A s \in Runs \ {r} : (Draft(s)' <=> Draft(s)) /\ net'[s] = net[s]
      BY <1>2, <1>4 DEF Draft, RunsInv, TypeOK
    <3>6. req'[q].op = "remove" /\ run'[req'[q].run].state = "completed" => req'[q].stale
      BY <3>1, <3>3, <1>4 DEF ReqInv
    <3> QED
      BY <3>1, <3>2, <3>3, <3>4, <3>5, <3>6 DEF ReqInv
  <2> QED
    BY <2>1, <2>2
<1> QED
  BY <1>1, <1>5, <1>6, <1>7, <1>8, Overtaken DEF RunsInv

-----------------------------------------------------------------------------
(* The theorems.                                                           *)

\* Every step keeps the invariant.
LEMMA NextRunsInv == RunsInv /\ [Next]_vars => RunsInv'
<1> SUFFICES ASSUME RunsInv, [Next]_vars PROVE RunsInv'
  OBVIOUS
<1>1. CASE UNCHANGED vars
  BY <1>1 DEF vars, RunsInv, TypeOK, RowsInv, OneStanding, Standing, ReqInv, Draft, Apart, Holds
<1>2. ASSUME NEW p \in Requests, Rollback(p) PROVE RunsInv'
  BY <1>2, EndRunsInv DEF Rollback
<1> QED
  BY <1>1, <1>2, StartRunsInv, InsertRunsInv, StatementRunsInv, CommitCreateRunsInv,
     CommitSetRunsInv, CommitCompleteRunsInv, CommitRemoveRunsInv DEF Next

\* The inductive invariant holds of every behaviour.
THEOREM PayrollInvariant == Spec => []RunsInv
  BY InitRunsInv, NextRunsInv, PTL DEF Spec

\* Every variable keeps its shape.
THEOREM PayrollTypes == Spec => []TypeOK
<1>1. RunsInv => TypeOK
  BY DEF RunsInv
<1> QED
  BY <1>1, PayrollInvariant, PTL

\* What a completed run says is what people were paid, however runs are set,
\* paid and discarded at once.
THEOREM PayoutsAlwaysMatch == Spec => []PayoutsMatchRun
<1>1. RunsInv => PayoutsMatchRun
  BY DEF RunsInv, RowsInv, PayoutsMatchRun
<1> QED
  BY <1>1, PayrollInvariant, PTL

\* Two runs that paid for one month, if it was not raced, are one.
LEMMA PaidByOne ==
    ASSUME RunsInv, NEW m \in Months \ raced, NEW r \in PaidBy(m), NEW s \in PaidBy(m)
    PROVE  r = s
<1>1. ASSUME NEW x \in PaidBy(m) PROVE Standing(x) /\ run[x].month = m /\ x \in Runs
  <2>1. x \in Runs /\ run[x].month = m /\ payouts[x] # Nothing
    BY DEF PaidBy
  <2>2. run[x].state \in {"none", "draft", "completed", "discarded"}
    BY <2>1 DEF RunsInv, TypeOK, RunRow
  <2> QED
    BY <2>1, <2>2 DEF RunsInv, RowsInv, Standing
<1> QED
  BY <1>1 DEF RunsInv, OneStanding

\* A month is paid once, unless its run was paid while it was being discarded.
THEOREM MonthsPaidOnce == Spec => []MonthPaidOnceUnlessRaced
<1>1. ASSUME RunsInv, NEW m \in Months \ raced PROVE Cardinality(PaidBy(m)) <= 1
  <2>1. CASE PaidBy(m) = {}
    BY <2>1, FS_EmptySet
  <2>2. CASE PaidBy(m) # {}
    <3>1. PICK r : r \in PaidBy(m)
      BY <2>2
    <3>2. PaidBy(m) = {r}
      BY <1>1, <3>1, PaidByOne
    <3>3. Cardinality({r}) = 1
      BY FS_Singleton
    <3> QED
      BY <3>2, <3>3
  <2> QED
    BY <2>1, <2>2
<1>2. RunsInv => MonthPaidOnceUnlessRaced
  BY <1>1 DEF MonthPaidOnceUnlessRaced
<1> QED
  BY <1>2, PayrollInvariant, PTL
=============================================================================
