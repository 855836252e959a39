------------------------------- MODULE Leave --------------------------------
(***************************************************************************)
(* Asking to be away, and somebody deciding (hr/leave.service.ts).  Every  *)
(* answer rests on rows read before the write, with nothing held between.  *)
(* Who was here on a day is the second half of this module: another table, *)
(* written by other requests.                                              *)
(***************************************************************************)
EXTENDS Naturals

CONSTANTS Requesters,        \* requests of the API under way
          Staff, NoStaff,    \* people; any of them may be allowed to decide
          Absences,          \* leave_requests
          NoAbsence,
          LastDate           \* bound on the dates

ASSUME LeaveAssumption ==
    NoStaff \notin Staff /\ NoAbsence \notin Absences /\ LastDate \in Nat

VARIABLES offered,    \* whether the kind of leave is active
          absence,    \* absence[a]: a row of leave_requests
          requester,  \* requester[p]: what request p has read and is about to write
          outcome,    \* ghost: outcome[a], how a was first settled
          contested   \* ghost: absences asked for or settled by an overtaken request

leaveVars == <<offered, absence, requester, outcome, contested>>

-----------------------------------------------------------------------------
Dates       == 1 .. LastDate
Settled     == {"approved", "rejected", "cancelled"}
AbsenceRows == [of : Staff \cup {NoStaff}, from : 0 .. LastDate, to : 0 .. LastDate,
                status : {"none", "pending"} \cup Settled, decidedBy : Staff \cup {NoStaff}]
NotAsked    == [of |-> NoStaff, from |-> 0, to |-> 0, status |-> "none", decidedBy |-> NoStaff]
Unbusy      == [op |-> "none", on |-> NoAbsence, row |-> NotAsked, stale |-> FALSE]

LeaveInit ==
    /\ offered = TRUE
    /\ absence = [a \in Absences |-> NotAsked]
    /\ requester = [p \in Requesters |-> Unbusy]
    /\ outcome = [a \in Absences |-> "none"]
    /\ contested = {}

SetOffered ==    \* updateType
    /\ offered' = ~offered
    /\ UNCHANGED <<absence, requester, outcome, contested>>

Submit(p, op, a, row) ==
    /\ requester[p] = Unbusy
    /\ requester' = [requester EXCEPT ![p] = [op |-> op, on |-> a, row |-> row, stale |-> FALSE]]
    /\ UNCHANGED <<offered, absence, outcome, contested>>

-----------------------------------------------------------------------------
Away(u, from, to) ==
    {a \in Absences : /\ absence[a].of = u /\ absence[a].status \in {"pending", "approved"}
                      /\ absence[a].from <= to /\ absence[a].to >= from}

Clash(u, from, to) == Away(u, from, to) # {}

AskLeave(p, a, u) ==    \* request
    /\ absence[a] = NotAsked /\ offered
    /\ \E from \in Dates : \E to \in from .. LastDate :
          /\ ~Clash(u, from, to)
          /\ Submit(p, "ask", a, [NotAsked EXCEPT !.of = u, !.from = from, !.to = to,
                                                  !.status = "pending"])

CancelLeave(p, a) ==    \* cancel, by its own requester
    /\ absence[a].status = "pending"
    /\ Submit(p, "settle", a, [absence[a] EXCEPT !.status = "cancelled"])

\* Mutant of MayDecide: what was already decided can be decided again.
EvenDecided(a, u) == absence[a].of # u /\ absence[a].status \in {"pending"} \cup Settled

MayDecide(a, u) == absence[a].of # u /\ absence[a].status = "pending"

DecideLeave(p, a, u) ==
    /\ MayDecide(a, u)
    /\ \E verdict \in {"approved", "rejected"} :
          Submit(p, "settle", a, [absence[a] EXCEPT !.status = verdict, !.decidedBy = u])

\* Two requests touch when they are about one absence, or ask for one person.
Touch(r, s) == r.on = s.on \/ (r.op = "ask" /\ s.op = "ask" /\ r.row.of = s.row.of)

WriteLeave(p) ==
    LET r == requester[p] IN
    /\ r.op # "none" /\ (r.op = "ask" => absence[r.on] = NotAsked)
    /\ absence' = [absence EXCEPT ![r.on] = r.row]
    /\ outcome' = IF outcome[r.on] = "none" /\ r.row.status \in Settled
                  THEN [outcome EXCEPT ![r.on] = r.row.status] ELSE outcome
    /\ contested' = IF r.stale THEN contested \cup {r.on} ELSE contested
    /\ requester' = [q \in Requesters |->
                        IF q = p THEN Unbusy
                        ELSE [requester[q] EXCEPT !.stale = @ \/ Touch(requester[q], r)]]
    /\ UNCHANGED offered

LeaveNext ==
    \/ SetOffered
    \/ \E p \in Requesters, a \in Absences :
          \/ CancelLeave(p, a)
          \/ \E u \in Staff : AskLeave(p, a, u) \/ DecideLeave(p, a, u)
    \/ \E p \in Requesters : WriteLeave(p)

LeaveSpec == LeaveInit /\ [][LeaveNext]_leaveVars

-----------------------------------------------------------------------------
LeaveTypeOK ==
    /\ offered \in BOOLEAN
    /\ absence \in [Absences -> AbsenceRows]
    /\ requester \in [Requesters -> [op : {"none", "ask", "settle"}, on : Absences \cup {NoAbsence},
                                     row : AbsenceRows, stale : BOOLEAN]]
    /\ outcome \in [Absences -> {"none"} \cup Settled]
    /\ contested \subseteq Absences

(***************************************************************************)
(* "One day would count twice against the allowance": no two absences of   *)
(* one person that stand or may come to stand share a day, unless both     *)
(* were asked for at once.                                                 *)
(***************************************************************************)
DaysCountOnceUnlessRaced ==
    \A a, b \in Absences \ contested :
        a # b /\ absence[a].status # "none" /\ absence[b].status \in {"pending", "approved"} =>
            a \notin Away(absence[b].of, absence[b].from, absence[b].to)

(***************************************************************************)
(* "A second decision cannot overwrite who made the first", nor a decision *)
(* a withdrawal, and "nobody signs off their own absence": what was        *)
(* settled stays as it was settled, unless two settled it at once.         *)
(***************************************************************************)
DecisionStandsUnlessRaced ==
    \A a \in Absences \ contested :
        /\ absence[a].status = "none" \/ outcome[a] \in {"none", absence[a].status}
        /\ absence[a].decidedBy # NoStaff => absence[a].decidedBy # absence[a].of

-----------------------------------------------------------------------------
(***************************************************************************)
(* Who was here (hr/attendance.service.ts): one row a day for a person,    *)
(* which their own two taps write, and which somebody else can record.     *)
(* The model is of one day of one person.                                  *)
(***************************************************************************)

CONSTANTS Taps,        \* requests to clock, which may overlap
          Midnight,    \* the last hour of the day
          NoTime

ASSUME AttendanceAssumption == Midnight \in Nat /\ NoTime \notin 0 .. Midnight

VARIABLES hour,       \* the time
          day,        \* the row: [in, out], or NoRow
          tap,        \* tap[p]: what request p has found
          foreseen    \* ghost: an admin recorded a check-in yet to come, or none at all

attendanceVars == <<hour, day, tap, foreseen>>

-----------------------------------------------------------------------------
Hourly  == 0 .. Midnight
DayRows == [there : BOOLEAN, in : Hourly \cup {NoTime}, out : Hourly \cup {NoTime}]
NoRow   == [there |-> FALSE, in |-> NoTime, out |-> NoTime]

AttendanceInit ==
    /\ hour = 0 /\ day = NoRow
    /\ tap = [p \in Taps |-> "none"]
    /\ foreseen = FALSE

NextHour ==
    /\ hour < Midnight /\ hour' = hour + 1
    /\ UNCHANGED <<day, tap, foreseen>>

\* clock, up to what it has found; a day checked out of is refused.
Clock(p) ==
    /\ tap[p] = "none" /\ day.out = NoTime
    /\ tap' = [tap EXCEPT ![p] = IF day.there THEN "out" ELSE "in"]
    /\ UNCHANGED <<hour, day, foreseen>>

\* The unique index refuses the second row of a day.
ClockIn(p) ==
    /\ tap[p] = "in"
    /\ day' = IF day.there THEN day ELSE [there |-> TRUE, in |-> hour, out |-> NoTime]
    /\ tap' = [tap EXCEPT ![p] = "none"]
    /\ UNCHANGED <<hour, foreseen>>

ClockOut(p) ==
    /\ tap[p] = "out"
    /\ day' = [day EXCEPT !.out = hour]
    /\ tap' = [tap EXCEPT ![p] = "none"]
    /\ UNCHANGED <<hour, foreseen>>

InOrder(in, out) == in # NoTime /\ out # NoTime => out > in

RecordDay ==
    \E in, out \in Hourly \cup {NoTime} :
        /\ InOrder(in, out)
        /\ day' = [there |-> TRUE, in |-> in, out |-> out]
        /\ foreseen' = IF in = NoTime THEN TRUE ELSE in > hour
        /\ UNCHANGED <<hour, tap>>

AttendanceNext == NextHour \/ RecordDay \/ \E p \in Taps : Clock(p) \/ ClockIn(p) \/ ClockOut(p)

AttendanceSpec == AttendanceInit /\ [][AttendanceNext]_attendanceVars

-----------------------------------------------------------------------------
AttendanceTypeOK ==
    /\ hour \in Hourly /\ day \in DayRows
    /\ tap \in [Taps -> {"none", "in", "out"}] /\ foreseen \in BOOLEAN

(***************************************************************************)
(* "Check-out has to be after check-in", and there is no check-out without *)
(* one: on whichever side the day was written, however often its person    *)
(* tapped, unless an admin recorded it with no check-in or with one that   *)
(* had yet to come.                                                        *)
(***************************************************************************)
OutFollowsInUnlessForeseen ==
    day.out # NoTime /\ ~foreseen => day.in # NoTime /\ day.out >= day.in
=============================================================================
