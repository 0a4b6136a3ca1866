---------------------------- MODULE TrackPresence ----------------------------
(***************************************************************************)
(* TrackPresenceService (backend/app/services/track_presence_service.py):  *)
(* the time-based presence state machine that one running class session    *)
(* keeps in memory, and the attendance rows and EarlyLeaveEvent rows it    *)
(* writes as it goes.                                                      *)
(*                                                                         *)
(* Every method is synchronous Python on the gateway's event loop, so each *)
(* is one action.  The monotonic clock and the wall clock are both "now":  *)
(* the code never compares one with the other.                             *)
(*                                                                         *)
(* The methods have no guard against a call after end_session.  Next is a  *)
(* caller that makes none; SessionPipeline.tla is the caller the code has. *)
(***************************************************************************)
EXTENDS Integers, FiniteSets

CONSTANTS
    Students,   \* users whose face may be recognised in the room
    Enrolled,   \* those enrolled from the start, and again at every start:
                \* their course and year match the schedule's
    NULL,       \* Python's None
    Timeouts,   \* the early-leave timeouts an operator may configure
    GraceEnd,   \* the last instant that still counts as on time
    MaxTime,    \* bound: the clock stops here
    DBFaults    \* whether a commit may raise

ASSUME ConstantsAssumption ==
    /\ Enrolled \subseteq Students
    /\ NULL \notin Int
    /\ Timeouts \subseteq Nat
    /\ Timeouts # {}
    /\ GraceEnd \in Nat
    /\ MaxTime \in Nat
    /\ DBFaults \in BOOLEAN

VARIABLES
    now,            \* time.monotonic() and datetime.now()
    phase,          \* "idle" before start_session, then "running", then "ended"
    session_start,  \* _session_start
    timeout,        \* _early_leave_timeout
    paused_at,      \* _paused_at
    known,          \* _enrolled_ids, the keys of _students
    mem,            \* _students
    enrolled,       \* Enrollment rows of the schedule
    rows,           \* students with an attendance row today
    rec,            \* the contents of those rows
    open_leaves,    \* EarlyLeaveEvent rows with returned = False, per student
    events          \* what the last process_track_frame returned

clockVars   == <<now, session_start, timeout, paused_at>>
memoryVars  == <<known, mem>>
databaseVars == <<enrolled, rows, rec, open_leaves>>
vars == <<clockVars, phase, memoryVars, databaseVars, events>>

-----------------------------------------------------------------------------
(* Data                                                                     *)

Time    == 0..MaxTime
MaybeTime == Time \cup {NULL}

\* AttendanceStatus.  Memory holds only the first three, the service writes
\* the first four to a row, a teacher any.
MemStatus == {"absent", "present", "late"}
RowStatus == MemStatus \cup {"early_leave", "excused"}

\* StudentPresenceState.  last_seen_time is left out: nothing reads it.
StudentPresenceState ==
    [status : MemStatus,
     check_in_time : MaybeTime,
     last_seen_at : MaybeTime,
     total_present_seconds : Nat,
     last_presence_start : MaybeTime,
     absent_since : MaybeTime,
     early_leave_flagged : BOOLEAN,
     early_leave_returned : BOOLEAN]

Fresh ==
    [status |-> "absent",
     check_in_time |-> NULL,
     last_seen_at |-> NULL,
     total_present_seconds |-> 0,
     last_presence_start |-> NULL,
     absent_since |-> NULL,
     early_leave_flagged |-> FALSE,
     early_leave_returned |-> FALSE]

AttendanceRow ==
    [status : RowStatus,
     check_in_time : MaybeTime,
     check_out_time : MaybeTime,
     total_present_seconds : Nat]

NewRow ==
    [status |-> "absent",
     check_in_time |-> NULL,
     check_out_time |-> NULL,
     total_present_seconds |-> 0]

EventKind == {"check_in", "early_leave", "early_leave_return"}

\* Flagged as having left early and not seen again since.
Away(m) == m.early_leave_flagged /\ ~m.early_leave_returned

CheckedIn(m) == m.status # "absent"

\* How many of the two commits of an event succeed, and which writes of a
\* batch do.  One failed commit makes the later ones of the same frame fail
\* too, which is one of the outcomes allowed here.
CommitOutcomes == IF DBFaults THEN [Students -> 0..2] ELSE {[s \in Students |-> 2]}
SubsetOutcomes(S) == IF DBFaults THEN SUBSET S ELSE {S}

-----------------------------------------------------------------------------
(* What one frame does to one student                                       *)

Shift(t, d) == IF t = NULL THEN NULL ELSE t + d

\* Faulty variant: the difference taken the wrong way round.
OfflineDurationReversed == IF paused_at = NULL THEN 0 ELSE paused_at - now

\* Time since pause_absence_tracking, 0 when not paused.
OfflineDuration == IF paused_at = NULL THEN 0 ELSE now - paused_at

\* Faulty variant: the absence timer is not shifted.
ResumedPresenceOnly(m) == [m EXCEPT !.last_presence_start = Shift(@, OfflineDuration)]

Resumed(m) ==
    [m EXCEPT !.absent_since = Shift(@, OfflineDuration),
              !.last_presence_start = Shift(@, OfflineDuration)]

\* The three transitions that write to the database.
ChecksIn(m, visible) == visible /\ ~CheckedIn(m)
Returns(m, visible)  == visible /\ CheckedIn(m) /\ Away(m)
Leaves(m, visible)   == /\ ~visible /\ CheckedIn(m) /\ ~Away(m)
                        /\ m.absent_since # NULL
                        /\ now - m.absent_since > timeout

NewStatus == IF now <= GraceEnd THEN "present" ELSE "late"

\* Presence up to now, the running stretch included.
PresentSeconds(m) ==
    m.total_present_seconds
      + (IF m.last_presence_start = NULL THEN 0 ELSE now - m.last_presence_start)

\* commits = 2 when both database writes of a return go through: an
\* exception in either skips the refresh of last_seen_at at the end.
Seen(m, commits) ==
    IF ChecksIn(m, TRUE) THEN
        [m EXCEPT !.status = NewStatus,
                  !.check_in_time = now,
                  !.last_seen_at = now,
                  !.last_presence_start = now,
                  !.absent_since = NULL]
    ELSE IF Returns(m, TRUE) THEN
        [m EXCEPT !.early_leave_returned = TRUE,
                  !.absent_since = NULL,
                  !.last_presence_start = now,
                  !.last_seen_at = IF commits = 2 THEN now ELSE @]
    ELSE
        [m EXCEPT !.absent_since = NULL,
                  !.last_presence_start = IF @ = NULL THEN now ELSE @,
                  !.last_seen_at = now]

\* Faulty variant: the stretch that was just added is left running.
UnseenStillRunning(m) ==
    [m EXCEPT !.total_present_seconds = PresentSeconds(m),
              !.absent_since = IF CheckedIn(m) /\ ~Away(m) /\ @ = NULL THEN now ELSE @,
              !.early_leave_flagged = @ \/ Leaves(m, FALSE),
              !.early_leave_returned = @ /\ ~Leaves(m, FALSE)]

Unseen(m) ==
    LET left == Leaves(m, FALSE)
        watched == CheckedIn(m) /\ ~Away(m)
    IN  [m EXCEPT !.total_present_seconds = PresentSeconds(m),
                  !.last_presence_start = NULL,
                  !.absent_since = IF watched /\ @ = NULL THEN now ELSE @,
                  !.early_leave_flagged = @ \/ left,
                  !.early_leave_returned = @ /\ ~left]

Observed(m, visible, commits) == IF visible THEN Seen(m, commits) ELSE Unseen(m)

\* Faulty variants of RowAfter: the check-out of an early leave survives the
\* return; the return restores "present" whatever the student was.
RowAfterStaleCheckOut(r, m, visible) ==
    IF ChecksIn(m, visible) THEN
        [r EXCEPT !.status = NewStatus, !.check_in_time = now]
    ELSE IF Returns(m, visible) THEN [r EXCEPT !.status = m.status]
    ELSE IF Leaves(m, visible) THEN
        [r EXCEPT !.status = "early_leave", !.check_out_time = m.last_seen_at]
    ELSE r

RowAfterAlwaysPresent(r, m, visible) ==
    IF ChecksIn(m, visible) THEN
        [r EXCEPT !.status = NewStatus, !.check_in_time = now]
    ELSE IF Returns(m, visible) THEN
        [r EXCEPT !.status = "present", !.check_out_time = NULL]
    ELSE IF Leaves(m, visible) THEN
        [r EXCEPT !.status = "early_leave", !.check_out_time = m.last_seen_at]
    ELSE r

\* The attendance row, when the first commit goes through.
RowAfter(r, m, visible) ==
    IF ChecksIn(m, visible) THEN
        [r EXCEPT !.status = NewStatus, !.check_in_time = now]
    ELSE IF Returns(m, visible) THEN
        [r EXCEPT !.status = m.status, !.check_out_time = NULL]
    ELSE IF Leaves(m, visible) THEN
        [r EXCEPT !.status = "early_leave",
                  !.check_out_time = IF m.last_seen_at = NULL THEN @ ELSE m.last_seen_at]
    ELSE r

\* The open EarlyLeaveEvent rows, when the second commit goes through: a
\* return closes the newest open one, if there is one.
OpenLeavesAfter(n, m, visible) ==
    IF Leaves(m, visible) THEN n + 1
    ELSE IF Returns(m, visible) /\ n > 0 THEN n - 1
    ELSE n

\* Faulty variant: the event is announced before the writes, as an early
\* leave is.
AnnouncesFirst(kind, m, visible, commits) ==
    \/ kind = "check_in" /\ ChecksIn(m, visible)
    \/ kind = "early_leave_return" /\ Returns(m, visible)
    \/ kind = "early_leave" /\ Leaves(m, visible)

\* A check-in is announced after its write, a return after both of its
\* writes, an early leave before either.
Announces(kind, m, visible, commits) ==
    \/ kind = "check_in" /\ ChecksIn(m, visible) /\ commits >= 1
    \/ kind = "early_leave_return" /\ Returns(m, visible) /\ commits = 2
    \/ kind = "early_leave" /\ Leaves(m, visible)

-----------------------------------------------------------------------------
(* Operations                                                               *)

Init ==
    /\ now = 0
    /\ phase = "idle"
    /\ session_start = NULL
    /\ timeout \in Timeouts
    /\ paused_at = NULL
    /\ known = {}
    /\ mem = [s \in Students |-> Fresh]
    /\ enrolled = Enrolled
    /\ rows = {}
    /\ rec = [s \in Students |-> NewRow]
    /\ open_leaves = [s \in Students |-> 0]
    /\ events = {}

\* The students of the schedule, once _auto_enroll_matching_students has
\* enrolled those whose course and year match.
Roster == enrolled \cup Enrolled

\* _jit_enroll_student, for each user recognised who is not enrolled: which of
\* them are now, with a row, since the database calls may fail.
EnrolledOnTheSpot(recognised) == SubsetOutcomes(recognised \ known)

\* A new service object for today's session: memory starts from nothing,
\* rows that exist are kept.
LoadStudents ==
    /\ phase' = "running"
    /\ session_start' = now
    /\ timeout' \in Timeouts
    /\ paused_at' = NULL
    /\ known' = Roster
    /\ mem' = [s \in Students |-> Fresh]
    /\ enrolled' = Roster
    /\ rows' = rows \cup Roster
    /\ events' = {}
    /\ UNCHANGED <<now, rec, open_leaves>>

start_session == phase = "idle" /\ LoadStudents

Tick ==
    /\ now < MaxTime
    /\ now' = now + 1
    /\ events' = {}
    /\ UNCHANGED <<phase, session_start, timeout, paused_at, memoryVars, databaseVars>>

\* recognised: the users the tracker put a name to in this frame.  Those
\* not enrolled are enrolled on the spot.
process_track_frame(recognised) ==
    /\ \E jit \in EnrolledOnTheSpot(recognised), commits \in CommitOutcomes :
         LET tracked == known \cup jit
             before(s) == IF s \in jit THEN Fresh ELSE Resumed(mem[s])
             seen(s) == s \in recognised
         IN  /\ known' = tracked
             /\ rows' = rows \cup jit
             /\ mem' = [s \in Students |->
                          IF s \in tracked
                          THEN Observed(before(s), seen(s), commits[s])
                          ELSE mem[s]]
             /\ rec' = [s \in Students |->
                          IF s \in tracked /\ commits[s] >= 1
                          THEN RowAfter(rec[s], before(s), seen(s))
                          ELSE rec[s]]
             /\ open_leaves' = [s \in Students |->
                          IF s \in tracked /\ commits[s] = 2
                          THEN OpenLeavesAfter(open_leaves[s], before(s), seen(s))
                          ELSE open_leaves[s]]
             /\ events' = {e \in EventKind \X tracked :
                             Announces(e[1], before(e[2]), seen(e[2]), commits[e[2]])}
    /\ \E enlisted \in EnrolledOnTheSpot(recognised) :
         known' \ known \subseteq enlisted /\ enrolled' = enrolled \cup enlisted
    /\ paused_at' = NULL
    /\ UNCHANGED <<now, phase, session_start, timeout>>

pause_absence_tracking ==
    /\ paused_at' = IF paused_at = NULL THEN now ELSE paused_at
    /\ events' = {}
    /\ UNCHANGED <<now, session_start, timeout, phase, memoryVars, databaseVars>>

set_early_leave_timeout(seconds) ==
    /\ timeout' = seconds
    /\ events' = {}
    /\ UNCHANGED <<now, session_start, paused_at, phase, memoryVars, databaseVars>>

\* The rows whose metrics a flush writes; it writes no other column.
Flushed == IF now > session_start THEN {s \in known : CheckedIn(mem[s])} ELSE {}

flush_presence_logs ==
    /\ \E written \in SubsetOutcomes(Flushed) :
         rec' = [s \in Students |->
                   IF s \in written
                   THEN [rec[s] EXCEPT !.total_present_seconds = PresentSeconds(mem[s])]
                   ELSE rec[s]]
    /\ events' = {}
    /\ UNCHANGED <<clockVars, phase, memoryVars, enrolled, rows, open_leaves>>

\* Faulty variant: the time at which an early leaver was last seen is lost.
CheckOutAtEndAlways(t) == now

CheckOutAtEnd(t) == IF t = NULL THEN now ELSE t

\* The final flush swallows a failed write; the check-out loop after it stops
\* at the first one, so only some of the rows may be stamped.
end_session ==
    /\ phase' = "ended"
    /\ mem' = [s \in Students |->
                 [mem[s] EXCEPT !.total_present_seconds = PresentSeconds(mem[s]),
                                !.last_presence_start = NULL]]
    /\ \E written \in SubsetOutcomes(Flushed),
          stamped \in SubsetOutcomes({s \in known : CheckedIn(mem[s])}) :
         rec' = [s \in Students |->
                   [rec[s] EXCEPT
                      !.total_present_seconds =
                          IF s \in written \cup stamped THEN PresentSeconds(mem[s]) ELSE @,
                      !.check_out_time =
                          IF s \in stamped THEN CheckOutAtEnd(@) ELSE @]]
    /\ events' = {}
    /\ UNCHANGED <<clockVars, known, enrolled, rows, open_leaves>>

Frame == \E recognised \in SUBSET Students : process_track_frame(recognised)

Next ==
    \/ start_session
    \/ /\ phase = "running"
       /\ \/ Tick
          \/ Frame
          \/ pause_absence_tracking
          \/ \E seconds \in Timeouts : set_early_leave_timeout(seconds)
          \/ flush_presence_logs
          \/ end_session

Spec == Init /\ [][Next]_vars

-----------------------------------------------------------------------------
(* Properties                                                               *)

\* Types of the service's memory and of the rows it writes.
TypeOK ==
    /\ now \in Time
    /\ phase \in {"idle", "running", "ended"}
    /\ session_start \in MaybeTime
    /\ timeout \in Timeouts
    /\ paused_at \in MaybeTime
    /\ known \in SUBSET Students
    /\ mem \in [Students -> StudentPresenceState]
    /\ enrolled \in SUBSET Students
    /\ rows \in SUBSET Students
    /\ rec \in [Students -> AttendanceRow]
    /\ open_leaves \in [Students -> Nat]
    /\ events \in SUBSET (EventKind \X Students)

\* While no commit fails, the live state of process_track_frame and the rows
\* it has written tell the same story: status, first detection, an open
\* early-leave event exactly for the students now away, and for those alone a
\* check-out, at the instant they were last seen.
RowMatchesMemory ==
    phase = "running" =>
        \A s \in known :
            /\ s \in rows
            /\ rec[s].status = IF Away(mem[s]) THEN "early_leave" ELSE mem[s].status
            /\ rec[s].check_in_time = mem[s].check_in_time
            /\ rec[s].check_out_time = IF Away(mem[s]) THEN mem[s].last_seen_at ELSE NULL
            /\ open_leaves[s] = IF Away(mem[s]) THEN 1 ELSE 0

\* Whatever commits fail, a row that process_track_frame wrote says nothing
\* that memory did not: the check-in it holds is the one in memory, and it
\* accuses nobody of leaving whom memory never flagged.
RowNeverInvents ==
    \A s \in known :
        /\ rec[s].check_in_time \in {NULL, mem[s].check_in_time}
        /\ rec[s].status \in {"present", "late"} => rec[s].status = mem[s].status
        /\ rec[s].status = "early_leave" => mem[s].early_leave_flagged

\* The presence that flush_presence_logs and end_session credit is never
\* more than the time since the student came in, through any sequence of
\* pauses, resumes, early leaves and returns (so the score of a student who
\* was there all along needs no cap but the late arrival's).
PresenceWithinStay ==
    \A s \in known :
        /\ CheckedIn(mem[s]) => PresentSeconds(mem[s]) <= now - mem[s].check_in_time
        /\ ~CheckedIn(mem[s]) => PresentSeconds(mem[s]) = 0

\* end_session, no commit failing: everyone who came has a check-out, not
\* before the check-in; those away keep the status and the time at which
\* they were last seen, the others leave at the end.
ClosedRows ==
    phase = "ended" =>
        \A s \in known :
            CheckedIn(mem[s]) =>
                /\ rec[s].check_out_time # NULL
                /\ rec[s].check_in_time <= rec[s].check_out_time
                /\ rec[s].check_out_time = IF Away(mem[s]) THEN mem[s].last_seen_at ELSE now

\* Clients are told of a check-in or of a return only once the row says so,
\* even when commits fail.
AnnouncedIsRecorded ==
    \A s \in known :
        /\ <<"check_in", s>> \in events =>
               rec[s].status = mem[s].status /\ rec[s].check_in_time = now
        /\ <<"early_leave_return", s>> \in events =>
               rec[s].status = mem[s].status /\ rec[s].check_out_time = NULL

\* The clock by which presence and absence should count: it stops at the pause.
CountedNow == IF paused_at = NULL THEN now ELSE paused_at

\* What resume_absence_tracking promises: total_present_seconds does not
\* count camera downtime.  OnlineSeconds stops the running stretch at the
\* pause; the row must not hold more.
OnlineSeconds(m) ==
    m.total_present_seconds
      + (IF m.last_presence_start = NULL THEN 0 ELSE CountedNow - m.last_presence_start)

DowntimeNotCredited ==
    phase = "running" =>
        \A s \in known : rec[s].total_present_seconds <= OnlineSeconds(mem[s])

\* Once written, the first detection of the day is never rewritten.
CheckInIsFinal ==
    [][\A s \in Students :
          rec[s].check_in_time # NULL => rec'[s].check_in_time = rec[s].check_in_time]_vars

-----------------------------------------------------------------------------
(* The service implements StandingPromise                                   *)

StandingOf(m) ==
    IF ~CheckedIn(m) THEN "out"
    ELSE IF Away(m) THEN "left"
    ELSE IF m.early_leave_flagged THEN "back"
    ELSE "in"

StopwatchOf(m) ==
    IF CheckedIn(m) /\ ~Away(m) /\ m.absent_since # NULL
    THEN CountedNow - m.absent_since
    ELSE NULL

Promise == INSTANCE StandingPromise WITH
    Off <- NULL,
    Limits <- Timeouts,
    standing <- [s \in Students |-> StandingOf(mem[s])],
    stopwatch <- [s \in Students |-> StopwatchOf(mem[s])],
    frozen <- paused_at # NULL,
    limit <- timeout,
    closed <- phase = "ended"

\* Pausing, resuming and shifting timestamps amounts to stopwatches that
\* stand still while the camera is offline: a student is marked as having
\* left early in the first frame that finds more than the timeout of counted
\* absence, never before, and is restored by the first frame that sees them.
ImplementsPromise == Promise!Spec

=============================================================================
