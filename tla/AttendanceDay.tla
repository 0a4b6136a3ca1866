---------------------------- MODULE AttendanceDay ----------------------------
(***************************************************************************)
(* One schedule on one day: the two services that write its attendance     *)
(* rows, through restarts of the gateway and corrections by the teacher.   *)
(*                                                                         *)
(*   - PresenceService (services/presence_service.py) opens the session,   *)
(*     creating a row for every enrolled student, and closes it.           *)
(*   - TrackPresenceService, one per SessionPipeline, writes the rest.     *)
(*                                                                         *)
(* Both keep their state in the memory of the gateway process; the rows    *)
(* and the EarlyLeaveEvent rows outlive it.  A manual end closes the       *)
(* session first and stops the pipeline next, the lifecycle job does it    *)
(* the other way round, a shutdown only stops the pipeline, and a crash    *)
(* does neither.                                                           *)
(***************************************************************************)
EXTENDS TrackPresence

CONSTANTS
    MaxRestarts,  \* bound: how often the gateway may exit and come back
    Corrections   \* the statuses a teacher may write into a row

ASSUME DayAssumption ==
    /\ MaxRestarts \in Nat
    /\ Corrections \subseteq RowStatus

VARIABLES
    active,       \* the schedule is in PresenceService._active_sessions
    roster,       \* the students of its SessionState
    ended_today,  \* the schedule is in PresenceService._ended_sessions
    registered,   \* the schedule is in session_manager._active_sessions
    removed,      \* history: students unenrolled by an administrator
    restarts      \* how often the gateway has exited

sessionVars == <<active, roster, ended_today, registered, removed, restarts>>
dayVars == <<vars, sessionVars>>

DayInit ==
    /\ Init
    /\ active = FALSE
    /\ roster = {}
    /\ ended_today = FALSE
    /\ registered = FALSE
    /\ removed = {}
    /\ restarts = 0

\* Faulty variant: an upsert that starts every row over.
StartRowsOver == [s \in Students |-> NewRow]

\* Rows that exist are reused, whatever they say.
KeepRows == rec

\* PresenceService.start_session, called for a session that is neither
\* running nor ended today.
OpenSession ==
    /\ ~active /\ ~ended_today
    /\ active' = TRUE
    /\ registered' = TRUE
    /\ roster' = Roster
    /\ enrolled' = Roster
    /\ rows' = rows \cup Roster
    /\ rec' = KeepRows
    /\ UNCHANGED <<clockVars, phase, memoryVars, open_leaves, events,
                   ended_today, removed, restarts>>

\* SessionPipeline.start: a new TrackPresenceService.  One pipeline per life
\* of the gateway: nothing stops a pipeline and lets the session go on.
StartPipeline ==
    /\ active
    /\ start_session
    /\ registered' = TRUE
    /\ UNCHANGED <<active, roster, ended_today, removed, restarts>>

\* What a running pipeline does to its presence service.
PipelineStep ==
    /\ phase = "running"
    /\ Frame \/ pause_absence_tracking \/ flush_presence_logs \/ Tick
    /\ UNCHANGED sessionVars

\* SessionPipeline.stop.
StopPipeline ==
    /\ phase = "running"
    /\ end_session
    /\ registered' = FALSE
    /\ UNCHANGED <<active, roster, ended_today, removed, restarts>>

\* Faulty variant: late arrivals are forgotten.
UnstampedOnTime(s) == s \in roster /\ rec[s].status = "present" /\ rec[s].check_out_time = NULL

\* Who still needs a check-out when the session is closed.
Unstamped(s) == s \in roster /\ rec[s].status # "absent" /\ rec[s].check_out_time = NULL

\* Faulty variant: taking the session off the registry is left to its
\* pipeline, which may not be there.
UnregisterLater == registered

\* session_manager.unregister_session.
Unregister == FALSE

\* PresenceService.end_session.
CloseSession ==
    /\ active
    /\ registered' = Unregister
    /\ active' = FALSE
    /\ ended_today' = TRUE
    /\ rec' = [s \in Students |->
                 IF Unstamped(s) THEN [rec[s] EXCEPT !.check_out_time = now] ELSE rec[s]]
    /\ UNCHANGED <<clockVars, phase, memoryVars, enrolled, rows, open_leaves, events, roster, removed, restarts>>

\* The gateway exits, at any moment, and comes back: what was in memory is
\* gone.  After StopPipeline this is a shutdown, otherwise a crash.
Restart ==
    /\ restarts < MaxRestarts
    /\ restarts' = restarts + 1
    /\ phase' = "idle"
    /\ known' = {}
    /\ mem' = [s \in Students |-> Fresh]
    /\ paused_at' = NULL
    /\ active' = FALSE
    /\ roster' = {}
    /\ ended_today' = FALSE
    /\ registered' = FALSE
    /\ events' = {}
    /\ UNCHANGED <<now, session_start, timeout, databaseVars, removed>>

\* Time between two lives of the gateway, or with no pipeline running.
IdleTick ==
    /\ phase # "running"
    /\ Tick
    /\ UNCHANGED sessionVars

\* update_attendance_record: the teacher changes the status of a row.
CorrectRow ==
    /\ \E s \in rows, status \in Corrections :
          rec' = [rec EXCEPT ![s].status = status]
    /\ UNCHANGED <<clockVars, phase, memoryVars, enrolled, rows, open_leaves, events, sessionVars>>

\* manual_attendance_entry: the same for whoever has a row, and a new row for
\* whoever has none, with a session or without.
EnterByHand ==
    \/ CorrectRow
    \/ /\ \E s \in Students \ rows, status \in Corrections :
             /\ rows' = rows \cup {s}
             /\ rec' = [rec EXCEPT ![s] = [NewRow EXCEPT !.status = status]]
       /\ UNCHANGED <<clockVars, phase, memoryVars, enrolled, open_leaves, events, sessionVars>>

\* The administrator enrols a student by hand.  A session under way does not
\* hear of it: the student is recognised as one enrolled on the spot.
enroll_student ==
    /\ \E s \in Students \ enrolled : enrolled' = enrolled \cup {s}
    /\ UNCHANGED <<clockVars, phase, memoryVars, rows, rec, open_leaves, events, sessionVars>>

\* The administrator takes a student off the class; rows stay, and so does
\* what a session under way has in memory.
unenroll_student ==
    /\ \E s \in enrolled :
          enrolled' = enrolled \ {s} /\ removed' = removed \cup {s}
    /\ UNCHANGED <<clockVars, phase, memoryVars, rows, rec, open_leaves, events,
                   active, roster, ended_today, registered, restarts>>

DayNext ==
    \/ OpenSession \/ StartPipeline \/ PipelineStep \/ StopPipeline \/ CloseSession
    \/ Restart \/ IdleTick \/ EnterByHand \/ enroll_student \/ unenroll_student

DaySpec == DayInit /\ [][DayNext]_dayVars

-----------------------------------------------------------------------------
(* Properties                                                               *)

\* The session is closed and no pipeline is left running.
Settled == ended_today /\ phase # "running"

\* Between them the two closers, in whichever order they run and whatever
\* process wrote the rows, leave no attendee without a check-out, those
\* enrolled on the spot included.  (Who was unenrolled is on nobody's list
\* after a restart.)
EveryoneCheckedOut ==
    Settled => \A s \in rows \ removed : rec[s].check_in_time # NULL => rec[s].check_out_time # NULL

\* The registry that dashboards read never denies a session that is being
\* recorded, never shows one that the presence service (and through it the
\* edge device) does not know, and lets go of it when session and pipeline are
\* over, in whichever order they end, without a pipeline and after a restart.
RegistryTells ==
    /\ active /\ phase = "running" => registered
    /\ registered => active
    /\ Settled => ~registered

\* Neither a restart, nor the memory of the next service that starts everyone
\* as absent, nor a closer ever turns an attendee back into an absentee.  (A
\* teacher may; Corrections then holds "absent", which no run gives it.)
NeverUnmarked ==
    [][\A s \in Students : rec[s].status # "absent" => rec'[s].status # "absent"]_dayVars

\* The day's check-in is the "First detection time" of the AttendanceRecord,
\* in whichever life of the gateway the student is seen again.
FirstDetectionKept ==
    [][\A s \in Students :
          rec[s].check_in_time # NULL => rec'[s].check_in_time = rec[s].check_in_time]_dayVars

=============================================================================
