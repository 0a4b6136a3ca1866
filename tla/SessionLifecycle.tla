-------------------------- MODULE SessionLifecycle --------------------------
(***************************************************************************)
(* Who starts and ends class sessions in the gateway, on one day:          *)
(*                                                                         *)
(*   - the lifecycle job of main.py, every fifteen seconds, never twice at *)
(*     once: it reads what to start and what to end in a thread, then acts *)
(*     on what it read;                                                    *)
(*   - ensure_pipeline_running of main.py, once per WebSocket that         *)
(*     connects, any number at once;                                       *)
(*   - the start and end handlers of routers/presence.py;                  *)
(*   - the handlers of routers/schedules.py that move a schedule to another*)
(*     room, or delete it, while its session runs.                         *)
(*                                                                         *)
(* All run on one event loop and interleave at their awaits: an action is  *)
(* what happens between two of them.  They share the sessions and the ended*)
(* set of PresenceService, and session_pipelines and frame_grabbers of     *)
(* app.state.  PresenceService's lock is never held across an await, so    *)
(* taking it never suspends.                                               *)
(***************************************************************************)
EXTENDS Integers, FiniteSets

CONSTANTS
    Schedules,
    Rooms,         \* rooms with a camera
    NoCamera,      \* any room without one
    RoomOf,        \* [Schedules -> Rooms], in the morning
    WindowStart,   \* [Schedules -> Nat]
    WindowEnd,     \* [Schedules -> Nat]
    StartGrace,    \* SESSION_START_GRACE_MINUTES
    Viewers,       \* bound: the WebSocket connections of the day
    Operators,     \* what is done by hand: any of "start", "end",
                   \* "move", "delete"
    StartMayFail,  \* whether SessionPipeline.start may raise
    Prompt,        \* assumption: no handler is in flight when a minute passes
    None,          \* no pipeline
    MaxTime,       \* bound: the clock stops here
    MaxPipes,      \* bound: pipelines created in a day
    MaxGrabbers    \* bound: grabbers created per room

ASSUME LifecycleAssumption ==
    /\ RoomOf \in [Schedules -> Rooms] /\ NoCamera \notin Rooms
    /\ WindowStart \in [Schedules -> Nat]
    /\ WindowEnd \in [Schedules -> Nat]
    /\ StartGrace \in Nat
    /\ Operators \subseteq {"start", "end", "move", "delete"}
    /\ StartMayFail \in BOOLEAN
    /\ Prompt \in BOOLEAN
    /\ None \notin Nat
    /\ MaxTime \in Nat /\ MaxPipes \in Nat /\ MaxGrabbers \in Nat \ {0}

VARIABLES
    now,
    active,    \* _active_sessions: "no", or "auto" / "manual" (auto_manage)
    ended,     \* _ended_sessions
    registry,  \* session_pipelines
    pipe,      \* every SessionPipeline ever created
    grabber,   \* frame_grabbers: the grabber of each room, 0 if none
    made,      \* grabbers created so far, per room
    job,       \* the lifecycle job
    viewer,    \* ensure_pipeline_running, per connection
    starter,   \* schedules whose start handler awaits start_session
    ender,     \* the end handler, per schedule
    place,     \* the room of each schedule
    deleted,   \* schedules that are no longer is_active
    mover      \* the handler that moved a schedule to a room without camera:
               \* the pipeline it stops

people == <<viewer, starter, ender, mover>>
table == <<place, deleted>>
vars == <<now, active, ended, registry, pipe, grabber, made, job, people, table>>

Pipes == 1..MaxPipes

\* "halted" is a pipeline that stopped itself; it stays where it was.
PipeState == {"none", "running", "halted", "stopping", "stopped"}
NoPipe == [state |-> "none", schedule |-> None, auto |-> FALSE,
           room |-> NoCamera, feed |-> 0]
JobIdle == [pc |-> "idle", to_start |-> {}, to_end |-> {}, current |-> None,
            stops |-> None, place |-> RoomOf]
ViewerIdle == [pc |-> "idle", schedule |-> None, room |-> NoCamera, feed |-> 0]
ViewerDone == [ViewerIdle EXCEPT !.pc = "done"]
EnderIdle == [pc |-> "idle", stops |-> None]

InWindow(s) == WindowStart[s] <= now /\ now <= WindowEnd[s]

-----------------------------------------------------------------------------
(* What the tasks are made of                                               *)

\* PresenceService.start_session when the session is not active.  Whether
\* the session will be ended automatically is decided here, once.
Open(s) ==
    active' = [active EXCEPT ![s] = IF InWindow(s) THEN "auto" ELSE "manual"]

\* PresenceService.end_session.
Close(s) ==
    /\ active' = [active EXCEPT ![s] = "no"]
    /\ ended' = IF active[s] = "no" THEN ended ELSE ended \cup {s}

\* Get or create the room's grabber.
EnsureGrabber(r) ==
    IF grabber[r] # 0
    THEN UNCHANGED <<grabber, made>>
    ELSE /\ made[r] < MaxGrabbers
         /\ made' = [made EXCEPT ![r] = @ + 1]
         /\ grabber' = [grabber EXCEPT ![r] = made[r] + 1]

\* Create a pipeline on a grabber, start it, and put it in the registry in
\* place of whatever is there.
Launch(s, r, feed) ==
    \/ \E p \in Pipes :
         /\ pipe[p].state = "none"
         /\ \A q \in Pipes : q < p => pipe[q].state # "none"
         /\ pipe' = [pipe EXCEPT ![p] =
              [state |-> "running", schedule |-> s, auto |-> InWindow(s),
               room |-> r, feed |-> feed]]
         /\ registry' = [registry EXCEPT ![s] = p]
    \/ StartMayFail /\ UNCHANGED <<pipe, registry>>

\* A room without a camera has no grabber, and the session no pipeline.
Attach(s, r) ==
    IF r = NoCamera
    THEN UNCHANGED <<grabber, made, pipe, registry>>
    ELSE EnsureGrabber(r) /\ Launch(s, r, grabber'[r])

\* SessionPipeline.stop up to its await, for the pipeline in the registry.
PopAndStop(s) ==
    /\ registry' = [registry EXCEPT ![s] = None]
    /\ pipe' = [pipe EXCEPT ![registry[s]].state = "stopping"]

-----------------------------------------------------------------------------
(* Time and the pipelines themselves                                        *)

AllIdle ==
    /\ job.pc = "idle"
    /\ \A v \in Viewers : viewer[v].pc \in {"idle", "done"}
    /\ starter = {}
    /\ \A s \in Schedules : ender[s].pc = "idle" /\ mover[s] = None

Tick ==
    /\ now < MaxTime
    /\ Prompt => AllIdle
    /\ now' = now + 1
    /\ UNCHANGED <<active, ended, registry, pipe, grabber, made, job, people, table>>

\* The loops of a pipeline leave within five seconds or are cancelled.
PipeStops ==
    /\ \E p \in Pipes :
         /\ pipe[p].state = "stopping"
         /\ pipe' = [pipe EXCEPT ![p].state = "stopped"]
    /\ UNCHANGED <<now, active, ended, registry, grabber, made, job, people, table>>

\* _should_self_stop.  Faulty variant: a pipeline that is not in the registry
\* does not look at the clock.
SelfStopRegistered ==
    /\ \E p \in Pipes :
         /\ pipe[p].state = "running" /\ pipe[p].auto
         /\ registry[pipe[p].schedule] = p
         /\ now > WindowEnd[pipe[p].schedule]
         /\ pipe' = [pipe EXCEPT ![p].state = "halted"]
    /\ UNCHANGED <<now, active, ended, registry, grabber, made, job, people, table>>

SelfStop ==
    /\ \E p \in Pipes :
         /\ pipe[p].state = "running" /\ pipe[p].auto
         /\ now > WindowEnd[pipe[p].schedule]
         /\ pipe' = [pipe EXCEPT ![p].state = "halted"]
    /\ UNCHANGED <<now, active, ended, registry, grabber, made, job, people, table>>

-----------------------------------------------------------------------------
(* The lifecycle job                                                        *)

ShouldStart(s) ==
    InWindow(s) /\ s \notin deleted \cup ended /\ active[s] = "no" /\ registry[s] = None

\* Faulty variants: every session is the job's to end; sessions whose
\* pipeline failed to start are forgotten.
ShouldEndAny(s) == active[s] # "no" /\ now > WindowEnd[s]
ShouldEndRunning(s) == active[s] = "auto" /\ now > WindowEnd[s] /\ registry[s] # None

ShouldEnd(s) == active[s] = "auto" /\ now > WindowEnd[s]

\* _gather_lifecycle_state.
JobGather ==
    /\ job.pc = "idle"
    /\ LET to_start == {s \in Schedules : ShouldStart(s)}
           to_end == {s \in Schedules : ShouldEnd(s)}
       IN  /\ to_start \cup to_end # {}
           /\ job' = [JobIdle EXCEPT !.pc = "work", !.to_start = to_start, !.to_end = to_end,
                                       !.place = place]
    /\ UNCHANGED <<now, active, ended, registry, pipe, grabber, made, people, table>>

\* Start one of them.  start_session awaits only if it opened the session;
\* otherwise the pipeline is attached at once.
JobStart ==
    /\ job.pc = "work"
    /\ \E s \in job.to_start :
         /\ IF active[s] = "no"
            THEN /\ Open(s)
                 /\ job' = [job EXCEPT !.pc = "attach", !.current = s, !.to_start = @ \ {s}]
                 /\ UNCHANGED <<registry, pipe, grabber, made>>
            ELSE /\ Attach(s, job.place[s])
                 /\ job' = [job EXCEPT !.to_start = @ \ {s}]
                 /\ UNCHANGED active
    /\ UNCHANGED <<now, ended, people, table>>

JobAttach ==
    /\ job.pc = "attach"
    /\ Attach(job.current, job.place[job.current])
    /\ job' = [job EXCEPT !.pc = "work", !.current = None]
    /\ UNCHANGED <<now, active, ended, people, table>>

\* End one of them: stop its pipeline, then close the session.
JobStop ==
    /\ job.pc = "work" /\ job.to_start = {}
    /\ \E s \in job.to_end :
         IF registry[s] # None
         THEN /\ PopAndStop(s)
              /\ job' = [job EXCEPT !.pc = "stopping", !.current = s,
                                    !.stops = registry[s], !.to_end = @ \ {s}]
              /\ UNCHANGED <<active, ended>>
         ELSE /\ Close(s)
              /\ job' = [job EXCEPT !.to_end = @ \ {s}]
              /\ UNCHANGED <<registry, pipe>>
    /\ UNCHANGED <<now, grabber, made, people, table>>

JobClose ==
    /\ job.pc = "stopping" /\ pipe[job.stops].state = "stopped"
    /\ Close(job.current)
    /\ job' = [job EXCEPT !.pc = "work", !.current = None, !.stops = None]
    /\ UNCHANGED <<now, registry, pipe, grabber, made, people, table>>

JobDone ==
    /\ job.pc = "work" /\ job.to_start = {} /\ job.to_end = {}
    /\ job' = JobIdle
    /\ UNCHANGED <<now, active, ended, registry, pipe, grabber, made, people, table>>

Job == JobGather \/ JobStart \/ JobAttach \/ JobStop \/ JobClose \/ JobDone

-----------------------------------------------------------------------------
(* ensure_pipeline_running                                                  *)

IsRunning(s) == registry[s] # None /\ pipe[registry[s]].state = "running"

ViewerConnects(v) ==
    /\ viewer[v].pc = "idle"
    /\ \E s \in Schedules :
         /\ ~IsRunning(s)
         /\ viewer' = [viewer EXCEPT ![v] = [ViewerIdle EXCEPT !.pc = "gather", !.schedule = s]]
    /\ UNCHANGED <<now, active, ended, registry, pipe, grabber, made, job, starter, ender, mover, table>>

ViewerGathers(v) ==
    /\ viewer[v].pc = "gather"
    /\ viewer' = [viewer EXCEPT ![v] =
         IF /\ InWindow(viewer[v].schedule) /\ viewer[v].schedule \notin ended
            /\ place[viewer[v].schedule] # NoCamera
         THEN [viewer[v] EXCEPT !.pc = "start", !.room = place[viewer[v].schedule]]
         ELSE ViewerDone]
    /\ UNCHANGED <<now, active, ended, registry, pipe, grabber, made, job, starter, ender, mover, table>>

ViewerStarts(v) ==
    /\ viewer[v].pc = "start"
    /\ LET s == viewer[v].schedule
           r == viewer[v].room
       IN  IF active[s] = "no"
           THEN /\ EnsureGrabber(r)
                /\ Open(s)
                /\ viewer' = [viewer EXCEPT ![v].pc = "attach", ![v].feed = grabber'[r]]
                /\ UNCHANGED <<registry, pipe>>
           ELSE /\ Attach(s, r)
                /\ viewer' = [viewer EXCEPT ![v] = ViewerDone]
                /\ UNCHANGED active
    /\ UNCHANGED <<now, ended, job, starter, ender, mover, table>>

\* The room was read and its grabber looked up before start_session was awaited.
ViewerAttaches(v) ==
    /\ viewer[v].pc = "attach"
    /\ Launch(viewer[v].schedule, viewer[v].room, viewer[v].feed)
    /\ viewer' = [viewer EXCEPT ![v] = ViewerDone]
    /\ UNCHANGED <<now, active, ended, grabber, made, job, starter, ender, mover, table>>

-----------------------------------------------------------------------------
(* The handlers of routers/presence.py                                      *)

\* _build_eligibility, for someone allowed to start the schedule.
Eligible(s) ==
    /\ WindowStart[s] - StartGrace <= now /\ now < WindowEnd[s]
    /\ s \notin deleted \cup ended

AttachIfMissing(s) ==
    IF registry[s] = None THEN Attach(s, place[s])
    ELSE /\ IF place[s] = NoCamera THEN UNCHANGED <<grabber, made>> ELSE EnsureGrabber(place[s])
         /\ UNCHANGED <<pipe, registry>>

\* The start handler.  A session that runs already is joined.
OperatorStarts(s) ==
    /\ "start" \in Operators /\ s \notin starter
    /\ \/ /\ active[s] = "no" /\ Eligible(s)
          /\ Open(s)
          /\ starter' = starter \cup {s}
          /\ UNCHANGED <<registry, pipe, grabber, made>>
       \/ /\ active[s] # "no"
          /\ AttachIfMissing(s)
          /\ UNCHANGED <<active, starter>>
    /\ UNCHANGED <<now, ended, job, viewer, ender, mover, table>>

OperatorAttaches(s) ==
    /\ s \in starter
    /\ AttachIfMissing(s)
    /\ starter' = starter \ {s}
    /\ UNCHANGED <<now, active, ended, job, viewer, ender, mover, table>>

\* The end handler closes the session before it stops the pipeline.
OperatorEnds(s) ==
    /\ "end" \in Operators
    /\ active[s] # "no" /\ ender[s].pc = "idle"
    /\ Close(s)
    /\ ender' = [ender EXCEPT ![s].pc = "stop"]
    /\ UNCHANGED <<now, registry, pipe, grabber, made, job, viewer, starter, mover, table>>

\* The room's grabber is stopped and forgotten.
DropGrabber(r) == grabber' = [x \in Rooms |-> IF x = r THEN 0 ELSE grabber[x]]

OperatorStops(s) ==
    /\ ender[s].pc = "stop"
    /\ IF registry[s] # None
       THEN /\ PopAndStop(s)
            /\ ender' = [ender EXCEPT ![s] = [pc |-> "drop", stops |-> registry[s]]]
            /\ UNCHANGED grabber
       ELSE /\ DropGrabber(place[s])
            /\ ender' = [ender EXCEPT ![s] = EnderIdle]
            /\ UNCHANGED <<registry, pipe>>
    /\ UNCHANGED <<now, active, ended, made, job, viewer, starter, mover, table>>

OperatorDrops(s) ==
    /\ ender[s].pc = "drop" /\ pipe[ender[s].stops].state = "stopped"
    /\ DropGrabber(place[s])
    /\ ender' = [ender EXCEPT ![s] = EnderIdle]
    /\ UNCHANGED <<now, active, ended, registry, pipe, made, job, viewer, starter, mover, table>>

-----------------------------------------------------------------------------
(* The handlers of routers/schedules.py                                     *)

\* update_schedule with a new room_id, up to its first await.  A running
\* pipeline is given the grabber of the new room; if that has no camera it is
\* told to stop, and the handler waits for it.
MoveSchedule(s, r) ==
    /\ "move" \in Operators /\ mover[s] = None
    /\ r # place[s]
    /\ place' = [place EXCEPT ![s] = r]
    /\ IF ~IsRunning(s)
       THEN UNCHANGED <<pipe, grabber, made, mover>>
       ELSE IF r = NoCamera
       THEN /\ pipe' = [pipe EXCEPT ![registry[s]].state = "stopping"]
            /\ mover' = [mover EXCEPT ![s] = registry[s]]
            /\ UNCHANGED <<grabber, made>>
       ELSE /\ EnsureGrabber(r)
            /\ pipe' = [pipe EXCEPT ![registry[s]].room = r,
                                    ![registry[s]].feed = grabber'[r]]
            /\ UNCHANGED mover
    /\ UNCHANGED <<now, active, ended, registry, job, viewer, starter, ender, deleted>>

\* The rest of it for a room without camera: whatever pipeline the registry
\* has by now is forgotten, and the session closed.
MoveEnds(s) ==
    /\ mover[s] # None /\ pipe[mover[s]].state = "stopped"
    /\ registry' = [registry EXCEPT ![s] = None]
    /\ Close(s)
    /\ mover' = [mover EXCEPT ![s] = None]
    /\ UNCHANGED <<now, pipe, grabber, made, job, viewer, starter, ender, table>>

\* delete_schedule: is_active becomes false, and nothing else.
DeleteSchedule(s) ==
    /\ "delete" \in Operators
    /\ s \notin deleted
    /\ deleted' = deleted \cup {s}
    /\ UNCHANGED <<now, active, ended, registry, pipe, grabber, made, job, people, place>>

-----------------------------------------------------------------------------
(* The day                                                                  *)

Init ==
    /\ now = 0
    /\ active = [s \in Schedules |-> "no"]
    /\ ended = {}
    /\ registry = [s \in Schedules |-> None]
    /\ pipe = [p \in Pipes |-> NoPipe]
    /\ grabber = [r \in Rooms |-> 1]     \* preloaded at boot
    /\ made = [r \in Rooms |-> 1]
    /\ job = JobIdle
    /\ viewer = [v \in Viewers |-> ViewerIdle]
    /\ starter = {}
    /\ ender = [s \in Schedules |-> EnderIdle]
    /\ place = RoomOf
    /\ deleted = {}
    /\ mover = [s \in Schedules |-> None]

Next ==
    \/ Tick
    \/ PipeStops
    \/ SelfStop
    \/ Job
    \/ \E v \in Viewers :
         ViewerConnects(v) \/ ViewerGathers(v) \/ ViewerStarts(v) \/ ViewerAttaches(v)
    \/ \E s \in Schedules :
         \/ OperatorStarts(s) \/ OperatorAttaches(s)
         \/ OperatorEnds(s) \/ OperatorStops(s) \/ OperatorDrops(s)
         \/ \E r \in Rooms \cup {NoCamera} : MoveSchedule(s, r)
         \/ MoveEnds(s) \/ DeleteSchedule(s)

Spec == Init /\ [][Next]_vars

\* Time passes; the job is run again and again; what the event loop has
\* begun it finishes; every pipeline looks at the clock in each iteration or,
\* once told to stop, is cancelled after five seconds.  That viewers connect
\* or operators act is not assumed.
FairSpec ==
    /\ Spec
    /\ WF_vars(Tick) /\ WF_vars(Job) /\ WF_vars(PipeStops) /\ WF_vars(SelfStop)
    /\ \A v \in Viewers :
          WF_vars(ViewerGathers(v) \/ ViewerStarts(v) \/ ViewerAttaches(v))
    /\ \A s \in Schedules :
          WF_vars(OperatorAttaches(s)) /\ WF_vars(OperatorStops(s) \/ OperatorDrops(s))
          /\ WF_vars(MoveEnds(s))

-----------------------------------------------------------------------------
(* Properties                                                               *)

\* Types of the shared registries and of the tasks.
TypeOK ==
    /\ now \in 0..MaxTime
    /\ active \in [Schedules -> {"no", "auto", "manual"}]
    /\ ended \subseteq Schedules
    /\ registry \in [Schedules -> Pipes \cup {None}]
    /\ pipe \in [Pipes -> [state : PipeState, schedule : Schedules \cup {None},
                         auto : BOOLEAN, room : Rooms \cup {NoCamera}, feed : 0..MaxGrabbers]]
    /\ grabber \in [Rooms -> 0..MaxGrabbers]
    /\ made \in [Rooms -> 0..MaxGrabbers]
    /\ job \in [pc : {"idle", "work", "attach", "stopping"},
               to_start : SUBSET Schedules, to_end : SUBSET Schedules,
               current : Schedules \cup {None}, stops : Pipes \cup {None},
               place : [Schedules -> Rooms \cup {NoCamera}]]
    /\ viewer \in [Viewers -> [pc : {"idle", "gather", "start", "attach", "done"},
                             schedule : Schedules \cup {None},
                             room : Rooms \cup {NoCamera}, feed : 0..MaxGrabbers]]
    /\ starter \subseteq Schedules
    /\ ender \in [Schedules -> [pc : {"idle", "stop", "drop"}, stops : Pipes \cup {None}]]
    /\ place \in [Schedules -> Rooms \cup {NoCamera}]
    /\ deleted \subseteq Schedules
    /\ mover \in [Schedules -> Pipes \cup {None}]

Running(p) == pipe[p].state = "running"

\* What nobody ends by hand is ended only if it was started inside its
\* window and that window is over, although the job decides in a thread and
\* acts, schedule after schedule, up to several stops later.
AutomaticEndJustified ==
    [][\A s \in Schedules :
          active[s] # "no" /\ active'[s] = "no"
               /\ ender'[s] = ender[s] /\ mover'[s] = mover[s] =>
              active[s] = "auto" /\ now > WindowEnd[s]]_vars

\* No zombie: a session started inside its window does not outlive it for
\* good, whether or not its pipeline ever started, stopped itself, or was
\* replaced.
AutoSessionsEnd == \A s \in Schedules : active[s] = "auto" ~> active[s] = "no"

\* A pipeline of a session begun inside its window that is left running with
\* no session behind it, by connections racing each other or the job, by an
\* end during its creation, or by a move that drops what the registry holds,
\* stops all the same, in the registry or not.  The pipeline of a session
\* begun by hand in the grace minutes before is not automatic and never
\* stops itself.
StrayPipelinesStop ==
    \A p \in Pipes :
        Running(p) /\ pipe[p].auto /\ active[pipe[p].schedule] = "no" ~> ~Running(p)

\* A session that ended today is not started again today.
EndedStaysEnded == \A s \in ended : active[s] = "no"

\* One presence service, hence one running pipeline, per session.
OnePipelinePerSchedule ==
    \A p, q \in Pipes :
        Running(p) /\ Running(q) /\ pipe[p].schedule = pipe[q].schedule => p = q

\* A running pipeline reads a grabber that is alive.
FeedIsAlive ==
    \A p \in Pipes : Running(p) => grabber[pipe[p].room] = pipe[p].feed

=============================================================================
