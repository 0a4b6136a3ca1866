--------------------------- MODULE SessionPipeline ---------------------------
(***************************************************************************)
(* SessionPipeline (backend/app/services/realtime_pipeline.py): the two    *)
(* asyncio loops that feed one class session's presence service.  The main *)
(* loop reads the room's wide camera every frame interval; the back-row    *)
(* loop reads a second, cropped stream on its own slow cadence.  Both call *)
(* process_track_frame on the same TrackPresenceService under one lock;    *)
(* pause_absence_tracking is called by the main loop alone.                *)
(*                                                                         *)
(* One tick of the clock is one frame interval of the main loop, which may *)
(* be late when recognition is slow but never runs twice in a tick.        *)
(***************************************************************************)
EXTENDS TrackPresence

CONSTANTS
    PauseAfter,     \* frameless iterations after which tracking is paused
    FlushInterval,  \* PRESENCE_FLUSH_INTERVAL
    WindowEnd,      \* the end of the schedule's window
    AutoManaged,    \* the session started inside its window
    Backrow         \* a back-row stream is configured for the room

ASSUME PipelineAssumption ==
    /\ PauseAfter \in Nat \ {0}
    /\ FlushInterval \in Nat
    /\ WindowEnd \in Nat
    /\ AutoManaged \in BOOLEAN
    /\ Backrow \in BOOLEAN

VARIABLES
    camera_up,        \* the wide camera delivers fresh frames
    main,             \* the main loop is about to: "grab", "apply", "flush", "sleep", "done"
    consecutive_none, \* iterations in a row without a frame
    last_flush,       \* _last_flush
    backrow,          \* the back-row loop: "none", or about to: "grab", "apply", "done"
    stop_event,       \* _stop_event
    stopping          \* calls of stop() that wait for the loops

loopVars == <<camera_up, main, consecutive_none, last_flush, backrow, stop_event, stopping>>
pipelineVars == <<vars, loopVars>>

PipelineInit ==
    /\ Init
    /\ camera_up \in BOOLEAN
    /\ main = "done"
    /\ consecutive_none = 0
    /\ last_flush = 0
    /\ backrow = "none"
    /\ stop_event = FALSE
    /\ stopping = 0

\* start(): the presence service is loaded, then the loops are created.  The
\* start handler of routers/presence.py passes no back-row grabber even where
\* a stream is configured; the two automatic starts do.
start ==
    /\ start_session
    /\ main' = "grab"
    /\ backrow' \in {"none"} \cup (IF Backrow THEN {"grab"} ELSE {})
    /\ last_flush' = now
    /\ UNCHANGED <<camera_up, consecutive_none, stop_event, stopping>>

\* External: the camera, its relay or the network goes away or comes back.
CameraChanges ==
    /\ phase = "running"
    /\ camera_up' = ~camera_up
    /\ UNCHANGED <<vars, main, consecutive_none, last_flush, backrow, stop_event, stopping>>

\* Time passes while the main loop sleeps or awaits recognition, or once it
\* is over.
PipelineTick ==
    /\ phase = "running" \/ stopping > 0
    /\ main \in {"sleep", "apply", "done"}
    /\ Tick
    /\ main' = IF main = "sleep" THEN "grab" ELSE main
    /\ UNCHANGED <<camera_up, consecutive_none, last_flush, backrow, stop_event, stopping>>

-----------------------------------------------------------------------------
(* The main loop                                                            *)

LoopExits ==
    /\ main = "grab" /\ stop_event
    /\ main' = "done"
    /\ UNCHANGED <<vars, camera_up, consecutive_none, last_flush, backrow, stop_event, stopping>>

GrabFrame ==
    /\ main = "grab" /\ ~stop_event /\ camera_up
    /\ consecutive_none' = 0
    /\ main' = "apply"
    /\ UNCHANGED <<vars, camera_up, last_flush, backrow, stop_event, stopping>>

\* Faulty variant: one iteration late.
PauseDueLate(n) == n = PauseAfter + 1

\* The pause is called on the iteration that reaches the count, not on the
\* later ones.
PauseDue(n) == n = PauseAfter

GrabNothing ==
    /\ main = "grab" /\ ~stop_event /\ ~camera_up
    /\ consecutive_none' = consecutive_none + 1
    /\ main' = "flush"
    /\ IF PauseDue(consecutive_none')
       THEN pause_absence_tracking
       ELSE UNCHANGED vars
    /\ UNCHANGED <<camera_up, last_flush, backrow, stop_event, stopping>>

ApplyFrame ==
    /\ main = "apply"
    /\ Frame
    /\ main' = "flush"
    /\ UNCHANGED <<camera_up, consecutive_none, last_flush, backrow, stop_event, stopping>>

\* Recognition raises (the ML sidecar is down): the frame is dropped, the
\* exception logged, and presence is neither updated nor paused.
DropFrame ==
    /\ main = "apply"
    /\ main' = "flush"
    /\ UNCHANGED <<vars, camera_up, consecutive_none, last_flush, backrow, stop_event, stopping>>

\* _should_self_stop.
ShouldSelfStop == AutoManaged /\ now > WindowEnd

\* The tail of an iteration: the periodic flush, then the self-stop guard.
EndOfIteration ==
    /\ main = "flush"
    /\ IF now - last_flush >= FlushInterval
       THEN flush_presence_logs /\ last_flush' = now
       ELSE UNCHANGED <<vars, last_flush>>
    /\ IF ShouldSelfStop
       THEN stop_event' = TRUE /\ main' = "done"
       ELSE UNCHANGED stop_event /\ main' = "sleep"
    /\ UNCHANGED <<camera_up, consecutive_none, backrow, stopping>>

-----------------------------------------------------------------------------
(* The back-row loop                                                        *)

BackrowGrab ==
    /\ backrow = "grab"
    /\ backrow' = IF stop_event THEN "done" ELSE "apply"
    /\ UNCHANGED <<vars, camera_up, main, consecutive_none, last_flush, stop_event, stopping>>

BackrowApply ==
    /\ backrow = "apply"
    /\ Frame
    /\ backrow' = "grab"
    /\ UNCHANGED <<camera_up, main, consecutive_none, last_flush, stop_event, stopping>>

BackrowDrop ==
    /\ backrow = "apply"
    /\ backrow' = "grab"
    /\ UNCHANGED <<vars, camera_up, main, consecutive_none, last_flush, stop_event, stopping>>

-----------------------------------------------------------------------------
(* stop()                                                                   *)

\* A room swap to a room without a camera leaves the pipeline in the registry
\* while it awaits stop(), where the lifecycle job or an operator finds it: up
\* to two calls wait at once.
RequestStop ==
    /\ phase = "running" /\ stopping < 2
    /\ stop_event' = TRUE
    /\ stopping' = stopping + 1
    /\ UNCHANGED <<vars, camera_up, main, consecutive_none, last_flush, backrow>>

\* Faulty variant: wait without a timeout.
CancelNothing == stopping > 0 /\ FALSE /\ UNCHANGED pipelineVars

\* A loop that does not leave within five seconds is cancelled at its await.
CancelLoops ==
    /\ stopping > 0
    /\ \/ main \in {"apply", "flush", "sleep"} /\ main' = "done" /\ UNCHANGED backrow
       \/ main = "done" /\ backrow = "apply" /\ backrow' = "done" /\ UNCHANGED main
    /\ UNCHANGED <<vars, camera_up, consecutive_none, last_flush, stop_event, stopping>>

\* Faulty variant of the test below: only the main loop is waited for.
MainLoopOver == main = "done"

LoopsOver == main = "done" /\ backrow \in {"none", "done"}

\* Each call closes the session, the second one a closed session.
FinishStop ==
    /\ stopping > 0 /\ LoopsOver
    /\ end_session
    /\ stopping' = stopping - 1
    /\ UNCHANGED <<camera_up, main, consecutive_none, last_flush, backrow, stop_event>>

SetTimeout == \E seconds \in Timeouts :
    /\ phase = "running"
    /\ set_early_leave_timeout(seconds)
    /\ UNCHANGED loopVars

PipelineNext ==
    \/ start
    \/ CameraChanges
    \/ PipelineTick
    \/ LoopExits \/ GrabFrame \/ GrabNothing \/ ApplyFrame \/ DropFrame \/ EndOfIteration
    \/ BackrowGrab \/ BackrowApply \/ BackrowDrop
    \/ RequestStop \/ CancelLoops \/ FinishStop
    \/ SetTimeout

PipelineSpec == PipelineInit /\ [][PipelineNext]_pipelineVars

-----------------------------------------------------------------------------
(* Properties                                                               *)

\* "Camera downtime does NOT count as student absence": once the main loop
\* has gone PauseAfter iterations without a frame, no absence stopwatch
\* advances and nobody is marked as having left, until a frame comes back.
Outage == phase = "running" /\ consecutive_none >= PauseAfter

NoAbsenceCounted ==
    \A s \in Students :
        /\ Away(mem'[s]) => Away(mem[s])
        /\ StopwatchOf(mem[s]) # NULL /\ StopwatchOf(mem[s])' # NULL =>
             StopwatchOf(mem[s])' <= StopwatchOf(mem[s])

DowntimeNotAbsence == [][Outage /\ Outage' => NoAbsenceCounted]_pipelineVars

\* The same, of a pipeline that has no back-row loop: the pause on the one
\* iteration that reaches the count is enough, through stop() and flushes.
WideDowntimeNotAbsence ==
    [][Outage /\ Outage' /\ backrow = "none" => NoAbsenceCounted]_pipelineVars

\* However the two loops, the operator and the callers of stop() interleave,
\* once the session is closed nothing touches its memory or its rows: no frame,
\* pause or flush of a loop left over, nor a second stop().
ClosedForGood ==
    [][phase = "ended" => UNCHANGED <<phase, memoryVars, databaseVars>>]_pipelineVars

\* stop() always closes the session, even when recognition hangs: what the
\* event loop schedules is fair, the recognition of a frame is not.
FairPipeline ==
    /\ PipelineSpec
    /\ WF_pipelineVars(LoopExits)
    /\ WF_pipelineVars(EndOfIteration)
    /\ WF_pipelineVars(BackrowGrab)
    /\ WF_pipelineVars(CancelLoops)
    /\ WF_pipelineVars(FinishStop)

StopCloses == stopping > 0 ~> phase = "ended"

=============================================================================
