---------------------------- MODULE LiveAttendance ----------------------------
(***************************************************************************)
(* What is shown live of a session: the pipeline broadcasts a summary to   *)
(* the viewers of its schedule and tells each student what happened to     *)
(* them (services/realtime_pipeline.py), through the WebSocket manager and *)
(* its Redis subscriber (routers/websocket.py).                            *)
(*                                                                         *)
(* One main loop: it sends what a frame gave rise to, the summary first,   *)
(* before it does anything else; connections come and go at any await.     *)
(* Events on the schedule's channel and the stream status change nothing   *)
(* that a viewer keeps.                                                    *)
(***************************************************************************)
EXTENDS TrackPresence, Sequences

CONSTANTS
    Window,    \* _ATTENDANCE_EVENT_DEDUP_WINDOW_SECONDS
    MaxEcho    \* bound: messages on their way through Redis

\* Sixty seconds; the timeout of a schedule is at least a minute.
ASSUME LiveAssumption ==
    /\ Window \in Nat \ {0}
    /\ \A t \in Timeouts : Window <= t
    /\ MaxEcho \in Nat

VARIABLES
    outbox,    \* what the main loop has yet to send
    watching,  \* a viewer is in _attendance_clients
    board,     \* the last summary it got, NULL if none
    hears,     \* students in _alert_clients
    told,      \* the status each was last told, NULL if none
    sent,      \* _ATTENDANCE_EVENT_DEDUP: when, for student and event
    echo       \* published on Redis, not yet back at the subscriber

liveVars == <<outbox, watching, board, hears, told, sent, echo>>

\* get_attendance_summary: every student is in one bucket.
Bucket(m) ==
    IF Away(m) THEN "early_leave"
    ELSE IF m.early_leave_flagged THEN "early_leave_returned"
    ELSE m.status

Summary == [s \in known |-> Bucket(mem[s])]

\* A summary goes out with every frame that changed something, before its events.
SummaryDue == <<"summary", NULL>>

\* Faulty variant: one entry per student, whatever happened to them.
KeyOfStudent(event) == <<event[2]>>

\* One attendance row per student, so it adds nothing to the key.
KeyOf(event) == event

Keys == {KeyOf(e) : e \in EventKind \X Students}

\* The status an event carries.
Payload(event) == IF event[1] = "early_leave" THEN "early_leave" ELSE mem[event[2]].status

\* origin_pid: a message of this worker has been delivered already.
FromElsewhere(message) == FALSE

\* broadcast_attendance, as far as a viewer keeps what it is sent.
ToViewers(message) == IF watching THEN message ELSE board

\* broadcast_alert: whoever is connected gets it.
ToStudent(s, status) == IF s \in hears THEN [told EXCEPT ![s] = status] ELSE told

LiveInit ==
    /\ Init
    /\ outbox = {}
    /\ watching = FALSE
    /\ board = NULL
    /\ hears = {}
    /\ told = [s \in Students |-> NULL]
    /\ sent = [k \in Keys |-> NULL]
    /\ echo = <<>>

\* Anything the presence service does, when the loop is not busy sending.  An
\* entry that is older than the window is as good as none.
ServiceStep ==
    /\ outbox = {}
    /\ Next
    /\ outbox' = IF events' = {} THEN {} ELSE events' \cup {SummaryDue}
    /\ sent' = [k \in Keys |->
                  IF sent[k] # NULL /\ now' - sent[k] >= Window THEN NULL ELSE sent[k]]
    /\ UNCHANGED <<watching, board, hears, told, echo>>

\* _broadcast_attendance_summary, after a change or because two seconds passed.
Summarise ==
    /\ phase = "running"
    /\ outbox = {} \/ SummaryDue \in outbox
    /\ outbox' = outbox \ {SummaryDue}
    /\ board' = ToViewers(Summary)
    /\ UNCHANGED <<vars, watching, hears, told, sent, echo>>

\* _redis_publish_alert: what Redis does not take is lost.
Publish(message) ==
    \/ Len(echo) < MaxEcho /\ echo' = Append(echo, message)
    \/ echo' = echo

\* _broadcast_student_attendance_event, for the next event: to the student,
\* unless the same was sent within the window.
TellStudent ==
    /\ SummaryDue \notin outbox
    /\ \E e \in outbox :
         /\ outbox' = outbox \ {e}
         /\ \/ /\ sent[KeyOf(e)] # NULL
               /\ UNCHANGED <<told, sent, echo>>
            \/ /\ sent[KeyOf(e)] = NULL
               /\ sent' = [sent EXCEPT ![KeyOf(e)] = now]
               /\ told' = ToStudent(e[2], Payload(e))
               /\ Publish(<<e[2], Payload(e)>>)
    /\ UNCHANGED <<vars, watching, board, hears>>

\* _redis_subscribe_loop takes a message.
Subscriber ==
    /\ echo # <<>>
    /\ told' = IF FromElsewhere(Head(echo))
               THEN ToStudent(Head(echo)[1], Head(echo)[2])
               ELSE told
    /\ echo' = Tail(echo)
    /\ UNCHANGED <<vars, outbox, watching, board, hears, sent>>

\* attendance_websocket: a viewer connects, and gets a summary if a pipeline runs.
Watch ==
    /\ ~watching
    /\ watching' = TRUE
    /\ board' = IF phase = "running" THEN Summary ELSE NULL
    /\ UNCHANGED <<vars, outbox, hears, told, sent, echo>>

\* It goes away, or a send to it fails.
Unwatch ==
    /\ watching
    /\ watching' = FALSE
    /\ board' = NULL
    /\ UNCHANGED <<vars, outbox, hears, told, sent, echo>>

\* alerts_websocket and general_websocket, for the student's own account.
Listen ==
    /\ \E s \in Students \ hears : hears' = hears \cup {s}
    /\ UNCHANGED <<vars, outbox, watching, board, told, sent, echo>>

Hangup ==
    /\ \E s \in hears : hears' = hears \ {s} /\ told' = [told EXCEPT ![s] = NULL]
    /\ UNCHANGED <<vars, outbox, watching, board, sent, echo>>

LiveNext ==
    \/ ServiceStep \/ Summarise \/ TellStudent \/ Subscriber
    \/ Watch \/ Unwatch \/ Listen \/ Hangup

LiveSpec == LiveInit /\ [][LiveNext]_<<vars, liveVars>>

-----------------------------------------------------------------------------
(* Properties                                                               *)

\* No commit failing, whoever watches is not misled: once the loop has sent
\* what a frame gave rise to, the board of a viewer is the state in memory and
\* the last word to a student is the status of their row, whenever they
\* connected, however often they left and came back within the window of
\* deduplication, and whatever Redis returns late.
LiveFollowsRow ==
    outbox = {} =>
        /\ watching /\ board # NULL => board = Summary
        /\ \A s \in hears : told[s] \in {NULL, rec[s].status}

=============================================================================
