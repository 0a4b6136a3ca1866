----------------------------- MODULE FrameReports -----------------------------
(***************************************************************************)
(* What the main loop of a session does with a frame besides presence: it  *)
(* shows it to the viewers, logs a recognition, an unknown face or a spoof *)
(* once per track, alerts the teacher and the administrators, and goes on  *)
(* when an administrator moves the session to another room                 *)
(* (services/realtime_pipeline.py).  Track ids start again with a camera.  *)
(*                                                                         *)
(* An iteration is one step: nothing between the tracker's answer and the  *)
(* presence service depends on another actor but the change of camera,     *)
(* which may come while the tracker works on a frame of the old one.  The  *)
(* back-row loop reports nothing but presence.                             *)
(***************************************************************************)
EXTENDS TrackPresence, Bags

CONSTANTS
    TrackIds,     \* bound: ids in use at a time
    EnableRedis,  \* ENABLE_REDIS
    MaxSwaps      \* bound: changes of camera in a session

ASSUME ReportsAssumption == EnableRedis \in BOOLEAN /\ MaxSwaps \in Nat

VARIABLES
    room,                 \* room_id, by how often it changed
    unknown_emitted,      \* _unknown_emitted
    spoof_emitted,        \* _spoof_emitted
    recognized_captured,  \* _recognized_captured
    logged,               \* history: entries handed to the activity log, of this camera
    called_for,           \* history: those its frames call for
    alerted,              \* reference ids of the alerts of the last hour
    overtaken             \* history: a frame was in hand at a change of camera

ledgers == <<unknown_emitted, spoof_emitted, recognized_captured>>
reportVars == <<room, ledgers, logged, called_for, alerted, overtaken>>

-----------------------------------------------------------------------------
(* What the tracker says of a track                                         *)

\* _derive_recognition_state: overdue is a track visible for too long without
\* a name, rejected one whose best score stayed low over enough searches.
RecognitionState(named, overdue, rejected) ==
    CASE named -> "recognized"
      [] ~named /\ (overdue \/ rejected) -> "unknown"
      [] OTHER -> "warming_up"

\* _get_display_identity: a name that flaps is not shown for a while.  Nothing
\* ever fills held_user_id, so no name is held.
Displayed(user, flapping, overdue, rejected) ==
    IF flapping THEN [user |-> NULL, state |-> "warming_up"]
    ELSE [user |-> user, state |-> RecognitionState(user # NULL, overdue, rejected)]

\* One row of a frame.  A track that is not detected is painted under a name
\* or not at all.
TrackResults ==
    {[user |-> d.user, state |-> d.state, spoof |-> spoof, is_active |-> active] :
        d \in {Displayed(user, flapping, overdue, rejected) :
                  user \in Students \cup {NULL},
                  flapping, overdue, rejected \in BOOLEAN},
        spoof \in BOOLEAN, active \in BOOLEAN}

\* _broadcast_frame_update shows what the tracker returns: no two rows under
\* one name, and rows without one may be left out.
Frames ==
    {f \in UNION {[T -> TrackResults] : T \in SUBSET TrackIds} :
        /\ \A t \in DOMAIN f : f[t].is_active \/ f[t].state = "recognized"
        /\ \A s, t \in DOMAIN f : s # t /\ f[s].user # NULL => f[s].user # f[t].user}

RecognisedIn(f) == {f[t].user : t \in DOMAIN f} \ {NULL}

-----------------------------------------------------------------------------
(* What is reported, per track                                              *)

Unknown(f) == {t \in DOMAIN f : f[t].state = "unknown"}
Spoofed(f) == {t \in DOMAIN f : f[t].spoof}

\* _capture_newly_recognized_crops, where the log entry rides on the picture
\* for Redis: without Redis there is neither.
Captured(f) ==
    IF EnableRedis
    THEN {<<f[t].user, t>> : t \in {x \in DOMAIN f : f[x].state = "recognized" /\ f[x].is_active}}
    ELSE {}

\* What _emit_recognition_match, _emit_recognition_miss and _emit_spoof_attempt
\* hand to the log; a commit that fails is swallowed there.
MatchEntries(pairs) == {"match"} \X pairs
MissEntries(tracks) == {"miss"} \X tracks
SpoofEntries(tracks) == {"spoof"} \X tracks

\* The reference ids of _notify_unknown_person_detected, one per room, and of
\* _notify_spoof_attempt, one per track id whatever the camera.
UnknownAlerts(tracks) == {<<"unknown", room'>> : t \in tracks}
SpoofAlerts(tracks) == {"spoof"} \X tracks

\* Faulty variant: the ledgers outlive the camera.
ClearedNever(ledger) == ledger
Cleared(ledger) == {}

\* swap_camera between two frames, or during one that then fails: the tracker
\* forgets everything, and so do the ledgers.
SwapCamera ==
    /\ phase = "running" /\ room < MaxSwaps
    /\ room' = room + 1
    /\ logged' = EmptyBag /\ called_for' = {}
    /\ unknown_emitted' = Cleared(unknown_emitted)
    /\ spoof_emitted' = Cleared(spoof_emitted)
    /\ recognized_captured' = Cleared(recognized_captured)
    /\ UNCHANGED <<vars, alerted, overtaken>>

\* The reports on a frame, given the ledgers as the loop finds them.
Report(f, missed, spoofed, captured) ==
    LET match == Captured(f) \ captured
        miss == Unknown(f) \ missed
        spoof == Spoofed(f) \ spoofed
        before == IF room' = room THEN logged ELSE EmptyBag IN
    /\ unknown_emitted' = missed \cup miss
    /\ spoof_emitted' = spoofed \cup spoof
    /\ recognized_captured' = captured \cup match
    /\ logged' = before (+) SetToBag(MatchEntries(match) \cup MissEntries(miss) \cup SpoofEntries(spoof))
    /\ called_for' = (IF room' = room THEN called_for ELSE {})
                        \cup MatchEntries(Captured(f)) \cup MissEntries(Unknown(f)) \cup SpoofEntries(Spoofed(f))
    /\ alerted' = alerted \cup UnknownAlerts(miss) \cup SpoofAlerts(spoof)

\* One iteration of _run_loop on a frame.
Iterate ==
    /\ phase = "running"
    /\ \E f \in Frames :
         /\ process_track_frame(RecognisedIn(f))
         /\ \/ /\ room' = room
               /\ Report(f, unknown_emitted, spoof_emitted, recognized_captured)
               /\ UNCHANGED overtaken
            \* The camera changed while the tracker had the frame.
            \/ /\ room < MaxSwaps /\ room' = room + 1
               /\ Report(f, Cleared(unknown_emitted), Cleared(spoof_emitted),
                         Cleared(recognized_captured))
               /\ overtaken' = TRUE

-----------------------------------------------------------------------------

ReportsInit ==
    /\ Init
    /\ room = 0
    /\ unknown_emitted = {} /\ spoof_emitted = {} /\ recognized_captured = {}
    /\ logged = EmptyBag /\ called_for = {}
    /\ alerted = {}
    /\ overtaken = FALSE

\* What else happens to the session.
Elsewhere ==
    /\ \/ start_session
       \/ /\ phase = "running"
          /\ \/ Tick
             \/ pause_absence_tracking
             \/ \E seconds \in Timeouts : set_early_leave_timeout(seconds)
             \/ flush_presence_logs
             \/ end_session
    /\ UNCHANGED reportVars

ReportsNext == Iterate \/ SwapCamera \/ Elsewhere

ReportsSpec == ReportsInit /\ [][ReportsNext]_<<vars, reportVars>>

-----------------------------------------------------------------------------
(* Properties                                                               *)

\* Over any change of camera, each recognition, unknown face and spoof that
\* the current camera's frames showed is handed to the activity log exactly
\* once per track, and where an unknown face is logged the teacher has been
\* alerted for the room.  The exception is a session in which the camera
\* changed while the tracker had a frame: the ids of that frame stay in the
\* ledgers that were just cleared, and the faces that get them are passed over.
LogFollowsScreen ==
    ~overtaken =>
        /\ logged = SetToBag(called_for)
        /\ unknown_emitted # {} => <<"unknown", room>> \in alerted

\* Said by swap_camera ("clears its way out cleanly", realtime_pipeline.py:545)
\* and not so: without the exception.
SwapIsClean == logged = SetToBag(called_for)

=============================================================================
