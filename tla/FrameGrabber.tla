----------------------------- MODULE FrameGrabber -----------------------------
(***************************************************************************)
(* FrameGrabber: one camera, one FFmpeg.  A daemon thread drains its       *)
(* output, another its stderr, the pipeline calls grab_with_pts() from the *)
(* event loop, and stop() comes from there too.  Both the drain thread and *)
(* grab replace an FFmpeg that died or went silent.                        *)
(***************************************************************************)
EXTENDS Naturals, Sequences

CONSTANTS
    WarmupFrames,   \* frames discarded at the start of the drain thread
    MaxFailures,    \* bound: where consecutive_failures stops counting
    MaxReports      \* bound: health reports the event loop is behind with

ASSUME GrabberAssumption ==
    /\ WarmupFrames \in Nat
    /\ {MaxFailures, MaxReports} \subseteq Nat \ {0}

VARIABLES
    published,  \* external: the media server has a publisher for the camera
    ffmpeg,     \* external: what the process behind _process does
    stderr,     \* the stderr threads: a 404 unread, read, or recorded
    drain,      \* the drain thread
    grab,       \* the caller of grab_with_pts()
    stop,       \* stop()
    lock,       \* who holds _lock across steps
    frame,      \* _latest_frame
    frames_read,
    failures,   \* _consecutive_failures
    offline,    \* _publisher_offline_logged
    reports     \* is_healthy of the reports posted to the event loop
threads == <<stderr, drain, grab, stop, lock>>
grabberVars == <<published, ffmpeg, threads, frame, frames_read, failures, offline, reports>>

Running == {"opening", "streaming", "stalled"}

GrabberTypeOK ==
    /\ published \in BOOLEAN
    /\ ffmpeg \in Running \cup {"exited", "none"}
    /\ stderr \in {"quiet", "line", "recorded"}
    /\ drain \in {"check", "read", "publish", "recovery", "backoff", "lock", "kill", "start", "ended"}
    /\ grab \in {"idle", "close", "start"}
    /\ stop \in {"no", "join", "kill", "done"}
    /\ lock \in {"free", "drain", "grab"}
    /\ frame \in {"none", "fresh", "served", "stale"}
    /\ frames_read \in 0..WarmupFrames
    /\ failures \in 0..MaxFailures
    /\ offline \in BOOLEAN
    /\ reports \in Seq(BOOLEAN)

GrabberInit ==
    /\ published \in BOOLEAN
    /\ ffmpeg = "opening"
    /\ stderr = "quiet" /\ drain = "check" /\ grab = "idle" /\ stop = "no"
    /\ lock = "free"
    /\ frame = "none" /\ frames_read = 0 /\ failures = 0 /\ offline = FALSE
    /\ reports = <<>>

\* Faulty variant: only the last report is kept.
PostLatest(up) == reports' = <<up>>

Post(up) ==
    /\ Len(reports) < MaxReports
    /\ reports' = Append(reports, up)

---------------------------------------------------------------------------
(* The camera and its FFmpeg, which run by themselves.                     *)
PublisherChanges ==
    /\ published' = ~published
    /\ UNCHANGED <<ffmpeg, threads, frame, frames_read, failures, offline, reports>>

FFmpegOpens ==
    /\ ffmpeg = "opening" /\ published
    /\ ffmpeg' = "streaming"
    /\ UNCHANGED <<published, threads, frame, frames_read, failures, offline, reports>>

(* The next 404 is at least the shortest backoff away: by then the last one*)
(* has been dealt with.                                                    *)
FFmpegRefused ==
    /\ ffmpeg = "opening" /\ ~published
    /\ ffmpeg' = "exited"
    /\ stderr = "quiet" /\ stderr' = "line"
    /\ UNCHANGED <<published, drain, grab, stop, lock, frame, frames_read, failures, offline, reports>>

FFmpegDies ==
    /\ ffmpeg \in Running /\ ffmpeg' = "exited"
    /\ UNCHANGED <<published, threads, frame, frames_read, failures, offline, reports>>

FFmpegStalls ==
    /\ ffmpeg \in {"opening", "streaming"} /\ ffmpeg' = "stalled"
    /\ UNCHANGED <<published, threads, frame, frames_read, failures, offline, reports>>

FFmpegResumes ==
    /\ ffmpeg = "stalled" /\ published /\ ffmpeg' = "streaming"
    /\ UNCHANGED <<published, threads, frame, frames_read, failures, offline, reports>>

(* A publisher gone takes the stream with it, some time.                   *)
FFmpegEnds == ~published /\ ffmpeg = "streaming" /\ FFmpegDies

---------------------------------------------------------------------------
(* _drain_stderr: the first 404 of an outage is recorded in the activity   *)
(* log, a commit away from the report to the administrators.               *)
StderrReads ==
    /\ stderr = "line"
    /\ stderr' = IF offline THEN "quiet" ELSE "recorded"
    /\ offline' = TRUE
    /\ UNCHANGED <<published, ffmpeg, drain, grab, stop, lock, frame, frames_read, failures, reports>>

StderrReports ==
    /\ stderr = "recorded" /\ stderr' = "quiet"
    /\ Post(FALSE)
    /\ UNCHANGED <<published, ffmpeg, drain, grab, stop, lock, frame, frames_read, failures, offline>>

---------------------------------------------------------------------------
(* _drain_loop.                                                            *)
Fails ==
    /\ failures' = IF failures < MaxFailures THEN failures + 1 ELSE failures
    /\ drain' = "backoff"

DrainChecks ==
    /\ drain = "check"
    /\ CASE stop # "no" -> drain' = "ended" /\ UNCHANGED failures
         [] stop = "no" /\ ffmpeg \in Running -> drain' = "read" /\ UNCHANGED failures
         [] OTHER -> Fails
    /\ UNCHANGED <<published, ffmpeg, stderr, grab, stop, lock, frame, frames_read, offline, reports>>

(* _read_exactly returns a frame, or nothing at the end of the output.     *)
WarmingUp == frames_read < WarmupFrames

DrainReads ==
    /\ drain = "read" /\ ffmpeg = "streaming"
    /\ IF WarmingUp
       THEN frames_read' = frames_read + 1 /\ drain' = "check"
       ELSE /\ UNCHANGED frames_read
            /\ drain' = IF failures > 0 \/ offline THEN "recovery" ELSE "publish"
    /\ UNCHANGED <<published, ffmpeg, stderr, grab, stop, lock, frame, failures, offline, reports>>

DrainReadsEnd ==
    /\ drain = "read" /\ ffmpeg \in {"exited", "none"}
    /\ Fails
    /\ UNCHANGED <<published, ffmpeg, stderr, grab, stop, lock, frame, frames_read, offline, reports>>

DrainRecovers ==
    /\ drain = "recovery" /\ drain' = "publish"
    /\ failures' = 0 /\ offline' = FALSE
    /\ Post(TRUE)
    /\ UNCHANGED <<published, ffmpeg, stderr, grab, stop, lock, frame, frames_read>>

DrainPublishes ==
    /\ drain = "publish" /\ lock = "free"
    /\ frame' = "fresh" /\ drain' = "check"
    /\ UNCHANGED <<published, ffmpeg, stderr, grab, stop, lock, frames_read, failures, offline, reports>>

\* Faulty variant: after the wait the same process is read again.
DrainWaitsOnly ==
    /\ drain = "backoff" /\ drain' = "check"
    /\ UNCHANGED <<published, ffmpeg, stderr, grab, stop, lock, frame, frames_read, failures, offline, reports>>

DrainWaits ==
    /\ drain = "backoff"
    /\ drain' = IF stop = "no" THEN "lock" ELSE "check"
    /\ UNCHANGED <<published, ffmpeg, stderr, grab, stop, lock, frame, frames_read, failures, offline, reports>>

(* _reconnect, under the lock: kill what there is, then start a new one.   *)
\* Faulty variant: the lock is not waited for.
DrainLocksAnyway ==
    /\ drain = "lock" /\ drain' = "kill" /\ lock' = "drain"
    /\ UNCHANGED <<published, ffmpeg, stderr, grab, stop, frame, frames_read, failures, offline, reports>>

DrainLocks ==
    /\ drain = "lock" /\ lock = "free"
    /\ drain' = "kill" /\ lock' = "drain"
    /\ UNCHANGED <<published, ffmpeg, stderr, grab, stop, frame, frames_read, failures, offline, reports>>

DrainKills ==
    /\ drain = "kill" /\ drain' = "start"
    /\ ffmpeg' = "none"
    /\ UNCHANGED <<published, stderr, grab, stop, lock, frame, frames_read, failures, offline, reports>>

DrainStarts ==
    /\ drain = "start" /\ drain' = "check"
    /\ ffmpeg' = "opening" /\ lock' = "free"
    /\ UNCHANGED <<published, stderr, grab, stop, frame, frames_read, failures, offline, reports>>

---------------------------------------------------------------------------
(* grab_with_pts, with dedup_repeats.  A frame ages past stale_timeout     *)
(* only while the drain thread waits, for output or before a retry.        *)
FrameAges ==
    /\ frame \in {"fresh", "served"} /\ frame' = "stale"
    /\ drain \in {"backoff", "lock"} \/ (drain = "read" /\ ffmpeg # "streaming")
    /\ UNCHANGED <<published, ffmpeg, threads, frames_read, failures, offline, reports>>

GrabServes ==
    /\ stop = "no" /\ lock = "free"
    /\ frame = "fresh" /\ frame' = "served"
    /\ UNCHANGED <<published, ffmpeg, threads, frames_read, failures, offline, reports>>

GrabFindsStale ==
    /\ stop = "no" /\ lock = "free"
    /\ frame = "stale" /\ frame' = "none"
    /\ grab' = "close" /\ lock' = "grab"
    /\ UNCHANGED <<published, ffmpeg, stderr, drain, stop, frames_read, failures, offline, reports>>

(* stdout.close() comes before terminate(), and waits for the read another *)
(* thread has begun.                                                       *)
GrabKills ==
    /\ grab = "close" /\ drain # "read"
    /\ grab' = "start" /\ ffmpeg' = "none"
    /\ UNCHANGED <<published, stderr, drain, stop, lock, frame, frames_read, failures, offline, reports>>

GrabStarts ==
    /\ grab = "start" /\ grab' = "idle"
    /\ ffmpeg' = "opening" /\ lock' = "free"
    /\ UNCHANGED <<published, stderr, drain, stop, frame, frames_read, failures, offline, reports>>

---------------------------------------------------------------------------
(* stop(): called once the pipeline has ended; the join gives up after 3 s *)
(* when the drain thread is held up.                                       *)
StopBegins ==
    /\ stop = "no" /\ grab = "idle" /\ stop' = "join"
    /\ UNCHANGED <<published, ffmpeg, stderr, drain, grab, lock, frame, frames_read, failures, offline, reports>>

StopJoins ==
    /\ stop = "join" /\ stop' = "kill"
    /\ drain \notin {"check", "publish", "backoff"}
    /\ UNCHANGED <<published, ffmpeg, stderr, drain, grab, lock, frame, frames_read, failures, offline, reports>>

StopKills ==
    /\ stop = "kill" /\ drain # "read" /\ stop' = "done"
    /\ ffmpeg' = "none"
    /\ UNCHANGED <<published, stderr, drain, grab, lock, frame, frames_read, failures, offline, reports>>

Drain ==
    \/ DrainChecks \/ DrainReads \/ DrainReadsEnd \/ DrainRecovers \/ DrainPublishes
    \/ DrainWaits \/ DrainLocks \/ DrainKills \/ DrainStarts
Stderr == StderrReads \/ StderrReports
Grab == GrabServes \/ GrabFindsStale \/ GrabKills \/ GrabStarts
Stop == StopBegins \/ StopJoins \/ StopKills
FFmpeg == FFmpegOpens \/ FFmpegRefused \/ FFmpegDies \/ FFmpegStalls \/ FFmpegResumes
GrabberNext == PublisherChanges \/ FFmpeg \/ Drain \/ Stderr \/ FrameAges \/ Grab \/ Stop

(* Threads run and what is begun goes on; an FFmpeg either opens its stream*)
(* or gives up, but nothing makes a stalled one go on and nobody need grab.*)
GrabberFairness ==
    /\ WF_grabberVars(Drain) /\ SF_grabberVars(Stderr)
    /\ WF_grabberVars(GrabKills \/ GrabStarts) /\ WF_grabberVars(StopJoins \/ StopKills)
    /\ WF_grabberVars(FFmpegOpens \/ FFmpegRefused) /\ WF_grabberVars(FFmpegEnds)

GrabberSpec == GrabberInit /\ [][GrabberNext]_grabberVars /\ GrabberFairness

---------------------------------------------------------------------------
(* Frames come again, whatever happened before: once the camera publishes  *)
(* for good and no FFmpeg stalls or dies any more, new frames keep being   *)
(* published, whoever was killing which FFmpeg at the time.                *)
Up == published /\ stop = "no" /\ ffmpeg # "stalled"
FramesResume ==
    <>[]Up /\ <>[][~(FFmpegDies \/ FFmpegStalls)]_grabberVars => []<>(frame = "fresh")

(* None is forgotten alive: until stop(), no FFmpeg is started while the   *)
(* last one runs, though two threads decide to replace it on their own.    *)
NoneForgotten ==
    [][stop = "no" /\ (DrainStarts \/ GrabStarts) => ffmpeg \notin Running]_grabberVars

(* Said by the source and not so: grab() "returns instantly" (line 7) and  *)
(* a stale stream is reconnected (line 17).                                *)
GrabReturns == grab # "idle" ~> grab = "idle"

(* After stop() no FFmpeg is left running ("release FFmpeg", line 403).    *)
NoneLeftRunning == stop = "done" => ffmpeg \notin Running

=============================================================================
