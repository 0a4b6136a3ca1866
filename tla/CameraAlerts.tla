----------------------------- MODULE CameraAlerts -----------------------------
(* A FrameGrabber and the administrators who are told of its camera: the   *)
(* threads post the reports that the event loop handles.                   *)
EXTENDS FrameGrabber

CONSTANTS Admins, MaxFanouts
VARIABLES health, grace, fanouts, told, failed

Bell == INSTANCE HealthNotifier
bellOnly == <<health, grace, fanouts, told, failed>>
cameraVars == <<grabberVars, bellOnly>>

CameraTypeOK == GrabberTypeOK /\ Bell!BellTypeOK
CameraInit == GrabberInit /\ Bell!BellInit
CameraNext ==
    \/ GrabberNext /\ UNCHANGED bellOnly
    \/ Bell!BellNext /\ UNCHANGED <<published, ffmpeg, threads, frame, frames_read, failures, offline>>

CameraSpec == CameraInit /\ [][CameraNext]_cameraVars /\ GrabberFairness /\ Bell!BellFairness

AnnouncedIsTold == Bell!AnnouncedIsTold

(* An outage the media server reports after the boot grace reaches every   *)
(* administrator, through two threads, the loop and the fan-out, unless a  *)
(* delivery raises.                                                        *)
OutageAnnounced ==
    [](stderr = "recorded" /\ ~grace =>
         <>(failed \/ \A a \in Admins : FALSE \in told[a]))

(* Not so: the bell ends up with the camera's state.  A camera refused in  *)
(* the boot grace is never announced: the report is dropped, and the flag  *)
(* in the grabber keeps it from being posted again.                        *)
OfflineSettles ==
    <>[](~published /\ ~grace /\ stop = "no" /\ ffmpeg # "stalled") =>
        <>[](health = <<FALSE>>)

=============================================================================
