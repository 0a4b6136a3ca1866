--------------------------- MODULE MCLiveAttendance ---------------------------
(* Instances of LiveAttendance, and with it of TrackPresence, for TLC.       *)
EXTENDS LiveAttendance, TLC

=============================================================================
