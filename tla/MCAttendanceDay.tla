--------------------------- MODULE MCAttendanceDay ---------------------------
(* Instances of AttendanceDay and of the reports on it for TLC: the cfg      *)
(* chooses who is enrolled, how often the gateway restarts and what a        *)
(* teacher may write.                                                        *)
EXTENDS AttendanceReports, TLC

=============================================================================
