---------------------------- MODULE MCFrameReports ----------------------------
(* Instances of FrameReports for TLC: the cfg file chooses the student and   *)
(* whether commits fail.                                                     *)
EXTENDS FrameReports, TLC

=============================================================================
