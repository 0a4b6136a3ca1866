----------------------------- MODULE MCNotices ------------------------------
(* An instance of Notices for TLC: one student of two classes.              *)
EXTENDS Notices, TLC

CONSTANTS s1, s2, c, d

MCEnrolled == Students \X Schedules

=============================================================================
