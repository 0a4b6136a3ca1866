------------------------- MODULE MCSessionLifecycle -------------------------
(* Instances of SessionLifecycle for TLC.  The day of one schedule, and that *)
(* of two schedules back to back in one room, whose windows share a minute.  *)
EXTENDS SessionLifecycle, TLC

CONSTANTS a, b, room, other, v1, v2

OneRoom == [s \in Schedules |-> room]
MCWindowStart == [s \in Schedules |-> 1]
MCWindowEnd == [s \in Schedules |-> IF s = a THEN 1 ELSE 2]

=============================================================================
