----------------------------- MODULE MCRosterSync -----------------------------
(* RosterSync with two users, a room and a schedule; keys are numbers.     *)
EXTENDS RosterSync
CONSTANTS e, f, g, n

=============================================================================
