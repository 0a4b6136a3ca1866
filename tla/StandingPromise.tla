--------------------------- MODULE StandingPromise ---------------------------
(***************************************************************************)
(* What continuous presence tracking promises a class, without timestamps: *)
(* every student has a standing, a student out of view runs down a         *)
(* stopwatch, the stopwatch stands still while the camera is known to be   *)
(* offline, and a student leaves early exactly when a frame finds the      *)
(* stopwatch beyond the limit.                                             *)
(***************************************************************************)
EXTENDS Integers

CONSTANTS
    Students,
    Off,      \* no integer: the reading of a stopwatch that is not running
    Limits    \* the early-leave limits an operator may configure

VARIABLES
    standing,   \* per student: "out", "in", "left" or "back"
    stopwatch,  \* per student: undetected time that counts, or Off
    frozen,     \* the camera is known to be offline
    limit,      \* the early-leave limit
    closed      \* the session has ended

vars == <<standing, stopwatch, frozen, limit, closed>>

InClass == {"in", "back"}

Init ==
    /\ standing = [s \in Students |-> "out"]
    /\ stopwatch = [s \in Students |-> Off]
    /\ frozen = FALSE
    /\ limit \in Limits
    /\ closed = FALSE

\* A unit of time passes; a frozen stopwatch does not count it.
Elapse ==
    /\ ~closed
    /\ stopwatch' = [s \in Students |->
                       IF stopwatch[s] = Off \/ frozen THEN stopwatch[s]
                       ELSE stopwatch[s] + 1]
    /\ UNCHANGED <<standing, frozen, limit, closed>>

\* The camera is found offline.
Freeze ==
    /\ ~closed
    /\ frozen' = TRUE
    /\ UNCHANGED <<standing, stopwatch, limit, closed>>

SetLimit ==
    /\ ~closed
    /\ limit' \in Limits
    /\ UNCHANGED <<standing, stopwatch, frozen, closed>>

Overdue(s) ==
    /\ standing[s] \in InClass
    /\ stopwatch[s] # Off
    /\ stopwatch[s] > limit

\* A frame in which the students of "visible" are recognised.
Look(visible) ==
    /\ ~closed
    /\ standing' = [s \in Students |->
         IF s \in visible
         THEN CASE standing[s] = "out"  -> "in"
                [] standing[s] = "left" -> "back"
                [] OTHER -> standing[s]
         ELSE IF Overdue(s) THEN "left" ELSE standing[s]]
    /\ stopwatch' = [s \in Students |->
         IF s \in visible \/ standing[s] \notin InClass \/ Overdue(s) THEN Off
         ELSE IF stopwatch[s] = Off THEN 0 ELSE stopwatch[s]]
    /\ frozen' = FALSE
    /\ UNCHANGED <<limit, closed>>

Close ==
    /\ ~closed
    /\ closed' = TRUE
    /\ UNCHANGED <<standing, stopwatch, frozen, limit>>

Next ==
    \/ Elapse
    \/ Freeze
    \/ SetLimit
    \/ \E visible \in SUBSET Students : Look(visible)
    \/ Close

Spec == Init /\ [][Next]_vars

=============================================================================
