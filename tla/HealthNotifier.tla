---------------------------- MODULE HealthNotifier ----------------------------
(***************************************************************************)
(* health_notifier for one resource, on the event loop: the reports posted *)
(* from other threads are handled in order, and a change of state is told  *)
(* to every administrator.  notify() awaits a push after each, so that the *)
(* fan-outs of two changes interleave.                                     *)
(***************************************************************************)
EXTENDS Sequences, SequencesExt

CONSTANTS
    Admins,
    MaxFanouts      \* bound: notify_admins running at a time

VARIABLES
    reports,    \* posted to the loop: is_healthy
    health,     \* _states: what was last announced, <<>> before
    grace,      \* within _BOOT_GRACE_SECONDS of the start
    fanouts,    \* running notify_admins: [up, left]
    told,       \* per administrator, the types of notification row so far
    failed      \* history: a delivery raised
bellVars == <<reports, health, grace, fanouts, told, failed>>

BellTypeOK ==
    /\ health \in {<<>>, <<TRUE>>, <<FALSE>>}
    /\ grace \in BOOLEAN /\ failed \in BOOLEAN
    /\ fanouts \in Seq([up : BOOLEAN, left : SUBSET Admins])
    /\ told \in [Admins -> SUBSET BOOLEAN]

BellInit ==
    /\ health = <<>> /\ grace = TRUE /\ fanouts = <<>> /\ failed = FALSE
    /\ told = [a \in Admins |-> {}]

GraceEnds ==
    /\ grace /\ grace' = FALSE
    /\ UNCHANGED <<reports, health, fanouts, told, failed>>

(* report_health, up to the first delivery: the state changes before       *)
(* anybody is told.  The first time a resource is up counts as a recovery. *)
\* Faulty variant: reports in the grace period are remembered.
NewHealthAlways(up) == <<up>>
NewHealth(up) == IF grace THEN health ELSE <<up>>

ReportHealth ==
    /\ reports # <<>> /\ Len(fanouts) < MaxFanouts
    /\ reports' = Tail(reports)
    /\ health' = NewHealth(Head(reports))
    /\ fanouts' = IF grace \/ health = <<Head(reports)>> THEN fanouts
                  ELSE Append(fanouts, [up |-> Head(reports), left |-> Admins])
    /\ UNCHANGED <<grace, told, failed>>

(* notify for one administrator: a row of the same type and resource made  *)
(* within the dedup window stands for this one.                            *)
After(i, left) ==
    IF left = {} THEN RemoveAt(fanouts, i) ELSE [fanouts EXCEPT ![i].left = left]
Notify ==
    \E i \in DOMAIN fanouts : \E a \in fanouts[i].left :
        /\ told' = [told EXCEPT ![a] = @ \cup {fanouts[i].up}]
        /\ fanouts' = After(i, fanouts[i].left \ {a})
        /\ UNCHANGED <<reports, health, grace, failed>>

(* It raises when the preferences cannot be read: nobody else is told.     *)
NotifyFails ==
    /\ \E i \in DOMAIN fanouts : fanouts' = RemoveAt(fanouts, i)
    /\ failed' = TRUE
    /\ UNCHANGED <<reports, health, grace, told>>

BellFairness == SF_bellVars(ReportHealth) /\ WF_bellVars(Notify)
BellNext == GraceEnds \/ ReportHealth \/ Notify \/ NotifyFails

---------------------------------------------------------------------------
(* Once nothing is in flight every administrator has a row for the state   *)
(* that was last announced, however the fan-outs interleaved: a state is   *)
(* only taken for announced when it is told.                               *)
AnnouncedIsTold ==
    fanouts = <<>> /\ ~failed =>
        \A a \in Admins : health # <<>> => health[1] \in told[a]

=============================================================================
