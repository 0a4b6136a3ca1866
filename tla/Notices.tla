------------------------------ MODULE Notices -------------------------------
(* The nightly jobs of services/notification_jobs.py that warn of low       *)
(* attendance and of anomalies and that prune old notices, with the notify  *)
(* they call and what users do to their notices and preferences meanwhile.  *)
(* Time is counted in days.  Of the notices only the warnings of students   *)
(* are kept, the ones a later step looks for; two with the same fields are  *)
(* one.  Teachers are one user.                                             *)
EXTENDS Naturals, FiniteSets

CONSTANTS
    Students, Schedules,
    Enrolled,       \* pairs <<student, schedule>>
    Teacher,
    Kinds,          \* of anomalies: EARLY_LEAVE_PATTERN, SUDDEN_DROP
    RenotifyDays,   \* LOW_ATTENDANCE_RENOTIFY_DAYS
    RetentionDays,  \* NOTIFICATION_RETENTION_DAYS
    None,
    MaxFaults       \* bound on failing statements and deaths of the gateway

ASSUME NoticesAssumption ==
    /\ Enrolled \subseteq Students \X Schedules
    /\ Teacher \notin Students /\ Schedules \cap Kinds = {}
    /\ RenotifyDays \in Nat \ {0} /\ RetentionDays \in Nat /\ RenotifyDays <= RetentionDays
    /\ MaxFaults \in Nat
    /\ None \notin Enrolled \cup (Enrolled \X Kinds)

VARIABLES
    low,        \* pairs below their threshold in the rolling window
    wants,      \* users who have the preference for these notices on
    rows,       \* the students' warnings
    anomalies,  \* unresolved attendance_anomalies
    due,        \* jobs the scheduler has still to run today
    work,       \* the job under way, with its database session
    faults,
    since,      \* history: days since a student's last warning toast
    lost,       \* history: students whose last warning left no row, or who deleted it
    heard,      \* history: anomalies announced, or kept from a teacher who wants none
    missed      \* history: anomalies the gateway died on before announcing them

env == <<low, wants>>
history == <<since, lost, heard, missed>>
vars == <<low, wants, rows, anomalies, due, work, faults, since, lost, heard, missed>>

Users == Students \cup {Teacher}
\* The hours of the jobs.
Hour == [cleanup |-> 3, low_attendance |-> 19, anomaly |-> 20]
Jobs == DOMAIN Hour
Found == Enrolled \X Kinds
Row == [student : Students, age : 0..(RetentionDays + 1), read : BOOLEAN]
Idle == [job |-> "none", todo |-> {}, current |-> None, poisoned |-> FALSE]

-----------------------------------------------------------------------------
(* The database session of a job                                            *)

\* What becomes of an insertion: it stands; it fails in the flush, which
\* leaves the session unusable until a rollback nobody calls; it fails in the
\* commit; or the row is there and reading it back fails.
Outcomes ==
    IF faults < MaxFaults THEN {"stands", "flush_fails", "commit_fails", "refresh_fails"}
                          ELSE {"stands"}
Stored(o) == o \in {"stands", "refresh_fails"}
Blame(o) == faults' = faults + (IF o = "stands" THEN 0 ELSE 1)

\* An item is over; the session goes on as it is or is poisoned now.
Over(i, poison) ==
    work' = [work EXCEPT !.todo = @ \ {i}, !.current = None, !.poisoned = @ \/ poison]

IsNext(job) == work = Idle /\ job \in due /\ \A j \in due : Hour[job] <= Hour[j]

\* One job is over before the hour of the next one.
Begin(job, items) ==
    /\ IsNext(job)
    /\ work' = [Idle EXCEPT !.job = job, !.todo = items]
    /\ UNCHANGED <<env, rows, anomalies, due, faults, history>>

Finish ==
    /\ work.job # "none" /\ work.todo = {}
    /\ work' = Idle
    /\ due' = due \ {work.job}
    /\ UNCHANGED <<env, rows, anomalies, faults, history>>

\* A query raises; the transaction is aborted and never rolled back.
QueryFails(i) ==
    /\ i \in work.todo /\ work.current = None /\ ~work.poisoned
    /\ faults < MaxFaults /\ faults' = faults + 1
    /\ Over(i, TRUE)
    /\ UNCHANGED <<env, rows, anomalies, due, history>>

\* Every query on a poisoned session raises, and the item is given up.
Skip(i) ==
    /\ i \in work.todo /\ work.current = None /\ work.poisoned
    /\ Over(i, FALSE)
    /\ UNCHANGED <<env, rows, anomalies, due, faults, history>>

-----------------------------------------------------------------------------
(* run_low_attendance_check                                                 *)

BeginLow == Begin("low_attendance", Enrolled)

\* The job looks back from its start, to the second: whether a warning of
\* exactly RenotifyDays ago is recent depends on when in that run it was made.
RecentEver(r, early) == TRUE
Recent(r, early) == r.age < RenotifyDays \/ (r.age = RenotifyDays /\ ~early)

Warnable(p, early) ==
    /\ p \in low
    /\ ~\E r \in rows : r.student = p[1] /\ Recent(r, early)

NothingToWarn(p) ==
    /\ work.job = "low_attendance" /\ p \in work.todo /\ work.current = None /\ ~work.poisoned
    /\ \E early \in BOOLEAN : ~Warnable(p, early)
    /\ Over(p, FALSE)
    /\ UNCHANGED <<env, rows, anomalies, due, faults, history>>

\* notify for the student: the row may fail, the toast goes out all the same.
WarnStudent(p) ==
    /\ work.job = "low_attendance" /\ p \in work.todo /\ work.current = None /\ ~work.poisoned
    /\ \E early \in BOOLEAN : Warnable(p, early)
    /\ IF p[1] \in wants
       THEN \E o \in Outcomes :
              /\ rows' = rows \cup
                    (IF Stored(o) THEN {[student |-> p[1], age |-> 0, read |-> FALSE]} ELSE {})
              /\ lost' = IF Stored(o) THEN lost \ {p[1]} ELSE lost \cup {p[1]}
              /\ since' = [since EXCEPT ![p[1]] = 0]
              /\ work' = [work EXCEPT !.current = p, !.poisoned = (o = "flush_fails")]
              /\ Blame(o)
       ELSE /\ work' = [work EXCEPT !.current = p]
            /\ UNCHANGED <<rows, lost, since, faults>>
    /\ UNCHANGED <<env, anomalies, due, heard, missed>>

\* notify for the teacher, whose preference is read on the same session.
TellTeacher(p) ==
    /\ work.job = "low_attendance" /\ work.current = p
    /\ IF work.poisoned \/ Teacher \notin wants
       THEN Over(p, FALSE) /\ UNCHANGED faults
       ELSE \E o \in Outcomes : Over(p, o = "flush_fails") /\ Blame(o)
    /\ UNCHANGED <<env, rows, anomalies, due, history>>

-----------------------------------------------------------------------------
(* run_anomaly_detection                                                    *)

BeginAnomaly == Begin("anomaly", Found)

\* The figures show nothing, or the anomaly is on record and unresolved.
NoAnomaly(a) ==
    /\ work.job = "anomaly" /\ a \in work.todo /\ work.current = None /\ ~work.poisoned
    /\ Over(a, FALSE)
    /\ UNCHANGED <<env, rows, anomalies, due, faults, history>>

UsableAlways == TRUE
Usable == ~work.poisoned

\* The anomaly is committed before anybody is told of it.
RecordAnomaly(a) ==
    /\ work.job = "anomaly" /\ a \in work.todo \ anomalies /\ work.current = None
    /\ Usable
    /\ \E o \in Outcomes \ {"refresh_fails"} :
         /\ IF o = "stands"
            THEN /\ anomalies' = anomalies \cup {a}
                 /\ work' = [work EXCEPT !.current = a]
            ELSE /\ Over(a, o = "flush_fails")
                 /\ UNCHANGED anomalies
         /\ Blame(o)
    /\ UNCHANGED <<env, rows, due, history>>

\* The teacher first, then the administrators, on the session of the job.
AnnounceAnomaly(a) ==
    /\ work.job = "anomaly" /\ work.current = a
    /\ heard' = IF work.poisoned THEN heard ELSE heard \cup {a}
    /\ IF work.poisoned \/ Teacher \notin wants
       THEN Over(a, FALSE) /\ UNCHANGED faults
       ELSE \E o \in Outcomes : Over(a, o = "flush_fails") /\ Blame(o)
    /\ UNCHANGED <<env, rows, anomalies, due, since, lost, missed>>

\* Somebody resolves it; the pattern may be found again the next day.
ResolveAnomaly(a) ==
    /\ a \in anomalies /\ work.current # a
    /\ anomalies' = anomalies \ {a}
    /\ heard' = heard \ {a}
    /\ missed' = missed \ {a}
    /\ UNCHANGED <<env, rows, due, work, faults, since, lost>>

-----------------------------------------------------------------------------
(* run_notification_cleanup, the users, the days                            *)

ExpiredRead(r) == r.read /\ r.age > 0
Expired(r) == r.read /\ r.age > RetentionDays

Cleanup ==
    /\ IsNext("cleanup")
    /\ \/ rows' = {r \in rows : ~Expired(r)} /\ UNCHANGED faults
       \/ faults < MaxFaults /\ faults' = faults + 1 /\ UNCHANGED rows
    /\ due' = due \ {"cleanup"}
    /\ UNCHANGED <<env, anomalies, work, history>>

ReadNotices(R) ==
    /\ \E r \in R : ~r.read
    /\ rows' = (rows \ R) \cup {[r EXCEPT !.read = TRUE] : r \in R}
    /\ UNCHANGED <<env, anomalies, due, work, faults, history>>

DeleteNotices(R) ==
    /\ R # {}
    /\ rows' = rows \ R
    /\ lost' = lost \cup {r.student : r \in R}
    /\ UNCHANGED <<env, anomalies, due, work, faults, since, heard, missed>>

mark_read == \E r \in rows : ReadNotices({r})
mark_all_read == \E s \in Students : ReadNotices({r \in rows : r.student = s})
delete_notification == \E r \in rows : DeleteNotices({r})
delete_all_notifications == \E s \in Students : DeleteNotices({r \in rows : r.student = s})

update_preferences(u) ==
    /\ wants' = IF u \in wants THEN wants \ {u} ELSE wants \cup {u}
    /\ UNCHANGED <<low, rows, anomalies, due, work, faults, history>>

\* The gateway dies: the job it was on, or one whose hour passes before it
\* is back, is not run again that day.
Crash ==
    /\ faults < MaxFaults /\ faults' = faults + 1
    /\ \E j \in due :
         /\ IF work = Idle THEN IsNext(j) ELSE j = work.job
         /\ due' = due \ {j}
    /\ work' = Idle
    /\ missed' = missed \cup ({work.current} \cap anomalies)
    /\ UNCHANGED <<env, rows, anomalies, since, lost, heard>>

Older(n, limit) == IF n < limit THEN n + 1 ELSE limit

NewDay ==
    /\ due = {} /\ work = Idle
    /\ due' = Jobs
    /\ low' \in SUBSET Enrolled
    /\ rows' = {[r EXCEPT !.age = Older(@, RetentionDays + 1)] : r \in rows}
    /\ since' = [s \in Students |-> Older(since[s], RenotifyDays)]
    /\ UNCHANGED <<wants, anomalies, work, faults, lost, heard, missed>>

Init ==
    /\ low \in SUBSET Enrolled
    /\ wants = Users
    /\ rows = {}
    /\ anomalies = {}
    /\ due = Jobs
    /\ work = Idle
    /\ faults = 0
    /\ since = [s \in Students |-> RenotifyDays]
    /\ lost = {}
    /\ heard = {}
    /\ missed = {}

LowStep(p) ==
    Skip(p) \/ NothingToWarn(p) \/ WarnStudent(p) \/ TellTeacher(p)
AnomalyStep(a) ==
    Skip(a) \/ NoAnomaly(a) \/ RecordAnomaly(a) \/ AnnounceAnomaly(a)

JobStep ==
    \/ BeginLow \/ BeginAnomaly \/ Cleanup \/ Finish
    \/ \E p \in Enrolled : LowStep(p)
    \/ \E a \in Found : AnomalyStep(a)

UserStep ==
    \/ mark_read \/ mark_all_read \/ delete_notification \/ delete_all_notifications
    \/ \E u \in Users : update_preferences(u)
    \/ \E a \in Found : ResolveAnomaly(a)

Next ==
    \/ JobStep
    \/ UserStep
    \/ \E i \in Enrolled \cup Found : QueryFails(i)
    \/ Crash
    \/ NewDay

Spec == Init /\ [][Next]_vars

\* The days go on and the scheduler runs its jobs.
FairSpec == Spec /\ WF_vars(JobStep) /\ WF_vars(NewDay)

-----------------------------------------------------------------------------
(* Properties                                                               *)

\* Types of the tables, of the job under way and of the history.
TypeOK ==
    /\ low \subseteq Enrolled
    /\ wants \subseteq Users
    /\ rows \subseteq Row
    /\ anomalies \subseteq Found /\ heard \subseteq Found /\ missed \subseteq Found
    /\ due \subseteq Jobs
    /\ work \in [job : Jobs \cup {"none"}, todo : SUBSET (Enrolled \cup Found),
                 current : Enrolled \cup Found \cup {None}, poisoned : BOOLEAN]
    /\ faults \in 0..MaxFaults
    /\ since \in [Students -> 0..RenotifyDays]
    /\ lost \subseteq Students

\* A student is not warned twice within RenotifyDays
\* (LOW_ATTENDANCE_RENOTIFY_DAYS), however many subjects are low and whatever
\* the clean-up removes: only where the first warning left no row or its
\* owner deleted it.
NotNagged ==
    [][\A p \in Enrolled :
          since[p[1]] < RenotifyDays /\ work.current # p /\ work'.current = p /\ p[1] \in wants
              /\ work.job = "low_attendance" => p[1] \in lost]_vars

\* A student who stays low and wants to know is warned again and again,
\* although a failing insertion spoils the rest of a night's job and old
\* warnings are kept for as long as they are unread.
StillWarned ==
    \A s \in Students :
        <>[](s \in wants /\ \E p \in low : p[1] = s) => []<>(since[s] = 0)

\* An unresolved anomaly, which no later night announces, has been announced,
\* is about to be, or the gateway died at that moment: a failing statement
\* never leaves one on record that nobody heard of.
NoSilentAnomaly == anomalies \ {work.current} \subseteq heard \cup missed

=============================================================================
