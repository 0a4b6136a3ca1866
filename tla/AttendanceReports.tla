-------------------------- MODULE AttendanceReports --------------------------
(***************************************************************************)
(* What the gateway answers about the day of AttendanceDay: the dashboards,*)
(* summaries, histories, exports and alerts that each count the attendance *)
(* rows in a handler of their own (routers/attendance.py, analytics.py,    *)
(* schedules.py and presence.py).  The answers are read from the state;    *)
(* nothing here changes it.                                                *)
(*                                                                         *)
(* The reports range over dates and schedules; here they see one schedule  *)
(* and one date, asked by its teacher or an administrator.  Rates are      *)
(* percentages, rounded down.                                              *)
(***************************************************************************)
EXTENDS AttendanceDay

CONSTANT ScheduleEnd   \* the last instant of the schedule's window

ASSUME ReportAssumption == ScheduleEnd \in Nat

-----------------------------------------------------------------------------
(* Counting                                                                 *)

Having(statuses) == {s \in rows : rec[s].status \in statuses}
Count(status) == Cardinality(Having({status}))

\* Who counts towards an attendance rate: not those who left early, nor those
\* who are excused.
Attended == Having({"present", "late"})

Percent(part, whole) == IF whole = 0 THEN 0 ELSE (100 * part) \div whole

-----------------------------------------------------------------------------
(* Reports on a class                                                       *)

\* get_schedule_summaries, one line of the teacher's dashboard: the only rate
\* that is taken of the enrolment.
ScheduleSummary ==
    [session_active |-> registered,
     total_enrolled |-> Cardinality(enrolled),
     present |-> Count("present"),
     late |-> Count("late"),
     absent |-> Count("absent"),
     rate |-> Percent(Count("present") + Count("late"), Cardinality(enrolled))]

\* get_schedule_attendance_summary.
RangeSummary ==
    [total |-> Cardinality(rows),
     count |-> [status \in RowStatus |-> Count(status)],
     rate |-> Percent(Count("present") + Count("late"), Cardinality(rows))]

\* get_live_attendance.
LiveAttendance ==
    [session_active |-> registered,
     total_enrolled |-> Cardinality(enrolled),
     count |-> [status \in RowStatus \ {"excused"} |-> Count(status)],
     students |-> [s \in rows |-> rec[s]]]

\* export_attendance_pdf, the section of the class.
ExportSection ==
    [total |-> Cardinality(rows),
     count |-> [status \in RowStatus \ {"excused"} |-> Count(status)],
     rate |-> Percent(Cardinality(Attended), Cardinality(rows)),
     records |-> [s \in rows |-> rec[s]]]

\* get_schedule_sessions; a date without rows is not in the history.
SessionHistory ==
    LET total == Count("present") + Count("late") + Count("absent")
                   + Count("early_leave") + Count("excused")
    IN  IF rows = {} THEN {}
        ELSE {[total |-> total,
               count |-> [status \in RowStatus |-> Count(status)],
               rate |-> Percent(Count("present") + Count("late"), total)]}

\* Faulty variant: an early leaver has attended all the same.
OverviewCountsLeavers ==
    [sessions |-> IF rows = {} THEN 0 ELSE 1,
     total_enrolled |-> Cardinality(enrolled),
     rate |-> Percent(Cardinality(rows) - Count("absent") - Count("excused"), Cardinality(rows))]

\* get_class_overview.
ClassOverview ==
    [sessions |-> IF rows = {} THEN 0 ELSE 1,
     total_enrolled |-> Cardinality(enrolled),
     rate |-> Percent(Cardinality(Attended), Cardinality(rows))]

\* get_system_metrics.
SystemMetrics ==
    [records |-> Cardinality(rows),
     rate |-> Percent(Cardinality(Attended), Cardinality(rows))]

\* get_daily_trend, the point of the day: who is excused is in no column.
DailyTrend == [status \in RowStatus \ {"excused"} |-> Count(status)]

\* get_weekday_breakdown, the bar of the weekday.
WeekdayRate == Percent(Cardinality(Attended), Cardinality(rows))

\* _compute_runtime_status on the day of the class.
RuntimeStatus ==
    IF registered THEN "live"
    ELSE IF now > ScheduleEnd THEN "ended"
    ELSE "live"

-----------------------------------------------------------------------------
(* Reports on a student                                                     *)

\* AttendanceRepository.get_student_history.
History(s) == rows \cap {s}

\* AttendanceRepository.get_summary.
StudentSummary(s) ==
    LET attended == Cardinality(Attended \cap {s})
        classes == Cardinality(rows \cap {s})
    IN  [total |-> classes, rate |-> Percent(attended, classes)]

\* get_at_risk_students, below 80 %: only a class with rows has any, and only
\* who is enrolled is looked at.
AtRisk ==
    IF rows = {} THEN {} ELSE {s \in enrolled : StudentSummary(s).rate < 80}

-----------------------------------------------------------------------------
(* Lists                                                                    *)

\* A list of rows, as far as a property tells lines apart.
Lines(S) == [s \in S |-> rec[s]]

\* viewer is a student, or NULL for teachers and administrators.
VisibleTo(viewer) == IF viewer = NULL THEN rows ELSE rows \cap {viewer}

\* list_attendance_records.
list_attendance_records(viewer, statuses) == Lines(VisibleTo(viewer) \cap Having(statuses))

\* get_today_attendance and its twin by path.
get_today_attendance == Lines(VisibleTo(NULL))

\* get_schedule_attendance, which does not ask whose schedule it is.
get_schedule_attendance == Lines(VisibleTo(NULL))

\* get_my_attendance and its alias.
get_my_attendance(s) == Lines(History(s))

\* export_attendance; students may not.
export_attendance(viewer, statuses) ==
    IF viewer = NULL THEN Lines(Having(statuses)) ELSE Lines({})

\* get_attendance_record.
get_attendance_record(viewer, s) ==
    IF s \in VisibleTo(viewer) THEN rec[s] ELSE NULL

\* AttendanceRepository.get_early_leave_events; of the events the state keeps
\* those not returned from.
LeaveEvents == {s \in rows : open_leaves[s] > 0}

\* _fetch_alerts, without the early leaves returned from, which sort last.
OpenAlerts == LeaveEvents

\* get_early_leave_events, for whoever is signed in.
EarlyLeaveList == LeaveEvents

\* export_alerts_pdf prints what _fetch_alerts finds.
export_alerts_pdf == OpenAlerts

\* get_my_attendance_summary.
get_my_attendance_summary(s) == StudentSummary(s)

-----------------------------------------------------------------------------
(* Digests: what the evening's and Sunday's jobs send (notification_jobs.py); *)
(* the teacher is NULL.  An empty digest is not sent.                       *)

DigestLine ==
    [total |-> Cardinality(rows),
     present |-> Cardinality(Attended),
     late |-> Count("late"),
     absent |-> Count("absent"),
     early_leave |-> Count("early_leave")]

\* _build_faculty_daily_html: a class without rows has no line.
FacultyDaily == IF rows = {} THEN {} ELSE {DigestLine}

\* _build_faculty_weekly_html, which adds the rate.
FacultyWeekly ==
    {[line |-> line, rate |-> Percent(line.present, line.total)] : line \in FacultyDaily}

\* _build_student_daily_html.
StudentDaily(s) == {[status |-> rec[r].status] : r \in History(s)}

\* _build_student_weekly_html: over the week, by class.
StudentWeekly(s) ==
    LET total == Cardinality(History(s))
        present == Cardinality(History(s) \cap Attended)
    IN  IF total = 0 THEN {}
        ELSE {[total |-> total, present |-> present, rate |-> Percent(present, total)]}

\* run_daily_digest: whom of those who want one it reaches.
run_daily_digest(wanting) ==
    {u \in wanting : IF u = NULL THEN FacultyDaily # {} ELSE StudentDaily(u) # {}}

\* run_weekly_digest.
run_weekly_digest(wanting) ==
    {u \in wanting : IF u = NULL THEN FacultyWeekly # {} ELSE StudentWeekly(u) # {}}

-----------------------------------------------------------------------------
(* Schedules and sessions                                                   *)

\* list_schedules, and get_my_schedules for its teacher and administrators:
\* the class, as it stands.
list_schedules == {RuntimeStatus}

\* get_my_schedules, for a student.
get_my_schedules(s) == IF s \in enrolled THEN list_schedules ELSE {}

\* get_schedule.
get_schedule == RuntimeStatus

\* get_enrolled_students, whoever of them has a face registered.
get_enrolled_students == enrolled

\* get_student_enrollments, a page of them, and get_student_enrollment_ids, all.
get_student_enrollments(s, limit, offset) ==
    LET total == Cardinality(enrolled \cap {s})
        items == {i \in 1..total : offset < i /\ i <= offset + limit}
    IN  [items |-> items, total |-> total, has_more |-> offset + Cardinality(items) < total]
get_student_enrollment_ids(s) == s \in enrolled

\* get_active_sessions asks the presence service.
get_active_sessions == [count |-> IF active THEN 1 ELSE 0]

\* get_room_session_status: the edge device asks the presence service.
RoomStatus == active

-----------------------------------------------------------------------------
(* Properties                                                               *)

\* A dozen handlers count the same rows: they give the same rate and the same
\* numbers, so do the digests, the lists have as many lines, and the dashboard, which divides by
\* the enrolment, agrees as long as rows and enrolment cover the same students.
\* Whoever attended is on no list of students at risk, the enrolments read from
\* either side are the same, and no dashboard shows a session that the
\* schedules or the presence service deny.
ReportsAgree ==
    LET rate == RangeSummary.rate
    IN  /\ {ExportSection.rate, ClassOverview.rate, SystemMetrics.rate, WeekdayRate} = {rate}
        /\ \A session \in SessionHistory :
              session.rate = rate /\ session.total = RangeSummary.total
        /\ \A status \in RowStatus \ {"excused"} :
              {LiveAttendance.count[status], ExportSection.count[status], DailyTrend[status]}
                = {RangeSummary.count[status]}
        /\ \A status \in RowStatus :
              {Cardinality(DOMAIN list_attendance_records(NULL, {status})),
               Cardinality(DOMAIN export_attendance(NULL, {status}))}
                = {RangeSummary.count[status]}
        /\ \A s \in Students :
              list_attendance_records(s, RowStatus) = get_my_attendance(s)
        /\ get_today_attendance = LiveAttendance.students
        /\ rows = enrolled => ScheduleSummary.rate = rate
        /\ \A s \in Students :
              LET enrolments == get_student_enrollments(s, 1, 0)
              IN  /\ enrolments.items # {} <=> s \in get_enrolled_students
                  /\ ~enrolments.has_more
                  /\ s \in get_enrolled_students <=> get_student_enrollment_ids(s)
        /\ ScheduleSummary.session_active => "live" \in list_schedules
        /\ get_active_sessions.count = 0 => ~LiveAttendance.session_active
        /\ \A digest \in FacultyWeekly :
              /\ digest.rate = rate
              /\ digest.line.total - digest.line.present - Count("excused")
                    = DailyTrend["absent"] + DailyTrend["early_leave"]
        /\ \A s \in Students :
              \A digest \in StudentWeekly(s) : digest.rate = StudentSummary(s).rate
        /\ run_daily_digest(Students \cup {NULL}) = run_weekly_digest(Students \cup {NULL})
        /\ NULL \in run_daily_digest({NULL}) <=> SessionHistory # {}
        /\ AtRisk \cap Attended = {}
        /\ rate = 100 => AtRisk \subseteq enrolled \ rows

\* ScheduleAttendanceSummaryItem refuses a rate over 100, and with it the whole
\* answer: no class may have more attendees than students enrolled.
RateIsARate == ScheduleSummary.rate <= 100

=============================================================================
