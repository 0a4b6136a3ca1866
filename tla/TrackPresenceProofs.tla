------------------------- MODULE TrackPresenceProofs -------------------------
(***************************************************************************)
(* Theorems of TrackPresence, for every set of students and of timeouts,   *)
(* every bound on time, and with or without failing commits.               *)
(***************************************************************************)
EXTENDS TrackPresence, TLAPS

-----------------------------------------------------------------------------
(* The inductive invariant                                                  *)

\* What one student's memory satisfies at time t when presence and absence
\* are counted up to c (c = t, or the instant of the pause).
TimersUpTo(m, c) ==
    /\ m.last_presence_start # NULL => m.last_presence_start <= c
    /\ m.absent_since # NULL => m.absent_since <= c

StayUpTo(m, t) ==
    IF CheckedIn(m)
    THEN /\ m.check_in_time # NULL
         /\ m.check_in_time <= t
         /\ IF m.last_presence_start = NULL
            THEN m.total_present_seconds + m.check_in_time <= t
            ELSE m.total_present_seconds + m.check_in_time <= m.last_presence_start
    ELSE /\ m.check_in_time = NULL
         /\ m.last_presence_start = NULL
         /\ m.total_present_seconds = 0
         /\ ~m.early_leave_flagged

Consistent(m, t, c) ==
    /\ m \in StudentPresenceState
    /\ TimersUpTo(m, c)
    /\ StayUpTo(m, t)

MemoryInv ==
    /\ paused_at # NULL => paused_at <= now
    /\ \A s \in Students : Consistent(mem[s], now, CountedNow)

TimeInv == TypeOK /\ MemoryInv

-----------------------------------------------------------------------------
(* What a frame does to one student                                         *)

LEMMA FreshConsistent ==
    ASSUME NEW t \in Time, NEW c \in Time
    PROVE  Consistent(Fresh, t, c)
BY ConstantsAssumption
   DEF Consistent, Fresh, StudentPresenceState, MemStatus, MaybeTime, TimersUpTo,
       StayUpTo, CheckedIn

LEMMA ResumedConsistent ==
    ASSUME now \in Time, paused_at \in MaybeTime,
           paused_at # NULL => paused_at <= now,
           NEW m, Consistent(m, now, CountedNow)
    PROVE  /\ Consistent(Resumed(m), now, now)
           /\ Resumed(m).status = m.status
           /\ Resumed(m).check_in_time = m.check_in_time
           /\ Resumed(m).last_seen_at = m.last_seen_at
           /\ Resumed(m).early_leave_flagged = m.early_leave_flagged
           /\ Resumed(m).early_leave_returned = m.early_leave_returned
<1> DEFINE r == Resumed(m)
<1>1. /\ m \in StudentPresenceState
      /\ TimersUpTo(m, CountedNow)
      /\ StayUpTo(m, now)
  BY DEF Consistent
<1>2. OfflineDuration \in Nat /\ OfflineDuration + CountedNow = now
  BY ConstantsAssumption DEF OfflineDuration, CountedNow, MaybeTime, Time
<1>3. /\ r.absent_since = Shift(m.absent_since, OfflineDuration)
      /\ r.last_presence_start = Shift(m.last_presence_start, OfflineDuration)
      /\ r.status = m.status
      /\ r.check_in_time = m.check_in_time
      /\ r.total_present_seconds = m.total_present_seconds
      /\ r.last_seen_at = m.last_seen_at
      /\ r.early_leave_flagged = m.early_leave_flagged
      /\ r.early_leave_returned = m.early_leave_returned
  BY <1>1 DEF Resumed, StudentPresenceState
<1>4. ASSUME NEW x \in MaybeTime, x # NULL => x <= CountedNow
      PROVE  /\ Shift(x, OfflineDuration) \in MaybeTime
             /\ Shift(x, OfflineDuration) = NULL <=> x = NULL
             /\ x # NULL => /\ Shift(x, OfflineDuration) >= x
                            /\ Shift(x, OfflineDuration) <= now
  BY <1>2, <1>4, ConstantsAssumption DEF Shift, MaybeTime, Time, CountedNow
<1>5. /\ r.absent_since \in MaybeTime
      /\ r.absent_since # NULL => r.absent_since <= now
  BY <1>1, <1>3, <1>4 DEF TimersUpTo, StudentPresenceState
<1>6. /\ r.last_presence_start \in MaybeTime
      /\ r.last_presence_start = NULL <=> m.last_presence_start = NULL
      /\ m.last_presence_start # NULL => r.last_presence_start >= m.last_presence_start
      /\ r.last_presence_start # NULL => r.last_presence_start <= now
  BY <1>1, <1>3, <1>4 DEF TimersUpTo, StudentPresenceState
<1>7. r \in StudentPresenceState
  BY <1>1, <1>5, <1>6, <1>3 DEF Resumed, StudentPresenceState
<1>8. TimersUpTo(r, now)
  BY <1>5, <1>6 DEF TimersUpTo
<1>9. StayUpTo(r, now)
  BY <1>1, <1>3, <1>6, ConstantsAssumption
     DEF StayUpTo, CheckedIn, StudentPresenceState, MaybeTime, Time
<1> QED
  BY <1>3, <1>7, <1>8, <1>9 DEF Consistent

LEMMA SeenConsistent ==
    ASSUME now \in Time, NEW m, Consistent(m, now, now), NEW k
    PROVE  Consistent(Seen(m, k), now, now)
<1> DEFINE v == Seen(m, k)
<1>1. m \in StudentPresenceState /\ TimersUpTo(m, now) /\ StayUpTo(m, now)
  BY DEF Consistent
<1>2. NewStatus \in {"present", "late"}
  BY DEF NewStatus
<1>3. now # NULL /\ now \in Nat /\ now \in MaybeTime
  BY ConstantsAssumption DEF Time, MaybeTime
<1>4. CASE ChecksIn(m, TRUE)
  <2>1. v = [m EXCEPT !.status = NewStatus,
                      !.check_in_time = now,
                      !.last_seen_at = now,
                      !.last_presence_start = now,
                      !.absent_since = NULL]
    BY <1>4 DEF Seen
  <2>2. v \in StudentPresenceState
    BY <1>1, <1>2, <1>3, <2>1 DEF StudentPresenceState, MemStatus, MaybeTime
  <2>3. /\ v.status = NewStatus
        /\ v.check_in_time = now
        /\ v.last_presence_start = now
        /\ v.absent_since = NULL
        /\ v.total_present_seconds = m.total_present_seconds
    BY <1>1, <2>1 DEF StudentPresenceState
  <2>4. m.total_present_seconds = 0
    BY <1>1, <1>4 DEF StayUpTo, ChecksIn
  <2> QED
    BY <1>2, <1>3, <2>2, <2>3, <2>4 DEF Consistent, TimersUpTo, StayUpTo, CheckedIn
<1>5. CASE ~ChecksIn(m, TRUE) /\ Returns(m, TRUE)
  <2>1. v = [m EXCEPT !.early_leave_returned = TRUE,
                      !.absent_since = NULL,
                      !.last_presence_start = now,
                      !.last_seen_at = IF k = 2 THEN now ELSE @]
    BY <1>5 DEF Seen
  <2>2. v \in StudentPresenceState
    BY <1>1, <1>3, <2>1 DEF StudentPresenceState, MaybeTime
  <2>3. /\ v.status = m.status
        /\ v.check_in_time = m.check_in_time
        /\ v.last_presence_start = now
        /\ v.absent_since = NULL
        /\ v.total_present_seconds = m.total_present_seconds
    BY <1>1, <2>1 DEF StudentPresenceState
  <2>4. /\ CheckedIn(m) /\ CheckedIn(v)
        /\ m.check_in_time # NULL /\ m.check_in_time <= now
        /\ m.total_present_seconds + m.check_in_time <= now
    BY <1>1, <1>3, <1>5, <2>3
       DEF Returns, CheckedIn, StayUpTo, TimersUpTo, StudentPresenceState, MaybeTime, Time
  <2> QED
    BY <1>3, <2>2, <2>3, <2>4 DEF Consistent, TimersUpTo, StayUpTo
<1>6. CASE ~ChecksIn(m, TRUE) /\ ~Returns(m, TRUE)
  <2>1. v = [m EXCEPT !.absent_since = NULL,
                      !.last_presence_start = IF @ = NULL THEN now ELSE @,
                      !.last_seen_at = now]
    BY <1>6 DEF Seen
  <2>2. v \in StudentPresenceState
    BY <1>1, <1>3, <2>1 DEF StudentPresenceState, MaybeTime
  <2>3. /\ v.status = m.status
        /\ v.check_in_time = m.check_in_time
        /\ v.last_presence_start = IF m.last_presence_start = NULL THEN now
                                   ELSE m.last_presence_start
        /\ v.absent_since = NULL
        /\ v.total_present_seconds = m.total_present_seconds
    BY <1>1, <2>1 DEF StudentPresenceState
  <2>4. /\ CheckedIn(m) /\ CheckedIn(v)
        /\ m.check_in_time # NULL /\ m.check_in_time <= now
        /\ m.total_present_seconds + m.check_in_time <= v.last_presence_start
        /\ v.last_presence_start <= now
    BY <1>1, <1>3, <1>6, <2>3
       DEF ChecksIn, CheckedIn, StayUpTo, TimersUpTo, StudentPresenceState, MaybeTime, Time
  <2> QED
    BY <1>3, <2>2, <2>3, <2>4 DEF Consistent, TimersUpTo, StayUpTo
<1> QED
  BY <1>4, <1>5, <1>6

LEMMA PresentSecondsBound ==
    ASSUME NEW c \in Time, c <= now, now \in Time, NEW m, Consistent(m, now, c)
    PROVE  /\ PresentSeconds(m) \in Nat
           /\ CheckedIn(m) => PresentSeconds(m) + m.check_in_time <= now
           /\ ~CheckedIn(m) => PresentSeconds(m) = 0
<1>1. m \in StudentPresenceState /\ TimersUpTo(m, c) /\ StayUpTo(m, now)
  BY DEF Consistent
<1>2. m.total_present_seconds \in Nat /\ m.check_in_time \in Time \cup {NULL}
      /\ m.last_presence_start \in Time \cup {NULL}
  BY <1>1 DEF StudentPresenceState, MaybeTime
<1>3. CASE m.last_presence_start = NULL
  BY <1>1, <1>2, <1>3, ConstantsAssumption DEF PresentSeconds, StayUpTo, Time
<1>4. CASE m.last_presence_start # NULL
  <2>1. /\ m.last_presence_start \in Nat
        /\ m.last_presence_start <= now
        /\ PresentSeconds(m) = m.total_present_seconds + (now - m.last_presence_start)
    BY <1>1, <1>2, <1>4, ConstantsAssumption DEF PresentSeconds, TimersUpTo, Time
  <2> QED
    BY <1>1, <1>2, <1>4, <2>1, ConstantsAssumption DEF StayUpTo, Time
<1> QED
  BY <1>3, <1>4

LEMMA UnseenConsistent ==
    ASSUME now \in Time, NEW m, Consistent(m, now, now)
    PROVE  Consistent(Unseen(m), now, now)
<1>1. m \in StudentPresenceState /\ TimersUpTo(m, now) /\ StayUpTo(m, now)
  BY DEF Consistent
<1>2. /\ PresentSeconds(m) \in Nat
      /\ CheckedIn(m) => PresentSeconds(m) + m.check_in_time <= now
      /\ ~CheckedIn(m) => PresentSeconds(m) = 0
  <2>1. now <= now
    BY ConstantsAssumption DEF Time
  <2> QED
    BY <2>1, PresentSecondsBound
<1> DEFINE u == Unseen(m)
<1>3. /\ u.total_present_seconds = PresentSeconds(m)
      /\ u.last_presence_start = NULL
      /\ u.absent_since = IF CheckedIn(m) /\ ~Away(m) /\ m.absent_since = NULL
                          THEN now ELSE m.absent_since
      /\ u.early_leave_flagged = (m.early_leave_flagged \/ Leaves(m, FALSE))
      /\ u.early_leave_returned = (m.early_leave_returned /\ ~Leaves(m, FALSE))
      /\ u.status = m.status
      /\ u.check_in_time = m.check_in_time
  BY <1>1 DEF Unseen, StudentPresenceState
<1>4. Leaves(m, FALSE) \in BOOLEAN /\ (Leaves(m, FALSE) => CheckedIn(m))
  BY DEF Leaves
<1>5. u \in StudentPresenceState
  BY <1>1, <1>2, <1>4 DEF Unseen, StudentPresenceState, MaybeTime
<1>6. TimersUpTo(u, now)
  BY <1>1, <1>3 DEF TimersUpTo, Time
<1>7. StayUpTo(u, now)
  BY <1>1, <1>2, <1>3, <1>4 DEF StayUpTo, CheckedIn
<1> QED
  BY <1>5, <1>6, <1>7 DEF Consistent

LEMMA ObservedConsistent ==
    ASSUME now \in Time, NEW m, Consistent(m, now, now), NEW visible, NEW k
    PROVE  Consistent(Observed(m, visible, k), now, now)
BY SeenConsistent, UnseenConsistent DEF Observed

LEMMA RowAfterType ==
    ASSUME now \in Time, NEW r \in AttendanceRow, NEW m \in StudentPresenceState,
           NEW visible
    PROVE  RowAfter(r, m, visible) \in AttendanceRow
BY DEF RowAfter, AttendanceRow, StudentPresenceState, RowStatus, MaybeTime, NewStatus, MemStatus

LEMMA OpenLeavesType ==
    ASSUME NEW n \in Nat, NEW m, NEW visible
    PROVE  OpenLeavesAfter(n, m, visible) \in Nat
BY DEF OpenLeavesAfter

-----------------------------------------------------------------------------
(* The operations preserve the invariant                                    *)

LEMMA FrameTime ==
    ASSUME TimeInv, NEW recognised \in SUBSET Students, process_track_frame(recognised)
    PROVE  TimeInv'
<1> USE DEF TimeInv
<1>1. PICK jit \in EnrolledOnTheSpot(recognised), commits \in CommitOutcomes :
        LET tracked == known \cup jit
            before(s) == IF s \in jit THEN Fresh ELSE Resumed(mem[s])
            seen(s) == s \in recognised
        IN  /\ known' = tracked
            /\ rows' = rows \cup jit
            /\ mem' = [s \in Students |->
                         IF s \in tracked
                         THEN Observed(before(s), seen(s), commits[s])
                         ELSE mem[s]]
            /\ rec' = [s \in Students |->
                         IF s \in tracked /\ commits[s] >= 1
                         THEN RowAfter(rec[s], before(s), seen(s))
                         ELSE rec[s]]
            /\ open_leaves' = [s \in Students |->
                         IF s \in tracked /\ commits[s] = 2
                         THEN OpenLeavesAfter(open_leaves[s], before(s), seen(s))
                         ELSE open_leaves[s]]
            /\ events' = {e \in EventKind \X tracked :
                            Announces(e[1], before(e[2]), seen(e[2]), commits[e[2]])}
  BY DEF process_track_frame
<1> DEFINE tracked == known \cup jit
           before(s) == IF s \in jit THEN Fresh ELSE Resumed(mem[s])
           seen(s) == s \in recognised
<1>2. /\ paused_at' = NULL
      /\ UNCHANGED <<now, phase, session_start, timeout>>
  BY DEF process_track_frame
<1>3. jit \subseteq Students /\ tracked \subseteq Students
  BY DEF EnrolledOnTheSpot, SubsetOutcomes, TypeOK
<1>4. now \in Time /\ paused_at \in MaybeTime /\ (paused_at # NULL => paused_at <= now)
  BY DEF TypeOK, MemoryInv
<1>5. ASSUME NEW s \in Students
      PROVE  Consistent(before(s), now, now)
  <2>1. CASE s \in jit
    BY <1>4, <2>1, FreshConsistent
  <2>2. CASE s \notin jit
    <3>1. Consistent(mem[s], now, CountedNow)
      BY DEF MemoryInv
    <3> QED
      BY <1>4, <2>2, <3>1, ResumedConsistent
  <2> QED
    BY <2>1, <2>2
<1>6. ASSUME NEW s \in Students
      PROVE  mem'[s] \in StudentPresenceState /\ Consistent(mem'[s], now, now)
  <2>1. CASE s \in tracked
    <3>1. mem'[s] = Observed(before(s), seen(s), commits[s])
      BY <1>1, <2>1
    <3>2. Consistent(Observed(before(s), seen(s), commits[s]), now, now)
      BY <1>4, <1>5, ObservedConsistent
    <3> QED
      BY <3>1, <3>2 DEF Consistent
  <2>2. CASE s \notin tracked
    <3>1. mem'[s] = mem[s]
      BY <1>1, <2>2
    <3>2. Consistent(mem[s], now, CountedNow) /\ CountedNow <= now /\ CountedNow \in Time
      BY <1>4, ConstantsAssumption DEF MemoryInv, CountedNow, MaybeTime, Time
    <3>3. Consistent(mem[s], now, now)
      BY <1>4, <3>2, ConstantsAssumption
         DEF Consistent, TimersUpTo, StudentPresenceState, MaybeTime, Time
    <3> QED
      BY <3>1, <3>3 DEF Consistent
  <2> QED
    BY <2>1, <2>2
<1>7. rec' \in [Students -> AttendanceRow]
  <2>1. ASSUME NEW s \in Students
        PROVE  rec[s] \in AttendanceRow /\ RowAfter(rec[s], before(s), seen(s)) \in AttendanceRow
    <3>1. rec[s] \in AttendanceRow
      BY DEF TypeOK
    <3>2. before(s) \in StudentPresenceState
      BY <1>5 DEF Consistent
    <3> QED
      BY <1>4, <3>1, <3>2, RowAfterType
  <2> QED
    BY <1>1, <2>1
<1>8. open_leaves' \in [Students -> Nat]
  <2>1. ASSUME NEW s \in Students
        PROVE  open_leaves[s] \in Nat /\ OpenLeavesAfter(open_leaves[s], before(s), seen(s)) \in Nat
    BY OpenLeavesType DEF TypeOK
  <2> QED
    BY <1>1, <2>1
<1>9. TypeOK'
  <2>1. mem' \in [Students -> StudentPresenceState]
    BY <1>1, <1>6
  <2>2. /\ known' \in SUBSET Students
        /\ rows' \in SUBSET Students
        /\ events' \in SUBSET (EventKind \X Students)
    BY <1>1, <1>3 DEF TypeOK
  <2>3. enrolled' \in SUBSET Students
    <3>1. PICK enlisted \in EnrolledOnTheSpot(recognised) : enrolled' = enrolled \cup enlisted
      BY DEF process_track_frame
    <3> QED
      BY <3>1 DEF EnrolledOnTheSpot, SubsetOutcomes, TypeOK
  <2> QED
    BY <1>2, <1>7, <1>8, <2>1, <2>2, <2>3 DEF TypeOK, Time, MaybeTime
<1>10. MemoryInv'
  BY <1>2, <1>6 DEF MemoryInv, CountedNow
<1> QED
  BY <1>9, <1>10

LEMMA InitTime == Init => TimeInv
<1> SUFFICES ASSUME Init PROVE TimeInv
  OBVIOUS
<1>1. now \in Time /\ CountedNow \in Time
  BY ConstantsAssumption DEF Init, Time, CountedNow
<1>2. Consistent(Fresh, now, CountedNow)
  BY <1>1, FreshConsistent
<1>3. Fresh \in StudentPresenceState
  BY <1>2 DEF Consistent
<1>4. NewRow \in AttendanceRow
  BY DEF NewRow, AttendanceRow, RowStatus, MemStatus, MaybeTime
<1>5. TypeOK
  BY <1>1, <1>3, <1>4, ConstantsAssumption DEF Init, TypeOK, MaybeTime
<1>6. MemoryInv
  BY <1>2 DEF Init, MemoryInv
<1> QED
  BY <1>5, <1>6 DEF TimeInv

\* A later clock keeps what an earlier one had.
LEMMA LaterConsistent ==
    ASSUME NEW t \in Time, NEW u \in Time, t <= u,
           NEW c \in Time, NEW d \in Time, c <= d,
           NEW m, Consistent(m, t, c)
    PROVE  Consistent(m, u, d)
<1>1. m \in StudentPresenceState /\ TimersUpTo(m, c) /\ StayUpTo(m, t)
  BY DEF Consistent
<1>2. /\ m.total_present_seconds \in Nat
      /\ m.check_in_time \in MaybeTime
      /\ m.last_presence_start \in MaybeTime
      /\ m.absent_since \in MaybeTime
  BY <1>1 DEF StudentPresenceState
<1>3. TimersUpTo(m, d)
  BY <1>1, <1>2, ConstantsAssumption DEF TimersUpTo, MaybeTime, Time
<1>4. StayUpTo(m, u)
  BY <1>1, <1>2, ConstantsAssumption DEF StayUpTo, MaybeTime, Time
<1> QED
  BY <1>1, <1>3, <1>4 DEF Consistent

LEMMA CountedNowTime ==
    ASSUME TimeInv
    PROVE  now \in Time /\ CountedNow \in Time /\ CountedNow <= now
BY ConstantsAssumption DEF TimeInv, TypeOK, MemoryInv, CountedNow, MaybeTime, Time

LEMMA PresentSecondsType ==
    ASSUME TimeInv
    PROVE  \A s \in Students :
             /\ PresentSeconds(mem[s]) \in Nat
             /\ CheckedIn(mem[s]) => PresentSeconds(mem[s]) + mem[s].check_in_time <= now
             /\ ~CheckedIn(mem[s]) => PresentSeconds(mem[s]) = 0
BY CountedNowTime, PresentSecondsBound DEF TimeInv, MemoryInv

LEMMA StartTime ==
    ASSUME TimeInv, start_session
    PROVE  TimeInv'
<1> USE DEF TimeInv, start_session, LoadStudents, Roster
<1>1. now \in Time /\ now' = now /\ paused_at' = NULL
  BY DEF TypeOK
<1>2. Consistent(Fresh, now, now)
  BY <1>1, FreshConsistent
<1>3. TypeOK'
  <2>1. mem' \in [Students -> StudentPresenceState]
    BY <1>2 DEF Consistent
  <2> QED
    BY <1>1, <2>1, ConstantsAssumption DEF TypeOK, MaybeTime, Time
<1>4. MemoryInv'
  BY <1>1, <1>2 DEF MemoryInv, CountedNow
<1> QED
  BY <1>3, <1>4

LEMMA TickTime ==
    ASSUME TimeInv, Tick
    PROVE  TimeInv'
<1> USE DEF TimeInv, Tick
<1>1. /\ now \in Time /\ now' \in Time /\ now <= now'
      /\ CountedNow \in Time /\ CountedNow' \in Time /\ CountedNow <= CountedNow'
      /\ paused_at' = paused_at
  BY CountedNowTime, ConstantsAssumption DEF TypeOK, Time, CountedNow
<1>2. TypeOK'
  BY <1>1 DEF TypeOK, Time, MaybeTime, memoryVars, databaseVars
<1>3. ASSUME NEW s \in Students
      PROVE  Consistent(mem'[s], now', CountedNow')
  <2>1. Consistent(mem[s], now, CountedNow) /\ mem' = mem
    BY DEF MemoryInv, memoryVars
  <2> QED
    BY <1>1, <2>1, LaterConsistent
<1>4. (paused_at # NULL => paused_at <= now)'
  BY <1>1, ConstantsAssumption DEF MemoryInv, TypeOK, MaybeTime, Time
<1> QED
  BY <1>2, <1>3, <1>4 DEF MemoryInv

LEMMA PauseTime ==
    ASSUME TimeInv, pause_absence_tracking
    PROVE  TimeInv'
<1> USE DEF TimeInv, pause_absence_tracking
<1>1. now \in Time /\ CountedNow \in Time /\ CountedNow <= now
  BY CountedNowTime
<1>2. CountedNow' = CountedNow /\ now' = now /\ mem' = mem
  BY ConstantsAssumption DEF CountedNow, memoryVars, TypeOK, Time
<1>3. TypeOK'
  BY DEF TypeOK, MaybeTime, memoryVars, databaseVars
<1>4. MemoryInv'
  BY <1>1, <1>2, ConstantsAssumption DEF MemoryInv, Time
<1> QED
  BY <1>3, <1>4

LEMMA TimeoutTime ==
    ASSUME TimeInv, NEW seconds \in Timeouts, set_early_leave_timeout(seconds)
    PROVE  TimeInv'
<1> USE DEF TimeInv, set_early_leave_timeout
<1>1. TypeOK'
  BY DEF TypeOK, MaybeTime, Time, memoryVars, databaseVars
<1>2. MemoryInv'
  BY DEF MemoryInv, CountedNow, memoryVars
<1> QED
  BY <1>1, <1>2

LEMMA FlushTime ==
    ASSUME TimeInv, flush_presence_logs
    PROVE  TimeInv'
<1> USE DEF TimeInv, flush_presence_logs
<1>1. \A s \in Students : PresentSeconds(mem[s]) \in Nat
  BY PresentSecondsType
<1>2. \A s \in Students :
        /\ rec[s] \in AttendanceRow
        /\ [rec[s] EXCEPT !.total_present_seconds = PresentSeconds(mem[s])] \in AttendanceRow
  BY <1>1 DEF TypeOK, AttendanceRow
<1>3. rec' \in [Students -> AttendanceRow]
  <2>1. PICK written \in SubsetOutcomes(Flushed) :
          rec' = [s \in Students |->
                    IF s \in written
                    THEN [rec[s] EXCEPT !.total_present_seconds = PresentSeconds(mem[s])]
                    ELSE rec[s]]
    OBVIOUS
  <2> QED
    BY <1>2, <2>1
<1>4. TypeOK'
  BY <1>3 DEF TypeOK, MaybeTime, Time, clockVars, memoryVars
<1>5. MemoryInv'
  BY DEF MemoryInv, CountedNow, clockVars, memoryVars
<1> QED
  BY <1>4, <1>5

LEMMA EndTime ==
    ASSUME TimeInv, end_session
    PROVE  TimeInv'
<1> USE DEF TimeInv, end_session
<1>1. \A s \in Students :
        /\ PresentSeconds(mem[s]) \in Nat
        /\ CheckedIn(mem[s]) => PresentSeconds(mem[s]) + mem[s].check_in_time <= now
        /\ ~CheckedIn(mem[s]) => PresentSeconds(mem[s]) = 0
  BY PresentSecondsType
<1>2. now \in MaybeTime /\ UNCHANGED clockVars
  BY DEF TypeOK, MaybeTime
<1>3. rec' \in [Students -> AttendanceRow]
  <2>1. PICK written \in SubsetOutcomes(Flushed),
             stamped \in SubsetOutcomes({s \in known : CheckedIn(mem[s])}) :
          rec' = [s \in Students |->
                    [rec[s] EXCEPT
                       !.total_present_seconds =
                           IF s \in written \cup stamped THEN PresentSeconds(mem[s]) ELSE @,
                       !.check_out_time =
                           IF s \in stamped THEN CheckOutAtEnd(@) ELSE @]]
    OBVIOUS
  <2>2. ASSUME NEW s \in Students
        PROVE  rec'[s] \in AttendanceRow
    <3>1. rec[s] \in AttendanceRow /\ CheckOutAtEnd(rec[s].check_out_time) \in MaybeTime
      BY <1>2 DEF TypeOK, AttendanceRow, CheckOutAtEnd
    <3>2. PresentSeconds(mem[s]) \in Nat
      BY <1>1
    <3>3. rec'[s] = [rec[s] EXCEPT
                       !.total_present_seconds =
                           IF s \in written \cup stamped THEN PresentSeconds(mem[s]) ELSE @,
                       !.check_out_time =
                           IF s \in stamped THEN CheckOutAtEnd(@) ELSE @]
      BY <2>1
    <3> QED
      BY <3>1, <3>2, <3>3 DEF AttendanceRow
  <2> QED
    BY <2>1, <2>2
<1>4. ASSUME NEW s \in Students
      PROVE  Consistent(mem'[s], now, CountedNow)
  <2>1. mem'[s] = [mem[s] EXCEPT !.total_present_seconds = PresentSeconds(mem[s]),
                                 !.last_presence_start = NULL]
    OBVIOUS
  <2>2. /\ mem[s] \in StudentPresenceState
        /\ TimersUpTo(mem[s], CountedNow)
        /\ StayUpTo(mem[s], now)
    BY DEF MemoryInv, Consistent
  <2>3. mem'[s] \in StudentPresenceState
    BY <1>1, <2>1, <2>2 DEF StudentPresenceState, MaybeTime
  <2>4. /\ mem'[s].total_present_seconds = PresentSeconds(mem[s])
        /\ mem'[s].last_presence_start = NULL
        /\ mem'[s].absent_since = mem[s].absent_since
        /\ mem'[s].status = mem[s].status
        /\ mem'[s].check_in_time = mem[s].check_in_time
        /\ mem'[s].early_leave_flagged = mem[s].early_leave_flagged
    BY <2>1, <2>2 DEF StudentPresenceState
  <2>5. TimersUpTo(mem'[s], CountedNow)
    BY <2>2, <2>4 DEF TimersUpTo
  <2>6. StayUpTo(mem'[s], now)
    BY <1>1, <2>2, <2>4 DEF StayUpTo, CheckedIn
  <2> QED
    BY <2>3, <2>5, <2>6 DEF Consistent
<1>5. TypeOK'
  <2>1. mem' \in [Students -> StudentPresenceState]
    BY <1>4 DEF Consistent
  <2> QED
    BY <1>3, <2>1 DEF TypeOK, MaybeTime, Time, clockVars
<1>6. MemoryInv'
  BY <1>4 DEF MemoryInv, CountedNow, clockVars
<1> QED
  BY <1>5, <1>6

LEMMA NextTime == TimeInv /\ [Next]_vars => TimeInv'
<1> SUFFICES ASSUME TimeInv, [Next]_vars PROVE TimeInv'
  OBVIOUS
<1>1. CASE start_session
  BY <1>1, StartTime
<1>2. CASE Tick
  BY <1>2, TickTime
<1>3. CASE Frame
  BY <1>3, FrameTime DEF Frame
<1>4. CASE pause_absence_tracking
  BY <1>4, PauseTime
<1>5. ASSUME NEW seconds \in Timeouts, set_early_leave_timeout(seconds)
      PROVE  TimeInv'
  BY <1>5, TimeoutTime
<1>6. CASE flush_presence_logs
  BY <1>6, FlushTime
<1>7. CASE end_session
  BY <1>7, EndTime
<1>8. CASE UNCHANGED vars
  BY <1>8 DEF TimeInv, TypeOK, MemoryInv, CountedNow, MaybeTime, Time, vars, clockVars,
              memoryVars, databaseVars
<1> QED
  BY <1>1, <1>2, <1>3, <1>4, <1>5, <1>6, <1>7, <1>8 DEF Next

LEMMA TimeAlways == Spec => []TimeInv
BY InitTime, NextTime, PTL DEF Spec

-----------------------------------------------------------------------------
(* Types, and presence within the stay                                      *)

\* The memory of the service and the rows it writes keep their types: in
\* particular no pause, resume or clock reading ever makes a duration
\* negative or puts a timer in the future.
THEOREM TypeCorrect == Spec => []TypeOK
BY TimeAlways, PTL DEF TimeInv

\* Presence credited never exceeds the time since the check-in, through any
\* sequence of frames, pauses, resumes, flushes, early leaves and returns.
THEOREM PresenceStaysWithinStay == Spec => []PresenceWithinStay
<1>1. ASSUME TimeInv PROVE PresenceWithinStay
  <2>1. ASSUME NEW s \in known
        PROVE  /\ CheckedIn(mem[s]) => PresentSeconds(mem[s]) <= now - mem[s].check_in_time
               /\ ~CheckedIn(mem[s]) => PresentSeconds(mem[s]) = 0
    <3>1. s \in Students
      BY <1>1 DEF TimeInv, TypeOK
    <3>2. /\ PresentSeconds(mem[s]) \in Nat
          /\ CheckedIn(mem[s]) => PresentSeconds(mem[s]) + mem[s].check_in_time <= now
          /\ ~CheckedIn(mem[s]) => PresentSeconds(mem[s]) = 0
      BY <1>1, <3>1, PresentSecondsType
    <3>3. /\ mem[s] \in StudentPresenceState
          /\ CheckedIn(mem[s]) => mem[s].check_in_time # NULL
          /\ now \in Time
      BY <1>1, <3>1, CountedNowTime DEF TimeInv, MemoryInv, Consistent, StayUpTo
    <3>4. CheckedIn(mem[s]) => mem[s].check_in_time \in Int /\ now \in Int
      BY <3>3 DEF StudentPresenceState, MaybeTime, Time
    <3> QED
      BY <3>2, <3>4
  <2> QED
    BY <2>1 DEF PresenceWithinStay
<1> QED
  BY <1>1, TimeAlways, PTL

-----------------------------------------------------------------------------
(* Rows never say what memory does not, whatever commits fail               *)

Faithful(r, m) ==
    /\ r.check_in_time \in {NULL, m.check_in_time}
    /\ r.status \in {"present", "late"} => r.status = m.status
    /\ r.status = "early_leave" => m.early_leave_flagged

RowsInv ==
    /\ phase = "idle" => known = {}
    /\ \A s \in Students :
         /\ s \notin known => rec[s] = NewRow /\ open_leaves[s] = 0
         /\ s \notin known /\ phase # "ended" => mem[s] = Fresh
         /\ Faithful(rec[s], mem[s])

\* What a frame leaves of the fields a row is compared with.
LEMMA ObservedFields ==
    ASSUME NEW m \in StudentPresenceState, NEW visible, NEW k
    PROVE  LET o == Observed(m, visible, k)
               left == Leaves(m, visible)
           IN  /\ o.status = IF ChecksIn(m, visible) THEN NewStatus ELSE m.status
               /\ o.check_in_time = IF ChecksIn(m, visible) THEN now ELSE m.check_in_time
               /\ o.early_leave_flagged <=> m.early_leave_flagged \/ left
               /\ o.early_leave_returned <=>
                    \/ m.early_leave_returned /\ ~left
                    \/ Returns(m, visible)
               /\ ~visible => o.last_seen_at = m.last_seen_at
<1>1. CASE visible
  BY <1>1 DEF Observed, Seen, StudentPresenceState, Leaves, Returns, ChecksIn
<1>2. CASE ~visible
  BY <1>2 DEF Observed, Unseen, StudentPresenceState, Leaves, Returns, ChecksIn
<1> QED
  BY <1>1, <1>2

LEMMA RowAfterFields ==
    ASSUME NEW r \in AttendanceRow, NEW m, NEW visible
    PROVE  LET a == RowAfter(r, m, visible)
           IN  /\ a.check_in_time = IF ChecksIn(m, visible) THEN now ELSE r.check_in_time
               /\ a.status = IF ChecksIn(m, visible) THEN NewStatus
                             ELSE IF Returns(m, visible) THEN m.status
                             ELSE IF Leaves(m, visible) THEN "early_leave"
                             ELSE r.status
               /\ a.check_out_time =
                    IF Returns(m, visible) THEN NULL
                    ELSE IF Leaves(m, visible) /\ m.last_seen_at # NULL THEN m.last_seen_at
                    ELSE r.check_out_time
<1>1. CASE ChecksIn(m, visible)
  BY <1>1 DEF RowAfter, AttendanceRow, ChecksIn, Returns, Leaves
<1>2. CASE ~ChecksIn(m, visible)
  BY <1>2 DEF RowAfter, AttendanceRow, Returns, Leaves
<1> QED
  BY <1>1, <1>2

LEMMA FaithfulObserved ==
    ASSUME NEW r \in AttendanceRow, NEW m \in StudentPresenceState, StayUpTo(m, now),
           Faithful(r, m), NEW visible, NEW k
    PROVE  /\ Faithful(r, Observed(m, visible, k))
           /\ Faithful(RowAfter(r, m, visible), Observed(m, visible, k))
           /\ r.check_in_time # NULL =>
                RowAfter(r, m, visible).check_in_time = r.check_in_time
<1> DEFINE o == Observed(m, visible, k)
           left == Leaves(m, visible)
<1>1. /\ o.status = IF ChecksIn(m, visible) THEN NewStatus ELSE m.status
      /\ o.check_in_time = IF ChecksIn(m, visible) THEN now ELSE m.check_in_time
      /\ o.early_leave_flagged <=> m.early_leave_flagged \/ left
  BY ObservedFields
<1>2. ChecksIn(m, visible) => /\ r.check_in_time = NULL
                              /\ r.status \notin {"present", "late", "early_leave"}
  BY DEF ChecksIn, CheckedIn, StayUpTo, Faithful
<1>3. Faithful(r, o)
  BY <1>1, <1>2 DEF Faithful
<1> DEFINE a == RowAfter(r, m, visible)
<1>4. /\ a.check_in_time = IF ChecksIn(m, visible) THEN now ELSE r.check_in_time
      /\ a.status = IF ChecksIn(m, visible) THEN NewStatus
                    ELSE IF Returns(m, visible) THEN m.status
                    ELSE IF left THEN "early_leave"
                    ELSE r.status
  BY RowAfterFields
<1>5. NewStatus # "early_leave"
  BY DEF NewStatus
<1>6. Faithful(a, o)
  <2>1. CASE ChecksIn(m, visible)
    BY <1>1, <1>4, <1>5, <2>1 DEF Faithful
  <2>2. CASE ~ChecksIn(m, visible) /\ Returns(m, visible)
    <3>1. m.status # "early_leave"
      BY DEF StudentPresenceState, MemStatus
    <3> QED
      BY <1>1, <1>4, <2>2, <3>1 DEF Faithful
  <2>3. CASE ~ChecksIn(m, visible) /\ ~Returns(m, visible)
    BY <1>1, <1>4, <2>3 DEF Faithful
  <2> QED
    BY <2>1, <2>2, <2>3
<1> QED
  BY <1>2, <1>3, <1>4, <1>6

\* Fields of what a frame starts from.
LEMMA BeforeFields ==
    ASSUME TimeInv, RowsInv, phase = "running", NEW jit, jit \cap known = {}, NEW s \in Students
    PROVE  LET b == IF s \in jit THEN Fresh ELSE Resumed(mem[s])
           IN  /\ b \in StudentPresenceState
               /\ Consistent(b, now, now)
               /\ b.status = mem[s].status
               /\ b.check_in_time = mem[s].check_in_time
               /\ b.last_seen_at = mem[s].last_seen_at
               /\ b.early_leave_flagged = mem[s].early_leave_flagged
               /\ b.early_leave_returned = mem[s].early_leave_returned
<1>1. CASE s \in jit
  <2>1. mem[s] = Fresh
    BY <1>1 DEF RowsInv
  <2>2. Consistent(Fresh, now, now)
    BY FreshConsistent DEF TimeInv, TypeOK
  <2> QED
    BY <1>1, <2>1, <2>2 DEF Consistent
<1>2. CASE s \notin jit
  BY <1>2, ResumedConsistent DEF TimeInv, TypeOK, MemoryInv, Consistent
<1> QED
  BY <1>1, <1>2

LEMMA FrameRows ==
    ASSUME TimeInv, RowsInv, phase = "running",
           NEW recognised \in SUBSET Students, process_track_frame(recognised)
    PROVE  /\ RowsInv'
           /\ \A s \in Students :
                rec[s].check_in_time # NULL => rec'[s].check_in_time = rec[s].check_in_time
<1>1. PICK jit \in EnrolledOnTheSpot(recognised), commits \in CommitOutcomes :
        LET tracked == known \cup jit
            before(s) == IF s \in jit THEN Fresh ELSE Resumed(mem[s])
            seen(s) == s \in recognised
        IN  /\ known' = tracked
            /\ rows' = rows \cup jit
            /\ mem' = [s \in Students |->
                         IF s \in tracked
                         THEN Observed(before(s), seen(s), commits[s])
                         ELSE mem[s]]
            /\ rec' = [s \in Students |->
                         IF s \in tracked /\ commits[s] >= 1
                         THEN RowAfter(rec[s], before(s), seen(s))
                         ELSE rec[s]]
            /\ open_leaves' = [s \in Students |->
                         IF s \in tracked /\ commits[s] = 2
                         THEN OpenLeavesAfter(open_leaves[s], before(s), seen(s))
                         ELSE open_leaves[s]]
            /\ events' = {e \in EventKind \X tracked :
                            Announces(e[1], before(e[2]), seen(e[2]), commits[e[2]])}
  BY DEF process_track_frame
<1> DEFINE tracked == known \cup jit
           before(s) == IF s \in jit THEN Fresh ELSE Resumed(mem[s])
           seen(s) == s \in recognised
<1>2. jit \cap known = {} /\ phase' = phase
  BY DEF EnrolledOnTheSpot, SubsetOutcomes, process_track_frame
<1>3. ASSUME NEW s \in Students
      PROVE  /\ s \notin known' =>
                  mem'[s] = Fresh /\ rec'[s] = NewRow /\ open_leaves'[s] = 0
             /\ Faithful(rec'[s], mem'[s])
             /\ rec[s].check_in_time # NULL => rec'[s].check_in_time = rec[s].check_in_time
  <2>1. CASE s \notin tracked
    <3>1. mem'[s] = mem[s] /\ rec'[s] = rec[s] /\ open_leaves'[s] = open_leaves[s]
      BY <1>1, <2>1
    <3> QED
      BY <1>1, <2>1, <3>1 DEF RowsInv
  <2>2. CASE s \in tracked
    <3>1. /\ before(s) \in StudentPresenceState
          /\ StayUpTo(before(s), now)
          /\ before(s).status = mem[s].status
          /\ before(s).check_in_time = mem[s].check_in_time
          /\ before(s).early_leave_flagged = mem[s].early_leave_flagged
      BY <1>2, BeforeFields DEF Consistent
    <3>2. rec[s] \in AttendanceRow /\ Faithful(rec[s], before(s))
      BY <3>1 DEF RowsInv, Faithful, TimeInv, TypeOK
    <3>3. mem'[s] = Observed(before(s), seen(s), commits[s])
      BY <1>1, <2>2
    <3>4. rec'[s] \in {rec[s], RowAfter(rec[s], before(s), seen(s))}
      BY <1>1, <2>2
    <3>5. s \in known'
      BY <1>1, <2>2
    <3> HIDE DEF before, seen
    <3> QED
      BY <3>1, <3>2, <3>3, <3>4, <3>5, FaithfulObserved
  <2> QED
    BY <2>1, <2>2
<1> QED
  BY <1>2, <1>3 DEF RowsInv

LEMMA FaithfulNew == Faithful(NewRow, Fresh)
BY DEF Faithful, NewRow, Fresh

\* A write of metrics or of a check-out does not touch what Faithful reads.
LEMMA MetricsKeepFaithful ==
    ASSUME NEW r \in AttendanceRow, NEW q, NEW m, NEW o, Faithful(r, m),
           q.status = r.status, q.check_in_time = r.check_in_time,
           o.status = m.status, o.check_in_time = m.check_in_time,
           o.early_leave_flagged = m.early_leave_flagged
    PROVE  Faithful(q, o)
BY DEF Faithful

LEMMA StartRows ==
    ASSUME TimeInv, RowsInv, start_session
    PROVE  RowsInv' /\ rec' = rec
<1>1. /\ phase = "idle" /\ phase' = "running"
      /\ mem' = [s \in Students |-> Fresh]
      /\ UNCHANGED <<rec, open_leaves>>
  BY DEF start_session, LoadStudents, Roster
<1>2. \A s \in Students : mem'[s] = Fresh /\ rec'[s] = NewRow /\ open_leaves'[s] = 0
  BY <1>1 DEF RowsInv
<1> QED
  BY <1>1, <1>2, FaithfulNew DEF RowsInv

LEMMA FlushRows ==
    ASSUME TimeInv, RowsInv, phase = "running", flush_presence_logs
    PROVE  /\ RowsInv'
           /\ \A s \in Students : /\ rec'[s].check_in_time = rec[s].check_in_time
                                  /\ rec'[s].status = rec[s].status
                                  /\ rec'[s].check_out_time = rec[s].check_out_time
<1>1. PICK written \in SubsetOutcomes(Flushed) :
        rec' = [s \in Students |->
                  IF s \in written
                  THEN [rec[s] EXCEPT !.total_present_seconds = PresentSeconds(mem[s])]
                  ELSE rec[s]]
  BY DEF flush_presence_logs
<1>2. written \subseteq known
  BY DEF SubsetOutcomes, Flushed
<1>3. UNCHANGED <<phase, known, mem, open_leaves>>
  BY DEF flush_presence_logs, memoryVars
<1>4. ASSUME NEW s \in Students
      PROVE  /\ rec'[s].check_in_time = rec[s].check_in_time
             /\ rec'[s].status = rec[s].status
             /\ rec'[s].check_out_time = rec[s].check_out_time
             /\ s \notin known => rec'[s] = rec[s]
  <2>1. rec[s] \in AttendanceRow
    BY DEF TimeInv, TypeOK
  <2> QED
    BY <1>1, <1>2, <2>1 DEF AttendanceRow
<1> QED
  BY <1>3, <1>4 DEF RowsInv, Faithful

LEMMA EndRows ==
    ASSUME TimeInv, RowsInv, phase = "running", end_session
    PROVE  /\ RowsInv'
           /\ \A s \in Students : rec'[s].check_in_time = rec[s].check_in_time
<1>1. PICK written \in SubsetOutcomes(Flushed),
           stamped \in SubsetOutcomes({s \in known : CheckedIn(mem[s])}) :
        rec' = [s \in Students |->
                  [rec[s] EXCEPT
                     !.total_present_seconds =
                         IF s \in written \cup stamped THEN PresentSeconds(mem[s]) ELSE @,
                     !.check_out_time =
                         IF s \in stamped THEN CheckOutAtEnd(@) ELSE @]]
  BY DEF end_session
<1>2. written \subseteq known /\ stamped \subseteq known
  BY DEF SubsetOutcomes, Flushed
<1>3. phase' = "ended" /\ known' = known /\ open_leaves' = open_leaves
  BY DEF end_session
<1>4. ASSUME NEW s \in Students
      PROVE  /\ rec'[s].check_in_time = rec[s].check_in_time
             /\ rec'[s].status = rec[s].status
             /\ s \notin known => rec'[s] = rec[s]
  <2>1. rec[s] \in AttendanceRow
    BY DEF TimeInv, TypeOK
  <2> QED
    BY <1>1, <1>2, <2>1 DEF AttendanceRow
<1>5. ASSUME NEW s \in Students
      PROVE  /\ mem'[s].status = mem[s].status
             /\ mem'[s].check_in_time = mem[s].check_in_time
             /\ mem'[s].early_leave_flagged = mem[s].early_leave_flagged
  <2>1. mem'[s] = [mem[s] EXCEPT !.total_present_seconds = PresentSeconds(mem[s]),
                                 !.last_presence_start = NULL]
    BY DEF end_session
  <2>2. mem[s] \in StudentPresenceState
    BY DEF TimeInv, TypeOK
  <2> QED
    BY <2>1, <2>2 DEF StudentPresenceState
<1> QED
  BY <1>3, <1>4, <1>5 DEF RowsInv, Faithful

CheckInKept ==
    \A s \in Students : rec[s].check_in_time # NULL => rec'[s].check_in_time = rec[s].check_in_time

LEMMA NextRows ==
    ASSUME TimeInv, RowsInv, [Next]_vars
    PROVE  RowsInv' /\ CheckInKept
<1>1. CASE start_session
  BY <1>1, StartRows DEF CheckInKept
<1>2. CASE phase = "running" /\ Frame
  BY <1>2, FrameRows DEF Frame, CheckInKept
<1>3. CASE phase = "running" /\ flush_presence_logs
  BY <1>3, FlushRows DEF CheckInKept
<1>4. CASE phase = "running" /\ end_session
  BY <1>4, EndRows DEF CheckInKept
<1>5. CASE UNCHANGED <<phase, known, mem, rec, open_leaves>>
  BY <1>5 DEF RowsInv, CheckInKept
<1>6. \/ Tick
      \/ pause_absence_tracking
      \/ \E seconds \in Timeouts : set_early_leave_timeout(seconds)
      \/ UNCHANGED vars
      => UNCHANGED <<phase, known, mem, rec, open_leaves>>
  BY DEF Tick, pause_absence_tracking, set_early_leave_timeout, vars, clockVars,
         memoryVars, databaseVars
<1> QED
  BY <1>1, <1>2, <1>3, <1>4, <1>5, <1>6 DEF Next

LEMMA InitRows == Init => RowsInv
BY FaithfulNew DEF Init, RowsInv

LEMMA RowsAlways == Spec => [](TimeInv /\ RowsInv)
BY InitTime, InitRows, NextTime, NextRows, PTL DEF Spec

\* Whatever commits fail, in whatever order, a row never holds a check-in, a
\* status or an accusation of leaving that memory does not.
THEOREM RowsNeverInvent == Spec => []RowNeverInvents
<1>1. TimeInv /\ RowsInv => RowNeverInvents
  BY DEF TimeInv, TypeOK, RowsInv, Faithful, RowNeverInvents
<1> QED
  BY <1>1, RowsAlways, PTL

\* Within the life of a service the first detection is never rewritten,
\* failing commits included.
THEOREM CheckInNeverChanges == Spec => CheckInIsFinal
<1>1. TimeInv /\ RowsInv /\ [Next]_vars => CheckInKept
  BY NextRows
<1> QED
  BY <1>1, RowsAlways, PTL DEF Spec, CheckInIsFinal, CheckInKept

-----------------------------------------------------------------------------
(* While no commit fails, rows and memory tell the same story               *)

Matches(r, m, n) ==
    /\ r.status = IF Away(m) THEN "early_leave" ELSE m.status
    /\ r.check_in_time = m.check_in_time
    /\ r.check_out_time = IF Away(m) THEN m.last_seen_at ELSE NULL
    /\ n = IF Away(m) THEN 1 ELSE 0

MatchInv ==
    phase = "running" =>
        /\ known \subseteq rows
        /\ \A s \in known : Matches(rec[s], mem[s], open_leaves[s])

LEMMA MatchesNew == Matches(NewRow, Fresh, 0)
BY DEF Matches, NewRow, Fresh, Away

LEMMA MatchesObserved ==
    ASSUME NEW r \in AttendanceRow, NEW m \in StudentPresenceState, StayUpTo(m, now),
           NEW n, Matches(r, m, n), NEW visible
    PROVE  Matches(RowAfter(r, m, visible), Observed(m, visible, 2),
                   OpenLeavesAfter(n, m, visible))
<1> DEFINE o == Observed(m, visible, 2)
           a == RowAfter(r, m, visible)
           left == Leaves(m, visible)
<1>1. /\ o.status = IF ChecksIn(m, visible) THEN NewStatus ELSE m.status
      /\ o.check_in_time = IF ChecksIn(m, visible) THEN now ELSE m.check_in_time
      /\ o.early_leave_flagged <=> m.early_leave_flagged \/ left
      /\ o.early_leave_returned <=>
           \/ m.early_leave_returned /\ ~left
           \/ Returns(m, visible)
      /\ ~visible => o.last_seen_at = m.last_seen_at
  BY ObservedFields
<1>2. /\ a.check_in_time = IF ChecksIn(m, visible) THEN now ELSE r.check_in_time
      /\ a.status = IF ChecksIn(m, visible) THEN NewStatus
                    ELSE IF Returns(m, visible) THEN m.status
                    ELSE IF left THEN "early_leave"
                    ELSE r.status
      /\ a.check_out_time =
           IF Returns(m, visible) THEN NULL
           ELSE IF left /\ m.last_seen_at # NULL THEN m.last_seen_at
           ELSE r.check_out_time
  BY RowAfterFields
<1> HIDE DEF o, a
<1>3. CASE ChecksIn(m, visible)
  <2>1. ~m.early_leave_flagged /\ ~Away(m) /\ ~left /\ ~Returns(m, visible)
    BY <1>3 DEF ChecksIn, CheckedIn, StayUpTo, Away, Leaves, Returns
  <2>2. ~Away(o)
    BY <1>1, <2>1 DEF Away
  <2>3. OpenLeavesAfter(n, m, visible) = n
    BY <2>1 DEF OpenLeavesAfter
  <2> QED
    BY <1>1, <1>2, <1>3, <2>1, <2>2, <2>3 DEF Matches, a, o
<1>4. CASE Returns(m, visible)
  <2>1. Away(m) /\ ~left /\ ~ChecksIn(m, visible)
    BY <1>4 DEF Returns, Leaves, ChecksIn
  <2>2. ~Away(o)
    BY <1>1, <1>4 DEF Away
  <2>3. OpenLeavesAfter(n, m, visible) = 0
    BY <1>4, <2>1 DEF OpenLeavesAfter, Matches
  <2> QED
    BY <1>1, <1>2, <1>4, <2>1, <2>2, <2>3 DEF Matches, a, o
<1>5. CASE left
  <2>1. ~Away(m) /\ ~visible /\ ~ChecksIn(m, visible) /\ ~Returns(m, visible)
    BY <1>5 DEF Returns, Leaves, ChecksIn
  <2>2. Away(o)
    BY <1>1, <1>5, <2>1 DEF Away
  <2>3. OpenLeavesAfter(n, m, visible) = 1
    BY <1>5, <2>1 DEF OpenLeavesAfter, Matches
  <2> QED
    BY <1>1, <1>2, <1>5, <2>1, <2>2, <2>3 DEF Matches, a, o
<1>6. CASE ~ChecksIn(m, visible) /\ ~Returns(m, visible) /\ ~left
  <2>1. Away(o) <=> Away(m)
    BY <1>1, <1>6 DEF Away
  <2>2. Away(m) => ~visible
    BY <1>6 DEF Returns, ChecksIn
  <2>3. OpenLeavesAfter(n, m, visible) = n
    BY <1>6 DEF OpenLeavesAfter
  <2> QED
    BY <1>1, <1>2, <1>6, <2>1, <2>2, <2>3 DEF Matches, a, o
<1> QED
  BY <1>3, <1>4, <1>5, <1>6

LEMMA FrameMatches ==
    ASSUME DBFaults = FALSE, TimeInv, RowsInv, MatchInv, phase = "running",
           NEW recognised \in SUBSET Students, process_track_frame(recognised)
    PROVE  MatchInv'
<1>1. PICK jit \in EnrolledOnTheSpot(recognised), commits \in CommitOutcomes :
        LET tracked == known \cup jit
            before(s) == IF s \in jit THEN Fresh ELSE Resumed(mem[s])
            seen(s) == s \in recognised
        IN  /\ known' = tracked
            /\ rows' = rows \cup jit
            /\ mem' = [s \in Students |->
                         IF s \in tracked
                         THEN Observed(before(s), seen(s), commits[s])
                         ELSE mem[s]]
            /\ rec' = [s \in Students |->
                         IF s \in tracked /\ commits[s] >= 1
                         THEN RowAfter(rec[s], before(s), seen(s))
                         ELSE rec[s]]
            /\ open_leaves' = [s \in Students |->
                         IF s \in tracked /\ commits[s] = 2
                         THEN OpenLeavesAfter(open_leaves[s], before(s), seen(s))
                         ELSE open_leaves[s]]
            /\ events' = {e \in EventKind \X tracked :
                            Announces(e[1], before(e[2]), seen(e[2]), commits[e[2]])}
  BY DEF process_track_frame
<1> DEFINE tracked == known \cup jit
           before(s) == IF s \in jit THEN Fresh ELSE Resumed(mem[s])
           seen(s) == s \in recognised
<1>2. jit \cap known = {} /\ jit \subseteq Students /\ known \subseteq Students
  BY DEF EnrolledOnTheSpot, SubsetOutcomes, TimeInv, TypeOK
<1>3. \A s \in Students : commits[s] = 2
  BY DEF CommitOutcomes
<1>4. known' \subseteq rows'
  BY <1>1 DEF MatchInv
<1>5. ASSUME NEW s \in known'
      PROVE  Matches(rec'[s], mem'[s], open_leaves'[s])
  <2>1. s \in tracked /\ s \in Students
    BY <1>1, <1>2
  <2>2. /\ before(s) \in StudentPresenceState
        /\ StayUpTo(before(s), now)
        /\ before(s).status = mem[s].status
        /\ before(s).check_in_time = mem[s].check_in_time
        /\ before(s).last_seen_at = mem[s].last_seen_at
        /\ before(s).early_leave_flagged = mem[s].early_leave_flagged
        /\ before(s).early_leave_returned = mem[s].early_leave_returned
    BY <1>2, <2>1, BeforeFields DEF Consistent
  <2>3. Matches(rec[s], mem[s], open_leaves[s])
    <3>1. CASE s \in known
      BY <3>1 DEF MatchInv
    <3>2. CASE s \notin known
      BY <2>1, <3>2, MatchesNew DEF RowsInv
    <3> QED
      BY <3>1, <3>2
  <2>4. rec[s] \in AttendanceRow /\ Matches(rec[s], before(s), open_leaves[s])
    BY <2>1, <2>2, <2>3 DEF Matches, Away, TimeInv, TypeOK
  <2>5. /\ mem'[s] = Observed(before(s), seen(s), 2)
        /\ rec'[s] = RowAfter(rec[s], before(s), seen(s))
        /\ open_leaves'[s] = OpenLeavesAfter(open_leaves[s], before(s), seen(s))
    BY <1>1, <1>3, <2>1
  <2> HIDE DEF before, seen
  <2> QED
    BY <2>2, <2>4, <2>5, MatchesObserved
<1> QED
  BY <1>4, <1>5 DEF MatchInv

LEMMA NextMatches ==
    ASSUME DBFaults = FALSE, TimeInv, RowsInv, MatchInv, [Next]_vars
    PROVE  MatchInv'
<1>1. CASE start_session
  <2>1. /\ phase = "idle" /\ known' = enrolled \cup Enrolled
        /\ rows' = rows \cup (enrolled \cup Enrolled)
        /\ mem' = [s \in Students |-> Fresh]
        /\ rec' = rec /\ open_leaves' = open_leaves
    BY <1>1 DEF start_session, LoadStudents, Roster
  <2>2. known' \subseteq Students
    BY <2>1, ConstantsAssumption DEF TimeInv, TypeOK
  <2>3. \A s \in Students : mem'[s] = Fresh /\ rec'[s] = NewRow /\ open_leaves'[s] = 0
    BY <2>1 DEF RowsInv
  <2> QED
    BY <2>1, <2>2, <2>3, MatchesNew DEF MatchInv
<1>2. CASE phase = "running" /\ Frame
  BY <1>2, FrameMatches DEF Frame
<1>3. CASE phase = "running" /\ flush_presence_logs
  <2>1. UNCHANGED <<phase, known, rows, mem, open_leaves>>
    BY <1>3 DEF flush_presence_logs, memoryVars
  <2>2. \A s \in Students : /\ rec'[s].check_in_time = rec[s].check_in_time
                            /\ rec'[s].status = rec[s].status
                            /\ rec'[s].check_out_time = rec[s].check_out_time
    BY <1>3, FlushRows
  <2>3. known \subseteq Students
    BY DEF TimeInv, TypeOK
  <2> QED
    BY <2>1, <2>2, <2>3 DEF MatchInv, Matches
<1>4. CASE phase = "running" /\ end_session
  BY <1>4 DEF end_session, MatchInv
<1>5. CASE UNCHANGED <<phase, known, rows, mem, rec, open_leaves>>
  BY <1>5 DEF MatchInv
<1>6. \/ Tick
      \/ pause_absence_tracking
      \/ \E seconds \in Timeouts : set_early_leave_timeout(seconds)
      \/ UNCHANGED vars
      => UNCHANGED <<phase, known, rows, mem, rec, open_leaves>>
  BY DEF Tick, pause_absence_tracking, set_early_leave_timeout, vars, clockVars,
         memoryVars, databaseVars
<1> QED
  BY <1>1, <1>2, <1>3, <1>4, <1>5, <1>6 DEF Next

\* While no commit fails: the row of every tracked student has the status,
\* the check-in and the check-out that memory implies, and there is an open
\* early-leave event exactly for those now away.
THEOREM RowsMatchMemory ==
    ASSUME DBFaults = FALSE
    PROVE  Spec => []RowMatchesMemory
<1>1. Init => MatchInv
  BY DEF Init, MatchInv
<1>2. TimeInv /\ RowsInv /\ MatchInv /\ [Next]_vars => MatchInv'
  BY NextMatches
<1>3. MatchInv => RowMatchesMemory
  BY DEF MatchInv, Matches, RowMatchesMemory
<1> QED
  BY <1>1, <1>2, <1>3, RowsAlways, PTL DEF Spec

-----------------------------------------------------------------------------
(* TrackPresence implements StandingPromise, for every set of students and  *)
(* of timeouts, every bound on time, and with or without failing commits.   *)
(* Resuming from a pause shifts every timer by the time offline; the proof  *)
(* is that this, and only this, makes the difference of two timestamps a    *)
(* stopwatch that stood still.                                              *)

\* The stopwatch of one student when absence is counted up to c.
WatchUpTo(m, c) ==
    IF CheckedIn(m) /\ ~Away(m) /\ m.absent_since # NULL
    THEN c - m.absent_since
    ELSE NULL

InClass == {"in", "back"}
Overdue(m, c) == StandingOf(m) \in InClass /\ WatchUpTo(m, c) # NULL /\ WatchUpTo(m, c) > timeout

\* Before start_session there is nothing to resume.
IdleInv == phase = "idle" => paused_at = NULL

RefineInv == TimeInv /\ RowsInv /\ IdleInv

LEMMA StandingInClass ==
    ASSUME NEW m
    PROVE  StandingOf(m) \in InClass <=> CheckedIn(m) /\ ~Away(m)
BY DEF StandingOf, InClass, Away

-----------------------------------------------------------------------------
(* One student                                                              *)

\* Resuming changes no standing, and a stopwatch counted up to now reads
\* what it read at the pause.
LEMMA ResumedWatch ==
    ASSUME now \in Time, paused_at \in MaybeTime,
           NEW m, Consistent(m, now, CountedNow)
    PROVE  /\ StandingOf(Resumed(m)) = StandingOf(m)
           /\ WatchUpTo(Resumed(m), now) = WatchUpTo(m, CountedNow)
<1>1. m \in StudentPresenceState
  BY DEF Consistent
<1>2. /\ Resumed(m).status = m.status
      /\ Resumed(m).early_leave_flagged = m.early_leave_flagged
      /\ Resumed(m).early_leave_returned = m.early_leave_returned
      /\ Resumed(m).absent_since = Shift(m.absent_since, OfflineDuration)
  BY <1>1 DEF Resumed, StudentPresenceState
<1>3. /\ StandingOf(Resumed(m)) = StandingOf(m)
      /\ CheckedIn(Resumed(m)) <=> CheckedIn(m)
      /\ Away(Resumed(m)) <=> Away(m)
  BY <1>2 DEF StandingOf, CheckedIn, Away
<1>4. CASE m.absent_since = NULL
  BY <1>2, <1>3, <1>4 DEF WatchUpTo, Shift
<1>5. CASE m.absent_since # NULL
  <2>1. /\ m.absent_since \in Int /\ now \in Int
        /\ OfflineDuration \in Int
        /\ now - OfflineDuration = CountedNow
    BY <1>1, <1>5 DEF StudentPresenceState, MaybeTime, Time, OfflineDuration, CountedNow
  <2>2. /\ Resumed(m).absent_since = m.absent_since + OfflineDuration
        /\ Resumed(m).absent_since # NULL
    BY <1>2, <1>5, <2>1, ConstantsAssumption DEF Shift
  <2>3. now - Resumed(m).absent_since = CountedNow - m.absent_since
    BY <2>1, <2>2
  <2> QED
    BY <1>3, <1>5, <2>2, <2>3 DEF WatchUpTo
<1> QED
  BY <1>3, <1>4, <1>5

\* A frame that sees the student.
LEMMA SeenStanding ==
    ASSUME now \in Time, NEW m, Consistent(m, now, now), NEW k
    PROVE  /\ StandingOf(Seen(m, k)) = CASE StandingOf(m) = "out" -> "in"
                                         [] StandingOf(m) = "left" -> "back"
                                         [] OTHER -> StandingOf(m)
           /\ WatchUpTo(Seen(m, k), now) = NULL
<1> DEFINE o == Seen(m, k)
<1>1. m \in StudentPresenceState /\ (~CheckedIn(m) => ~m.early_leave_flagged)
  BY DEF Consistent, StayUpTo
<1>2. /\ o.status = IF CheckedIn(m) THEN m.status ELSE NewStatus
      /\ o.early_leave_flagged = m.early_leave_flagged
      /\ o.early_leave_returned = (m.early_leave_returned \/ Returns(m, TRUE))
      /\ o.absent_since = NULL
  BY <1>1 DEF Seen, StudentPresenceState, ChecksIn, Returns
<1>3. CheckedIn(o)
  BY <1>2 DEF CheckedIn, NewStatus
<1>4. Away(o) <=> Away(m) /\ ~CheckedIn(m)
  BY <1>1, <1>2 DEF Away, Returns
<1>5. ~Away(o)
  BY <1>1, <1>4 DEF Away
<1> HIDE DEF o
<1>6. WatchUpTo(o, now) = NULL
  BY <1>2 DEF WatchUpTo
<1>7. StandingOf(o) = CASE StandingOf(m) = "out" -> "in"
                        [] StandingOf(m) = "left" -> "back"
                        [] OTHER -> StandingOf(m)
  <2>1. StandingOf(o) = IF m.early_leave_flagged THEN "back" ELSE "in"
    BY <1>2, <1>3, <1>5 DEF StandingOf
  <2> QED
    BY <1>1, <2>1 DEF StandingOf, Away
<1> QED
  BY <1>6, <1>7 DEF o

\* A frame that does not.
LEMMA UnseenStanding ==
    ASSUME now \in Time, NEW m, Consistent(m, now, now)
    PROVE  /\ StandingOf(Unseen(m)) = IF Overdue(m, now) THEN "left" ELSE StandingOf(m)
           /\ WatchUpTo(Unseen(m), now) =
                IF StandingOf(m) \notin InClass \/ Overdue(m, now) THEN NULL
                ELSE IF WatchUpTo(m, now) = NULL THEN 0 ELSE WatchUpTo(m, now)
<1> DEFINE o == Unseen(m)
           left == Leaves(m, FALSE)
<1>1. m \in StudentPresenceState
  BY DEF Consistent
<1>2. /\ o.status = m.status
      /\ o.early_leave_flagged = (m.early_leave_flagged \/ left)
      /\ o.early_leave_returned = (m.early_leave_returned /\ ~left)
      /\ o.absent_since = IF CheckedIn(m) /\ ~Away(m) /\ m.absent_since = NULL
                          THEN now ELSE m.absent_since
  BY <1>1 DEF Unseen, StudentPresenceState
<1>3. /\ now \in Int /\ now # NULL
      /\ m.absent_since # NULL => m.absent_since \in Int /\ now - m.absent_since # NULL
  BY <1>1, ConstantsAssumption DEF StudentPresenceState, MaybeTime, Time
<1>4. left <=> Overdue(m, now)
  BY <1>3, StandingInClass DEF Overdue, WatchUpTo, Leaves
<1>5. CheckedIn(o) <=> CheckedIn(m)
  BY <1>2 DEF CheckedIn
<1> HIDE DEF o
<1>6. CASE left
  <2>1. CheckedIn(m) /\ Away(o)
    BY <1>2, <1>6 DEF Leaves, Away
  <2> QED
    BY <1>4, <1>5, <1>6, <2>1 DEF StandingOf, WatchUpTo, o
<1>7. CASE ~left
  <2>1. Away(o) <=> Away(m)
    BY <1>2, <1>7 DEF Away
  <2>2. StandingOf(o) = StandingOf(m)
    BY <1>2, <1>5, <1>7, <2>1 DEF StandingOf
  <2>3. CASE StandingOf(m) \notin InClass
    BY <1>4, <1>5, <1>7, <2>1, <2>2, <2>3, StandingInClass DEF WatchUpTo, o
  <2>4. CASE StandingOf(m) \in InClass
    <3>1. CheckedIn(o) /\ ~Away(o) /\ CheckedIn(m) /\ ~Away(m)
      BY <1>5, <2>1, <2>4, StandingInClass
    <3>2. CASE m.absent_since = NULL
      <4>1. o.absent_since = now /\ now - now = 0
        BY <1>2, <1>3, <3>1, <3>2
      <4> QED
        BY <1>3, <1>4, <1>7, <2>2, <2>4, <3>1, <3>2, <4>1 DEF WatchUpTo, o
    <3>3. CASE m.absent_since # NULL
      BY <1>2, <1>3, <1>4, <1>7, <2>2, <2>4, <3>1, <3>3 DEF WatchUpTo, o
    <3> QED
      BY <3>2, <3>3
  <2> QED
    BY <2>3, <2>4
<1> QED
  BY <1>6, <1>7

-----------------------------------------------------------------------------
(* The class                                                                *)

\* The steps of the promise, with the abstract variables spelled out.
LEMMA StopwatchIs ==
    ASSUME NEW s \in Students
    PROVE  /\ StopwatchOf(mem[s]) = WatchUpTo(mem[s], CountedNow)
           /\ StopwatchOf(mem[s])' = WatchUpTo(mem'[s], CountedNow')
BY DEF StopwatchOf, WatchUpTo

LEMMA FrameLooks ==
    ASSUME RefineInv, phase = "running",
           NEW recognised \in SUBSET Students, process_track_frame(recognised)
    PROVE  Promise!Next
<1> USE DEF RefineInv
<1>1. PICK jit \in EnrolledOnTheSpot(recognised), commits \in CommitOutcomes :
        LET tracked == known \cup jit
            before(s) == IF s \in jit THEN Fresh ELSE Resumed(mem[s])
            seen(s) == s \in recognised
        IN  mem' = [s \in Students |->
                      IF s \in tracked
                      THEN Observed(before(s), seen(s), commits[s])
                      ELSE mem[s]]
  BY DEF process_track_frame
<1> DEFINE tracked == known \cup jit
           before(s) == IF s \in jit THEN Fresh ELSE Resumed(mem[s])
           visible == recognised \cap tracked
<1>2. /\ jit \cap known = {}
      /\ phase' = phase /\ timeout' = timeout /\ now' = now /\ paused_at' = NULL
  BY DEF EnrolledOnTheSpot, SubsetOutcomes, process_track_frame
<1>3. CountedNow' = now
  BY <1>2 DEF CountedNow
<1>4. ASSUME NEW s \in Students
      PROVE  /\ StandingOf(mem'[s]) =
                  IF s \in visible
                  THEN CASE StandingOf(mem[s]) = "out"  -> "in"
                         [] StandingOf(mem[s]) = "left" -> "back"
                         [] OTHER -> StandingOf(mem[s])
                  ELSE IF Overdue(mem[s], CountedNow) THEN "left" ELSE StandingOf(mem[s])
             /\ WatchUpTo(mem'[s], now) =
                  IF s \in visible \/ StandingOf(mem[s]) \notin InClass
                       \/ Overdue(mem[s], CountedNow)
                  THEN NULL
                  ELSE IF WatchUpTo(mem[s], CountedNow) = NULL THEN 0
                  ELSE WatchUpTo(mem[s], CountedNow)
  <2>1. /\ now \in Time /\ paused_at \in MaybeTime
        /\ Consistent(mem[s], now, CountedNow)
    BY DEF TimeInv, TypeOK, MemoryInv
  <2>2. mem[s] = Fresh => StandingOf(mem[s]) = "out"
    BY DEF Fresh, StandingOf, CheckedIn
  <2>3. CASE s \notin tracked
    <3>1. mem[s] = Fresh /\ mem'[s] = Fresh
      BY <1>1, <2>3 DEF RowsInv
    <3>2. WatchUpTo(mem'[s], now) = NULL
      BY <3>1 DEF WatchUpTo, Fresh, CheckedIn
    <3> QED
      BY <2>2, <2>3, <3>1, <3>2 DEF InClass, Overdue
  <2>4. CASE s \in tracked
    <3>1. /\ Consistent(before(s), now, now)
          /\ StandingOf(before(s)) = StandingOf(mem[s])
          /\ WatchUpTo(before(s), now) = WatchUpTo(mem[s], CountedNow)
      <4>1. CASE s \in jit
        <5>1. before(s) = Fresh /\ mem[s] = Fresh
          BY <1>2, <4>1 DEF RowsInv
        <5>2. WatchUpTo(Fresh, now) = NULL /\ WatchUpTo(Fresh, CountedNow) = NULL
          BY DEF WatchUpTo, Fresh, CheckedIn
        <5>3. Consistent(Fresh, now, now)
          BY <2>1, FreshConsistent
        <5> QED
          BY <5>1, <5>2, <5>3
      <4>2. CASE s \notin jit
        BY <2>1, <4>2, ResumedConsistent, ResumedWatch DEF TimeInv, MemoryInv
      <4> QED
        BY <4>1, <4>2
    <3>2. mem'[s] = IF s \in recognised THEN Seen(before(s), commits[s])
                    ELSE Unseen(before(s))
      BY <1>1, <2>4 DEF Observed
    <3>3. Overdue(before(s), now) <=> Overdue(mem[s], CountedNow)
      BY <3>1 DEF Overdue
    <3>4. s \in visible <=> s \in recognised
      BY <2>4
    <3> HIDE DEF before, visible
    <3>5. CASE s \in recognised
      <4>1. mem'[s] = Seen(before(s), commits[s])
        BY <3>2, <3>5
      <4> QED
        BY <2>1, <3>1, <3>4, <3>5, <4>1, SeenStanding
    <3>6. CASE s \notin recognised
      <4>1. mem'[s] = Unseen(before(s))
        BY <3>2, <3>6
      <4> QED
        BY <2>1, <3>1, <3>3, <3>4, <3>6, <4>1, UnseenStanding
    <3> QED
      BY <3>5, <3>6
  <2> QED
    BY <2>3, <2>4
<1>5. visible \in SUBSET Students
  OBVIOUS
<1> HIDE DEF visible
<1>6. ASSUME NEW s \in Students
      PROVE  /\ StandingOf(mem[s])' = StandingOf(mem'[s])
             /\ StopwatchOf(mem[s])' = WatchUpTo(mem'[s], now)
             /\ StopwatchOf(mem[s]) = WatchUpTo(mem[s], CountedNow)
             /\ Promise!Overdue(s) <=> Overdue(mem[s], CountedNow)
  BY <1>3, StopwatchIs DEF Promise!Overdue, Promise!InClass, Overdue, InClass
<1>7. Promise!Look(visible)
  BY <1>2, <1>4, <1>6 DEF Promise!Look, Promise!InClass, InClass
<1> QED
  BY <1>5, <1>7 DEF Promise!Next

\* Nothing that leaves memory and counted time alone moves a stopwatch.
LEMMA SameMemory ==
    ASSUME RefineInv, UNCHANGED mem, CountedNow' = CountedNow
    PROVE  /\ [s \in Students |-> StandingOf(mem[s])]' = [s \in Students |-> StandingOf(mem[s])]
           /\ [s \in Students |-> StopwatchOf(mem[s])]' = [s \in Students |-> StopwatchOf(mem[s])]
BY StopwatchIs

LEMMA TickElapses ==
    ASSUME RefineInv, phase = "running", Tick
    PROVE  Promise!Next
<1>1. /\ now' = now + 1 /\ now \in Time
      /\ UNCHANGED <<phase, timeout, paused_at, mem>>
  BY DEF Tick, memoryVars, RefineInv, TimeInv, TypeOK
<1>2. CASE paused_at = NULL
  <2>1. CountedNow = now /\ CountedNow' = now + 1
    BY <1>1, <1>2 DEF CountedNow
  <2>2. ASSUME NEW s \in Students
        PROVE  StopwatchOf(mem[s])' =
                 IF StopwatchOf(mem[s]) = NULL THEN NULL ELSE StopwatchOf(mem[s]) + 1
    <3>1. mem[s] \in StudentPresenceState
      BY DEF RefineInv, TimeInv, TypeOK
    <3>2. mem[s].absent_since # NULL =>
            /\ mem[s].absent_since \in Int /\ now \in Int
            /\ now - mem[s].absent_since # NULL
            /\ (now + 1) - mem[s].absent_since = (now - mem[s].absent_since) + 1
      BY <1>1, <3>1, ConstantsAssumption DEF StudentPresenceState, MaybeTime, Time
    <3> QED
      BY <1>1, <2>1, <3>2, StopwatchIs DEF WatchUpTo
  <2>3. Promise!Elapse
    BY <1>1, <1>2, <2>2 DEF Promise!Elapse
  <2> QED
    BY <2>3 DEF Promise!Next
<1>3. CASE paused_at # NULL
  <2>1. CountedNow' = CountedNow
    BY <1>1, <1>3 DEF CountedNow
  <2>2. Promise!Elapse
    BY <1>1, <1>3, <2>1, SameMemory DEF Promise!Elapse
  <2> QED
    BY <2>2 DEF Promise!Next
<1> QED
  BY <1>2, <1>3

LEMMA StepRefines ==
    ASSUME RefineInv, [Next]_vars
    PROVE  [Promise!Next]_Promise!vars
<1>1. CASE start_session
  <2>1. /\ phase = "idle" /\ phase' = "running" /\ paused_at = NULL /\ paused_at' = NULL
        /\ timeout' \in Timeouts
    BY <1>1 DEF start_session, LoadStudents, RefineInv, IdleInv
  <2>2. \A s \in Students : mem[s] = Fresh /\ mem'[s] = Fresh
    BY <1>1, <2>1 DEF start_session, LoadStudents, RefineInv, RowsInv
  <2>3. \A s \in Students : /\ StandingOf(mem[s])' = StandingOf(mem[s])
                            /\ StopwatchOf(mem[s])' = StopwatchOf(mem[s])
    <3>1. \A c : WatchUpTo(Fresh, c) = NULL
      BY DEF WatchUpTo, Fresh, CheckedIn
    <3> QED
      BY <2>2, <3>1, StopwatchIs
  <2>4. Promise!SetLimit
    BY <2>1, <2>3 DEF Promise!SetLimit
  <2> QED
    BY <2>4 DEF Promise!Next
<1>2. CASE phase = "running" /\ Tick
  BY <1>2, TickElapses
<1>3. CASE phase = "running" /\ Frame
  BY <1>3, FrameLooks DEF Frame
<1>4. CASE phase = "running" /\ pause_absence_tracking
  <2>1. /\ UNCHANGED <<now, phase, timeout, mem>>
        /\ paused_at' = IF paused_at = NULL THEN now ELSE paused_at
        /\ now # NULL
    BY <1>4, ConstantsAssumption
       DEF pause_absence_tracking, memoryVars, RefineInv, TimeInv, TypeOK, Time
  <2>2. CountedNow' = CountedNow /\ paused_at' # NULL
    BY <2>1 DEF CountedNow
  <2>3. Promise!Freeze
    BY <1>4, <2>1, <2>2, SameMemory DEF Promise!Freeze
  <2> QED
    BY <2>3 DEF Promise!Next
<1>5. ASSUME phase = "running", NEW seconds \in Timeouts, set_early_leave_timeout(seconds)
      PROVE  Promise!Next
  <2>1. UNCHANGED <<now, phase, paused_at, mem>> /\ timeout' \in Timeouts
    BY <1>5 DEF set_early_leave_timeout, memoryVars
  <2>2. CountedNow' = CountedNow
    BY <2>1 DEF CountedNow
  <2>3. Promise!SetLimit
    BY <1>5, <2>1, <2>2, SameMemory DEF Promise!SetLimit
  <2> QED
    BY <2>3 DEF Promise!Next
<1>6. CASE phase = "running" /\ end_session
  <2>1. /\ UNCHANGED <<now, timeout, paused_at>> /\ phase' = "ended"
        /\ mem' = [s \in Students |->
                     [mem[s] EXCEPT !.total_present_seconds = PresentSeconds(mem[s]),
                                    !.last_presence_start = NULL]]
    BY <1>6 DEF end_session, clockVars
  <2>2. CountedNow' = CountedNow
    BY <2>1 DEF CountedNow
  <2>3. ASSUME NEW s \in Students
        PROVE  /\ StandingOf(mem[s])' = StandingOf(mem[s])
               /\ StopwatchOf(mem[s])' = StopwatchOf(mem[s])
    <3>1. mem[s] \in StudentPresenceState
      BY DEF RefineInv, TimeInv, TypeOK
    <3>2. /\ mem'[s].status = mem[s].status
          /\ mem'[s].absent_since = mem[s].absent_since
          /\ mem'[s].early_leave_flagged = mem[s].early_leave_flagged
          /\ mem'[s].early_leave_returned = mem[s].early_leave_returned
      BY <2>1, <3>1 DEF StudentPresenceState
    <3> QED
      BY <2>2, <3>2, StopwatchIs DEF StandingOf, WatchUpTo, CheckedIn, Away
  <2>4. Promise!Close
    BY <1>6, <2>1, <2>3 DEF Promise!Close
  <2> QED
    BY <2>4 DEF Promise!Next
<1>7. CASE flush_presence_logs \/ UNCHANGED vars
  <2>1. UNCHANGED <<now, phase, timeout, paused_at, mem>>
    BY <1>7 DEF flush_presence_logs, vars, clockVars, memoryVars
  <2>2. CountedNow' = CountedNow
    BY <2>1 DEF CountedNow
  <2> QED
    BY <2>1, <2>2, SameMemory DEF Promise!vars
<1> QED
  BY <1>1, <1>2, <1>3, <1>4, <1>5, <1>6, <1>7 DEF Next

LEMMA InitRefines == Init => Promise!Init
<1> SUFFICES ASSUME Init PROVE Promise!Init
  OBVIOUS
<1>1. \A s \in Students : mem[s] = Fresh
  BY DEF Init
<1>2. StandingOf(Fresh) = "out" /\ \A c : WatchUpTo(Fresh, c) = NULL
  BY DEF StandingOf, WatchUpTo, Fresh, CheckedIn
<1> QED
  BY <1>1, <1>2, StopwatchIs DEF Init, Promise!Init

LEMMA IdleAlways == Spec => []IdleInv
<1>1. Init => IdleInv
  BY DEF Init, IdleInv
<1>2. IdleInv /\ [Next]_vars => IdleInv'
  BY DEF IdleInv, Next, vars, clockVars, start_session, LoadStudents, Tick, Frame,
         process_track_frame, pause_absence_tracking, set_early_leave_timeout,
         flush_presence_logs, end_session
<1> QED
  BY <1>1, <1>2, PTL DEF Spec

\* TrackPresenceService keeps its promise: with its timestamps read as
\* stopwatches, every behaviour of the service is one of StandingPromise, so
\* a student leaves early exactly in the first frame that finds more than the
\* timeout of absence, pauses not counted.
THEOREM KeepsPromise == Spec => ImplementsPromise
<1>1. RefineInv /\ [Next]_vars => [Promise!Next]_Promise!vars
  BY StepRefines
<1> QED
  BY <1>1, InitRefines, IdleAlways, RowsAlways, PTL
     DEF Spec, RefineInv, ImplementsPromise, Promise!Spec

=============================================================================
