-------------------------- MODULE SessionProofs --------------------------
(***************************************************************************)
(* Theorems about a whole session: what clients are told while it runs,    *)
(* what it leaves in its rows when it closes, and what holds when          *)
(* TrackPresence runs under each of its callers.  The invariants of        *)
(* TrackPresenceProofs carry over to AttendanceDay, SessionPipeline,       *)
(* FrameReports and LiveAttendance, whose steps are steps of TrackPresence *)
(* or leave its variables alone.                                           *)
(***************************************************************************)
EXTENDS TrackPresenceProofs, AttendanceReports, SessionPipeline, FrameReports, LiveAttendance,
        FiniteSetTheorems

-----------------------------------------------------------------------------
(* Announcements                                                            *)

LEMMA FrameAnnounces ==
    ASSUME TimeInv, RowsInv, phase = "running",
           NEW recognised \in SUBSET Students, process_track_frame(recognised)
    PROVE  AnnouncedIsRecorded'
<1>1. PICK jit \in EnrolledOnTheSpot(recognised), commits \in CommitOutcomes :
        LET tracked == known \cup jit
            before(s) == IF s \in jit THEN Fresh ELSE Resumed(mem[s])
            seen(s) == s \in recognised
        IN  /\ known' = tracked
            /\ mem' = [s \in Students |->
                         IF s \in tracked
                         THEN Observed(before(s), seen(s), commits[s])
                         ELSE mem[s]]
            /\ rec' = [s \in Students |->
                         IF s \in tracked /\ commits[s] >= 1
                         THEN RowAfter(rec[s], before(s), seen(s))
                         ELSE rec[s]]
            /\ events' = {e \in EventKind \X tracked :
                            Announces(e[1], before(e[2]), seen(e[2]), commits[e[2]])}
  BY DEF process_track_frame
<1> DEFINE tracked == known \cup jit
           before(s) == IF s \in jit THEN Fresh ELSE Resumed(mem[s])
           seen(s) == s \in recognised
<1>2. /\ jit \cap known = {} /\ jit \subseteq Students /\ known \subseteq Students
      /\ now' = now
      /\ \A s \in Students : commits[s] \in {0, 1, 2}
  BY DEF EnrolledOnTheSpot, SubsetOutcomes, CommitOutcomes, process_track_frame, TimeInv, TypeOK
<1>3. ASSUME NEW s \in known'
      PROVE  /\ <<"check_in", s>> \in events' =>
                  rec'[s].status = mem'[s].status /\ rec'[s].check_in_time = now
             /\ <<"early_leave_return", s>> \in events' =>
                  rec'[s].status = mem'[s].status /\ rec'[s].check_out_time = NULL
  <2>1. s \in tracked /\ s \in Students /\ commits[s] \in {0, 1, 2}
    BY <1>1, <1>2
  <2>2. before(s) \in StudentPresenceState /\ rec[s] \in AttendanceRow
    BY <1>2, <2>1, BeforeFields DEF TimeInv, TypeOK
  <2>3. /\ mem'[s] = Observed(before(s), seen(s), commits[s])
        /\ commits[s] >= 1 => rec'[s] = RowAfter(rec[s], before(s), seen(s))
    BY <1>1, <2>1
  <2>4. \A kind : <<kind, s>> \in events' => Announces(kind, before(s), seen(s), commits[s])
    BY <1>1
  <2> HIDE DEF before, seen
  <2>5. ASSUME <<"check_in", s>> \in events'
        PROVE  rec'[s].status = mem'[s].status /\ rec'[s].check_in_time = now
    <3>1. ChecksIn(before(s), seen(s)) /\ commits[s] >= 1
      BY <2>4, <2>5 DEF Announces
    <3> QED
      BY <2>2, <2>3, <3>1, ObservedFields, RowAfterFields
  <2>6. ASSUME <<"early_leave_return", s>> \in events'
        PROVE  rec'[s].status = mem'[s].status /\ rec'[s].check_out_time = NULL
    <3>1. Returns(before(s), seen(s)) /\ commits[s] = 2
      BY <2>4, <2>6 DEF Announces
    <3>2. ~ChecksIn(before(s), seen(s)) /\ commits[s] >= 1
      BY <3>1 DEF Returns, ChecksIn
    <3> QED
      BY <2>2, <2>3, <3>1, <3>2, ObservedFields, RowAfterFields
  <2> QED
    BY <2>5, <2>6
<1> QED
  BY <1>2, <1>3 DEF AnnouncedIsRecorded

\* Whatever commits fail, a check-in or a return that process_track_frame
\* returns to its caller is in the row.
THEOREM AnnouncedAlwaysRecorded == Spec => []AnnouncedIsRecorded
<1>1. Init => AnnouncedIsRecorded
  BY DEF Init, AnnouncedIsRecorded
<1>2. ASSUME TimeInv, RowsInv, AnnouncedIsRecorded, [Next]_vars
      PROVE  AnnouncedIsRecorded'
  <2>1. CASE phase = "running" /\ Frame
    BY <1>2, <2>1, FrameAnnounces DEF Frame
  <2>2. CASE UNCHANGED vars
    BY <1>2, <2>2 DEF AnnouncedIsRecorded, vars, clockVars, memoryVars, databaseVars
  <2>3. CASE events' = {}
    BY <2>3 DEF AnnouncedIsRecorded
  <2> QED
    BY <1>2, <2>1, <2>2, <2>3
       DEF Next, start_session, LoadStudents, Tick, pause_absence_tracking,
           set_early_leave_timeout, flush_presence_logs, end_session
<1> QED
  BY <1>1, <1>2, RowsAlways, PTL DEF Spec

-----------------------------------------------------------------------------
(* The last sighting                                                        *)

SeenSince(m) ==
    CheckedIn(m) => m.last_seen_at # NULL /\ m.check_in_time <= m.last_seen_at

LastSeenInv == \A s \in Students : SeenSince(mem[s])

LEMMA ObservedSeenSince ==
    ASSUME now \in Time, NEW m, Consistent(m, now, now), SeenSince(m), NEW visible, NEW k
    PROVE  SeenSince(Observed(m, visible, k))
<1> DEFINE o == Observed(m, visible, k)
<1>1. /\ m \in StudentPresenceState
      /\ CheckedIn(m) => m.check_in_time <= now
      /\ now # NULL /\ now <= now
  BY ConstantsAssumption DEF Consistent, StayUpTo, Time
<1>2. /\ o.status = IF ChecksIn(m, visible) THEN NewStatus ELSE m.status
      /\ o.check_in_time = IF ChecksIn(m, visible) THEN now ELSE m.check_in_time
      /\ ~visible => o.last_seen_at = m.last_seen_at
  BY <1>1, ObservedFields
<1>3. visible => /\ o.last_seen_at \in {now, m.last_seen_at}
                 /\ ChecksIn(m, visible) => o.last_seen_at = now
  BY <1>1 DEF Observed, Seen, StudentPresenceState, ChecksIn
<1> HIDE DEF o
<1>4. CASE ChecksIn(m, visible)
  BY <1>1, <1>2, <1>3, <1>4 DEF SeenSince, ChecksIn, o
<1>5. CASE ~ChecksIn(m, visible)
  <2>1. CheckedIn(o) <=> CheckedIn(m)
    BY <1>2, <1>5 DEF CheckedIn
  <2> QED
    BY <1>1, <1>2, <1>3, <1>5, <2>1 DEF SeenSince, o
<1> QED
  BY <1>4, <1>5

LEMMA NextLastSeen ==
    ASSUME TimeInv, RowsInv, LastSeenInv, [Next]_vars
    PROVE  LastSeenInv'
<1>1. CASE start_session
  BY <1>1 DEF start_session, LoadStudents, LastSeenInv, SeenSince, Fresh, CheckedIn
<1>2. ASSUME phase = "running",
             NEW recognised \in SUBSET Students, process_track_frame(recognised)
      PROVE  LastSeenInv'
  <2>1. PICK jit \in EnrolledOnTheSpot(recognised), commits \in CommitOutcomes :
          LET tracked == known \cup jit
              before(s) == IF s \in jit THEN Fresh ELSE Resumed(mem[s])
              seen(s) == s \in recognised
          IN  mem' = [s \in Students |->
                        IF s \in tracked
                        THEN Observed(before(s), seen(s), commits[s])
                        ELSE mem[s]]
    BY <1>2 DEF process_track_frame
  <2> DEFINE before(s) == IF s \in jit THEN Fresh ELSE Resumed(mem[s])
             seen(s) == s \in recognised
  <2>2. jit \cap known = {} /\ now \in Time
    BY DEF EnrolledOnTheSpot, SubsetOutcomes, TimeInv, TypeOK
  <2>3. ASSUME NEW s \in Students
        PROVE  SeenSince(mem'[s])
    <3>1. /\ Consistent(before(s), now, now)
          /\ before(s).status = mem[s].status
          /\ before(s).check_in_time = mem[s].check_in_time
          /\ before(s).last_seen_at = mem[s].last_seen_at
      BY <1>2, <2>2, BeforeFields
    <3>2. SeenSince(mem[s]) /\ SeenSince(before(s))
      BY <3>1 DEF LastSeenInv, SeenSince, CheckedIn
    <3>3. mem'[s] \in {mem[s], Observed(before(s), seen(s), commits[s])}
      BY <2>1
    <3> HIDE DEF before, seen
    <3> QED
      BY <2>2, <3>1, <3>2, <3>3, ObservedSeenSince
  <2> QED
    BY <2>3 DEF LastSeenInv
<1>3. CASE end_session
  <2>1. ASSUME NEW s \in Students
        PROVE  SeenSince(mem'[s])
    <3>1. mem[s] \in StudentPresenceState
      BY DEF TimeInv, TypeOK
    <3>2. /\ mem'[s].status = mem[s].status
          /\ mem'[s].check_in_time = mem[s].check_in_time
          /\ mem'[s].last_seen_at = mem[s].last_seen_at
      BY <1>3, <3>1 DEF end_session, StudentPresenceState
    <3> QED
      BY <3>2 DEF LastSeenInv, SeenSince, CheckedIn
  <2> QED
    BY <2>1 DEF LastSeenInv
<1>4. CASE UNCHANGED mem
  BY <1>4 DEF LastSeenInv
<1>5. \/ Tick
      \/ pause_absence_tracking
      \/ \E seconds \in Timeouts : set_early_leave_timeout(seconds)
      \/ flush_presence_logs
      \/ UNCHANGED vars
      => UNCHANGED mem
  BY DEF Tick, pause_absence_tracking, set_early_leave_timeout, flush_presence_logs,
         vars, memoryVars
<1> QED
  BY <1>1, <1>2, <1>3, <1>4, <1>5 DEF Next, Frame

LEMMA LastSeenAlways == Spec => []LastSeenInv
<1>1. Init => LastSeenInv
  BY DEF Init, LastSeenInv, SeenSince, Fresh, CheckedIn
<1> QED
  BY <1>1, NextLastSeen, RowsAlways, PTL DEF Spec

-----------------------------------------------------------------------------
(* Closing                                                                  *)

LEMMA EndCloses ==
    ASSUME DBFaults = FALSE, TimeInv, MatchInv, LastSeenInv,
           phase = "running", end_session
    PROVE  ClosedRows'
<1>1. PICK written \in SubsetOutcomes(Flushed),
           stamped \in SubsetOutcomes({s \in known : CheckedIn(mem[s])}) :
        rec' = [s \in Students |->
                  [rec[s] EXCEPT
                     !.total_present_seconds =
                         IF s \in written \cup stamped THEN PresentSeconds(mem[s]) ELSE @,
                     !.check_out_time =
                         IF s \in stamped THEN CheckOutAtEnd(@) ELSE @]]
  BY DEF end_session
<1>2. stamped = {s \in known : CheckedIn(mem[s])}
  BY DEF SubsetOutcomes
<1>3. known' = known /\ now' = now /\ now \in Time /\ known \subseteq Students
  BY DEF end_session, clockVars, TimeInv, TypeOK
<1>4. ASSUME NEW s \in known, CheckedIn(mem'[s])
      PROVE  /\ rec'[s].check_out_time # NULL
             /\ rec'[s].check_in_time <= rec'[s].check_out_time
             /\ rec'[s].check_out_time = IF Away(mem'[s]) THEN mem'[s].last_seen_at ELSE now
  <2>1. /\ s \in Students
        /\ mem[s] \in StudentPresenceState /\ rec[s] \in AttendanceRow
        /\ StayUpTo(mem[s], now) /\ SeenSince(mem[s])
        /\ now # NULL
    BY <1>3, ConstantsAssumption
       DEF TimeInv, TypeOK, MemoryInv, Consistent, LastSeenInv, Time
  <2>2. /\ mem'[s].status = mem[s].status
        /\ mem'[s].last_seen_at = mem[s].last_seen_at
        /\ mem'[s].early_leave_flagged = mem[s].early_leave_flagged
        /\ mem'[s].early_leave_returned = mem[s].early_leave_returned
    BY <2>1 DEF end_session, StudentPresenceState
  <2>3. CheckedIn(mem[s]) /\ (Away(mem'[s]) <=> Away(mem[s]))
    BY <1>4, <2>2 DEF CheckedIn, Away
  <2>4. Matches(rec[s], mem[s], open_leaves[s])
    BY DEF MatchInv
  <2>5. /\ rec'[s].check_in_time = rec[s].check_in_time
        /\ rec'[s].check_out_time = CheckOutAtEnd(rec[s].check_out_time)
    BY <1>1, <1>2, <2>1, <2>3 DEF AttendanceRow
  <2>6. mem[s].check_in_time <= now /\ mem[s].check_in_time <= mem[s].last_seen_at
        /\ mem[s].last_seen_at # NULL
    BY <2>1, <2>3 DEF StayUpTo, SeenSince
  <2> QED
    BY <2>1, <2>2, <2>3, <2>4, <2>5, <2>6 DEF Matches, CheckOutAtEnd
<1> QED
  BY <1>3, <1>4 DEF ClosedRows

\* While no commit fails, a closed session leaves every attendee with a
\* check-out that is not before the check-in: the last sighting of those who
\* left early and did not come back, the end of the session for the others.
THEOREM SessionsCloseRows ==
    ASSUME DBFaults = FALSE
    PROVE  Spec => []ClosedRows
<1>1. Init => MatchInv /\ ClosedRows
  BY DEF Init, MatchInv, ClosedRows
<1>2. ASSUME TimeInv, RowsInv, LastSeenInv, MatchInv, ClosedRows, [Next]_vars
      PROVE  MatchInv' /\ ClosedRows'
  <2>1. MatchInv'
    BY <1>2, NextMatches
  <2>2. CASE phase = "running" /\ end_session
    BY <1>2, <2>1, <2>2, EndCloses
  <2>3. CASE UNCHANGED vars
    BY <1>2, <2>1, <2>3 DEF ClosedRows, vars, clockVars, memoryVars, databaseVars
  <2>4. CASE phase' # "ended"
    BY <2>1, <2>4 DEF ClosedRows
  <2> QED
    BY <1>2, <2>1, <2>2, <2>3, <2>4
       DEF Next, start_session, LoadStudents, Tick, Frame, process_track_frame,
           pause_absence_tracking, set_early_leave_timeout, flush_presence_logs
<1> QED
  BY <1>1, <1>2, RowsAlways, LastSeenAlways, PTL DEF Spec

-----------------------------------------------------------------------------
(* A day of restarts, corrections and closers (AttendanceDay)               *)

Attending(s) == s \in known /\ CheckedIn(mem[s])
Arrived(s) == rec[s].check_in_time # NULL


\* A frame changes a student only if tracked, and then by Observed and
\* RowAfter of what memory held of them.
LEMMA FrameEffect ==
    ASSUME TimeInv, NEW recognised \in SUBSET Students, process_track_frame(recognised)
    PROVE  /\ known \subseteq known' /\ known' \subseteq Students
           /\ rows' = rows \cup (known' \ known)
           /\ enrolled \subseteq enrolled' /\ known' \ known \subseteq enrolled'
           /\ UNCHANGED <<now, phase, session_start, timeout>>
           /\ \A s \in Students :
                \/ mem'[s] = mem[s] /\ rec'[s] = rec[s] /\ s \notin known'
                \/ /\ s \in known'
                   /\ \E m \in StudentPresenceState, visible \in BOOLEAN, k \in {0, 1, 2} :
                        /\ Consistent(m, now, now)
                        /\ s \in known => m = Resumed(mem[s])
                        /\ s \in known => m.status = mem[s].status
                        /\ mem'[s] = Observed(m, visible, k)
                        /\ rec'[s] = IF k >= 1 THEN RowAfter(rec[s], m, visible) ELSE rec[s]
<1>1. PICK jit \in EnrolledOnTheSpot(recognised), commits \in CommitOutcomes :
        LET tracked == known \cup jit
            before(s) == IF s \in jit THEN Fresh ELSE Resumed(mem[s])
            seen(s) == s \in recognised
        IN  /\ known' = tracked
            /\ rows' = rows \cup jit
            /\ mem' = [s \in Students |->
                         IF s \in tracked
                         THEN Observed(before(s), seen(s), commits[s])
                         ELSE mem[s]]
            /\ rec' = [s \in Students |->
                         IF s \in tracked /\ commits[s] >= 1
                         THEN RowAfter(rec[s], before(s), seen(s))
                         ELSE rec[s]]
  BY DEF process_track_frame
<1> DEFINE tracked == known \cup jit
           before(s) == IF s \in jit THEN Fresh ELSE Resumed(mem[s])
           seen(s) == s \in recognised
<1>2. /\ jit \subseteq recognised \ known
      /\ known \subseteq Students
      /\ now \in Time /\ paused_at \in MaybeTime /\ (paused_at # NULL => paused_at <= now)
      /\ \A s \in Students : commits[s] \in {0, 1, 2}
  <2>1. jit \subseteq recognised \ known
    BY DEF EnrolledOnTheSpot, SubsetOutcomes
  <2>2. \A s \in Students : commits[s] \in {0, 1, 2}
    BY DEF CommitOutcomes
  <2> QED
    BY <2>1, <2>2 DEF TimeInv, TypeOK, MemoryInv
<1>3. /\ known \subseteq known' /\ known' \subseteq Students
      /\ known' \ known = jit
      /\ rows' = rows \cup (known' \ known)
  BY <1>1, <1>2
<1>4. /\ enrolled \subseteq enrolled' /\ known' \ known \subseteq enrolled'
      /\ UNCHANGED <<now, phase, session_start, timeout>>
  BY DEF process_track_frame
<1>5. ASSUME NEW s \in Students, s \in tracked
      PROVE  \E m \in StudentPresenceState, visible \in BOOLEAN, k \in {0, 1, 2} :
               /\ Consistent(m, now, now)
               /\ s \in known => m = Resumed(mem[s])
               /\ s \in known => m.status = mem[s].status
               /\ mem'[s] = Observed(m, visible, k)
               /\ rec'[s] = IF k >= 1 THEN RowAfter(rec[s], m, visible) ELSE rec[s]
  <2>1. Consistent(before(s), now, now) /\ (s \in known => before(s).status = mem[s].status)
    <3>1. CASE s \in jit
      BY <1>2, <3>1, FreshConsistent
    <3>2. CASE s \notin jit
      BY <1>2, <3>2, ResumedConsistent DEF TimeInv, MemoryInv
    <3> QED
      BY <3>1, <3>2
  <2>2. before(s) \in StudentPresenceState
    BY <2>1 DEF Consistent
  <2>3. s \in known => before(s) = Resumed(mem[s])
    BY <1>2
  <2>4. /\ mem'[s] = Observed(before(s), seen(s), commits[s])
        /\ rec'[s] = IF commits[s] >= 1 THEN RowAfter(rec[s], before(s), seen(s)) ELSE rec[s]
    BY <1>1, <1>5
  <2>5. seen(s) \in BOOLEAN /\ commits[s] \in {0, 1, 2}
    BY <1>2
  <2> HIDE DEF before, seen
  <2> QED
    BY <2>1, <2>2, <2>3, <2>4, <2>5
<1>6. ASSUME NEW s \in Students, s \notin tracked
      PROVE  mem'[s] = mem[s] /\ rec'[s] = rec[s] /\ s \notin known'
  BY <1>1, <1>6
<1> QED
  BY <1>1, <1>3, <1>4, <1>5, <1>6

\* Nobody is marked absent by a frame or forgotten by memory, and a new
\* check-in or a check-out taken back is of somebody tracked and checked in.
LEMMA FrameKeeps ==
    ASSUME TimeInv, NEW recognised \in SUBSET Students, process_track_frame(recognised),
           NEW s \in Students
    PROVE  /\ rec[s].status # "absent" => rec'[s].status # "absent"
           /\ Attending(s) => Attending(s)'
           /\ Arrived(s)' => Arrived(s) \/ (Attending(s)' /\ rec'[s].status # "absent")
           /\ rec[s].check_out_time # NULL =>
                rec'[s].check_out_time # NULL \/ Attending(s)'
<1> USE DEF Attending, Arrived
<1>0. known \subseteq known'
  BY FrameEffect
<1>1. CASE mem'[s] = mem[s] /\ rec'[s] = rec[s] /\ s \notin known'
  BY <1>0, <1>1
<1>2. ASSUME s \in known',
             NEW m \in StudentPresenceState, NEW visible \in BOOLEAN, NEW k \in {0, 1, 2},
             Consistent(m, now, now),
             s \in known => m.status = mem[s].status,
             mem'[s] = Observed(m, visible, k),
             rec'[s] = IF k >= 1 THEN RowAfter(rec[s], m, visible) ELSE rec[s]
      PROVE  /\ rec[s].status # "absent" => rec'[s].status # "absent"
             /\ Attending(s) => Attending(s)'
             /\ Arrived(s)' => Arrived(s) \/ (Attending(s)' /\ rec'[s].status # "absent")
             /\ rec[s].check_out_time # NULL =>
                  rec'[s].check_out_time # NULL \/ Attending(s)'
  <2>1. rec[s] \in AttendanceRow /\ NewStatus # "absent"
    BY DEF TimeInv, TypeOK, NewStatus
  <2>2. mem'[s].status = IF ChecksIn(m, visible) THEN NewStatus ELSE m.status
    BY <1>2, ObservedFields
  <2>3. CASE rec'[s] = rec[s]
    BY <1>2, <2>1, <2>2, <2>3 DEF CheckedIn, ChecksIn
  <2>4. CASE rec'[s] = RowAfter(rec[s], m, visible)
    <3>1. /\ rec'[s].check_in_time = IF ChecksIn(m, visible) THEN now ELSE rec[s].check_in_time
          /\ rec'[s].status = IF ChecksIn(m, visible) THEN NewStatus
                              ELSE IF Returns(m, visible) THEN m.status
                              ELSE IF Leaves(m, visible) THEN "early_leave"
                              ELSE rec[s].status
          /\ rec'[s].check_out_time =
               IF Returns(m, visible) THEN NULL
               ELSE IF Leaves(m, visible) /\ m.last_seen_at # NULL THEN m.last_seen_at
               ELSE rec[s].check_out_time
      BY <2>1, <2>4, RowAfterFields
    <3> QED
      BY <1>2, <2>1, <2>2, <3>1 DEF CheckedIn, ChecksIn, Returns
  <2> QED
    BY <1>2, <2>3, <2>4
<1> QED
  BY <1>1, <1>2, FrameEffect

\* Ending stamps whoever it finds checked in, when no commit fails, and takes
\* nothing else back.
LEMMA EndKeeps ==
    ASSUME TimeInv, end_session, NEW s \in Students
    PROVE  /\ rec'[s].status = rec[s].status
           /\ Arrived(s)' <=> Arrived(s)
           /\ Attending(s)' <=> Attending(s)
           /\ rec[s].check_out_time # NULL => rec'[s].check_out_time # NULL
           /\ DBFaults = FALSE /\ Attending(s) => rec'[s].check_out_time # NULL
<1>1. PICK written \in SubsetOutcomes(Flushed),
           stamped \in SubsetOutcomes({t \in known : CheckedIn(mem[t])}) :
        rec' = [t \in Students |->
                  [rec[t] EXCEPT
                     !.total_present_seconds =
                         IF t \in written \cup stamped THEN PresentSeconds(mem[t]) ELSE @,
                     !.check_out_time =
                         IF t \in stamped THEN CheckOutAtEnd(@) ELSE @]]
  BY DEF end_session
<1>2. rec[s] \in AttendanceRow /\ mem[s] \in StudentPresenceState /\ now # NULL
  BY ConstantsAssumption DEF TimeInv, TypeOK, Time
<1>3. /\ rec'[s].status = rec[s].status
      /\ rec'[s].check_in_time = rec[s].check_in_time
      /\ rec'[s].check_out_time = IF s \in stamped THEN CheckOutAtEnd(rec[s].check_out_time)
                                  ELSE rec[s].check_out_time
  BY <1>1, <1>2 DEF AttendanceRow
<1>4. mem'[s].status = mem[s].status /\ known' = known
  BY <1>2 DEF end_session, StudentPresenceState
<1>5. DBFaults = FALSE /\ Attending(s) => s \in stamped
  BY DEF SubsetOutcomes, Attending
<1> QED
  BY <1>2, <1>3, <1>4, <1>5 DEF CheckOutAtEnd, CheckedIn, Attending, Arrived

LEMMA FlushKeeps ==
    ASSUME TimeInv, flush_presence_logs, NEW s \in Students
    PROVE  /\ rec'[s].status = rec[s].status
           /\ rec'[s].check_in_time = rec[s].check_in_time
           /\ rec'[s].check_out_time = rec[s].check_out_time
<1>1. rec[s] \in AttendanceRow
  BY DEF TimeInv, TypeOK
<1> QED
  BY <1>1 DEF flush_presence_logs, AttendanceRow

\* What a step of the day does to the rows without a service of a session.
LEMMA CloseKeeps ==
    ASSUME TimeInv, CloseSession, NEW s \in Students
    PROVE  /\ rec'[s].status = rec[s].status
           /\ rec'[s].check_in_time = rec[s].check_in_time
           /\ rec[s].check_out_time # NULL => rec'[s].check_out_time # NULL
           /\ Unstamped(s) => rec'[s].check_out_time # NULL
<1>1. rec[s] \in AttendanceRow /\ now # NULL
  BY ConstantsAssumption DEF TimeInv, TypeOK, Time
<1>2. rec'[s] = IF Unstamped(s) THEN [rec[s] EXCEPT !.check_out_time = now] ELSE rec[s]
  BY DEF CloseSession
<1> QED
  BY <1>1, <1>2 DEF AttendanceRow

LEMMA HandKeeps ==
    ASSUME TimeInv, EnterByHand, NEW s \in Students
    PROVE  \/ rec'[s] = rec[s]
           \/ \E status \in Corrections :
                \/ rec'[s] = [rec[s] EXCEPT !.status = status]
                \/ s \notin rows /\ rec'[s] = [NewRow EXCEPT !.status = status]
BY DEF EnterByHand, CorrectRow, TimeInv, TypeOK

-----------------------------------------------------------------------------
(* Types                                                                    *)

LEMMA UnchangedTime ==
    ASSUME TimeInv, UNCHANGED vars
    PROVE  TimeInv'
BY DEF TimeInv, TypeOK, MemoryInv, CountedNow, MaybeTime, Time, vars, clockVars,
       memoryVars, databaseVars

LEMMA DayTime ==
    ASSUME TimeInv, [DayNext]_dayVars
    PROVE  TimeInv'
<1> USE DEF TimeInv
<1>1. /\ rec \in [Students -> AttendanceRow] /\ now \in Time
      /\ Consistent(Fresh, now, now) /\ Fresh \in StudentPresenceState
  BY FreshConsistent DEF TypeOK, Consistent
<1>2. CASE OpenSession
  BY <1>2, ConstantsAssumption
     DEF OpenSession, KeepRows, Roster, TypeOK, MemoryInv, CountedNow, MaybeTime, Time,
         clockVars, memoryVars
<1>3. CASE StartPipeline
  BY <1>3, StartTime DEF StartPipeline
<1>4. CASE PipelineStep
  BY <1>4, FrameTime, PauseTime, FlushTime, TickTime DEF PipelineStep, Frame
<1>5. CASE StopPipeline
  BY <1>5, EndTime DEF StopPipeline
<1>6. CASE CloseSession
  <2>1. rec' \in [Students -> AttendanceRow]
    <3>1. \A s \in Students :
            [rec[s] EXCEPT !.check_out_time = now] \in AttendanceRow
      BY <1>1 DEF AttendanceRow, MaybeTime
    <3> QED
      BY <1>1, <1>6, <3>1 DEF CloseSession
  <2> QED
    BY <1>6, <2>1 DEF CloseSession, TypeOK, MemoryInv, CountedNow, MaybeTime, Time,
                      clockVars, memoryVars
<1>7. CASE Restart
  <2>1. mem' = [s \in Students |-> Fresh] /\ now' = now /\ paused_at' = NULL
    BY <1>7 DEF Restart
  <2>2. MemoryInv'
    BY <1>1, <2>1 DEF MemoryInv, CountedNow
  <2>3. mem' \in [Students -> StudentPresenceState]
    BY <1>1, <2>1
  <2> QED
    BY <1>7, <2>2, <2>3 DEF Restart, TypeOK, MaybeTime, Time, databaseVars
<1>8. CASE IdleTick
  BY <1>8, TickTime DEF IdleTick
<1>9. CASE EnterByHand
  <2>1. rec' \in [Students -> AttendanceRow]
    <3>1. \A s \in Students, status \in Corrections :
            /\ [rec[s] EXCEPT !.status = status] \in AttendanceRow
            /\ [NewRow EXCEPT !.status = status] \in AttendanceRow
      BY <1>1, DayAssumption DEF AttendanceRow, NewRow, MaybeTime
    <3>2. DOMAIN rec' = Students /\ rec' = [s \in Students |-> rec'[s]]
      BY <1>1, <1>9 DEF EnterByHand, CorrectRow
    <3>3. ASSUME NEW s \in Students PROVE rec'[s] \in AttendanceRow
      <4>1. \/ rec'[s] = rec[s]
            \/ \E status \in Corrections :
                 \/ rec'[s] = [rec[s] EXCEPT !.status = status]
                 \/ s \notin rows /\ rec'[s] = [NewRow EXCEPT !.status = status]
        BY <1>9, HandKeeps
      <4> QED
        BY <1>1, <3>1, <4>1
    <3> QED
      BY <3>2, <3>3
  <2> QED
    BY <1>9, <2>1 DEF EnterByHand, CorrectRow, TypeOK, MemoryInv, CountedNow, MaybeTime,
                      Time, clockVars, memoryVars
<1>10. CASE enroll_student \/ unenroll_student
  BY <1>10 DEF enroll_student, unenroll_student, TypeOK, MemoryInv, CountedNow, MaybeTime,
               Time, clockVars, memoryVars
<1>11. CASE UNCHANGED dayVars
  BY <1>11, UnchangedTime DEF dayVars
<1> QED
  BY <1>2, <1>3, <1>4, <1>5, <1>6, <1>7, <1>8, <1>9, <1>10, <1>11 DEF DayNext

LEMMA DayTimeAlways == DaySpec => []TimeInv
BY InitTime, DayTime, PTL DEF DaySpec, DayInit

-----------------------------------------------------------------------------
(* The registry, and attendees who stay attendees                           *)

\* Neither closer, nor a restart, nor the next service leaves a session on
\* the registry that is over, takes one off that is being recorded, or keeps
\* one that the presence service does not know.
THEOREM RegistryAlwaysTells == DaySpec => []RegistryTells
<1>1. DayInit => RegistryTells
  BY DEF DayInit, Init, RegistryTells, Settled
<1>2. ASSUME RegistryTells, [DayNext]_dayVars
      PROVE  RegistryTells'
  <2> USE <1>2 DEF RegistryTells, Settled
  <2>1. CASE OpenSession
    BY <2>1 DEF OpenSession
  <2>2. CASE StartPipeline
    BY <2>2 DEF StartPipeline, start_session, LoadStudents
  <2>3. CASE PipelineStep
    BY <2>3 DEF PipelineStep, Frame, process_track_frame, pause_absence_tracking,
                flush_presence_logs, Tick, sessionVars
  <2>4. CASE StopPipeline
    BY <2>4 DEF StopPipeline, end_session
  <2>5. CASE CloseSession
    BY <2>5 DEF CloseSession, Unregister
  <2>6. CASE Restart
    BY <2>6 DEF Restart
  <2>7. CASE IdleTick
    BY <2>7 DEF IdleTick, Tick, sessionVars
  <2>8. CASE EnterByHand \/ enroll_student \/ unenroll_student
    BY <2>8 DEF EnterByHand, CorrectRow, enroll_student, unenroll_student, sessionVars
  <2>9. CASE UNCHANGED dayVars
    BY <2>9 DEF dayVars, vars, sessionVars
  <2> QED
    BY <2>1, <2>2, <2>3, <2>4, <2>5, <2>6, <2>7, <2>8, <2>9 DEF DayNext
<1> QED
  BY <1>1, <1>2, PTL DEF DaySpec

LEMMA DayKeepsStatus ==
    ASSUME TimeInv, "absent" \notin Corrections, [DayNext]_dayVars,
           NEW s \in Students, rec[s].status # "absent"
    PROVE  rec'[s].status # "absent"
<1>1. rec[s] \in AttendanceRow
  BY DEF TimeInv, TypeOK
<1>2. CASE PipelineStep
  BY <1>2, FrameKeeps, FlushKeeps DEF PipelineStep, Frame, pause_absence_tracking, Tick, databaseVars
<1>3. CASE StopPipeline
  BY <1>3, EndKeeps DEF StopPipeline
<1>4. CASE CloseSession
  BY <1>4, CloseKeeps
<1>5. CASE EnterByHand
  <2>1. \A status \in Corrections :
          /\ [rec[s] EXCEPT !.status = status].status # "absent"
          /\ [NewRow EXCEPT !.status = status].status # "absent"
    BY <1>1 DEF AttendanceRow, NewRow
  <2> QED
    BY <1>5, <2>1, HandKeeps
<1>6. CASE rec' = rec
  BY <1>6
<1> QED
  BY <1>2, <1>3, <1>4, <1>5, <1>6
     DEF DayNext, OpenSession, KeepRows, StartPipeline, start_session, LoadStudents, Restart,
         databaseVars, IdleTick, Tick, enroll_student, unenroll_student, dayVars, vars

\* As long as no teacher writes "absent" into a row, whoever counts as an
\* attendee does for the rest of the day, whatever restarts, frames, failing
\* commits and closers come.
THEOREM NeverUnmarkedAgain ==
    ASSUME "absent" \notin Corrections
    PROVE  DaySpec => NeverUnmarked
<1>1. ASSUME TimeInv, [DayNext]_dayVars
      PROVE  [\A s \in Students : rec[s].status # "absent" => rec'[s].status # "absent"]_dayVars
  BY <1>1, DayKeepsStatus
<1> QED
  BY <1>1, DayTimeAlways, PTL DEF DaySpec, NeverUnmarked

-----------------------------------------------------------------------------
(* Who checks an attendee out                                               *)

\* Whoever is tracked has a row and an enrolment, unless unenrolled since.
TrackedAreListed ==
    /\ phase = "idle" => known = {}
    /\ known \subseteq rows /\ known \subseteq enrolled \cup removed

\* Whoever arrived, in whichever life of the gateway, is on the list by which
\* the next session is opened, and is not an absentee.
ArrivalsAreListed ==
    \A s \in Students :
        Arrived(s) => s \in rows /\ s \in enrolled \cup removed /\ rec[s].status # "absent"

\* Each of those who arrived is somebody's to check out: the presence
\* service's, whose roster has them, or the pipeline's, which saw them.
SomebodyCloses ==
    active \/ ended_today =>
        \A s \in Students \ removed : Arrived(s) => s \in roster \/ Attending(s)

\* What the pipeline leaves, and the presence service does not undo; and the
\* other way round, where a pipeline still running takes a check-out back only
\* of those it will stamp itself.
PipelineStamped ==
    phase = "ended" =>
        \A s \in Students : Attending(s) /\ Arrived(s) => rec[s].check_out_time # NULL
ServiceStamped ==
    ended_today =>
        \A s \in roster :
            Arrived(s) => \/ rec[s].check_out_time # NULL
                          \/ phase = "running" /\ Attending(s)

DayInv ==
    /\ active => ~ended_today
    /\ roster \subseteq Students
    /\ TrackedAreListed /\ ArrivalsAreListed /\ SomebodyCloses
    /\ PipelineStamped /\ ServiceStamped

\* Steps that leave the services, the lists and what makes an attendee alone.
LEMMA UndisturbedDay ==
    ASSUME DayInv,
           UNCHANGED <<active, roster, ended_today, phase, known, rows, removed>>,
           enrolled \subseteq enrolled',
           \A s \in Students :
              /\ mem'[s] = mem[s]
              /\ rec'[s].check_in_time = rec[s].check_in_time
              /\ rec'[s].check_out_time = rec[s].check_out_time
              /\ rec[s].status # "absent" => rec'[s].status # "absent"
    PROVE  DayInv'
<1> USE DEF DayInv, Attending, Arrived
<1>1. TrackedAreListed'
  BY DEF TrackedAreListed
<1>2. ArrivalsAreListed'
  BY DEF ArrivalsAreListed
<1>3. SomebodyCloses'
  BY DEF SomebodyCloses
<1>4. PipelineStamped'
  BY DEF PipelineStamped
<1>5. ServiceStamped'
  BY DEF ServiceStamped
<1> QED
  BY <1>1, <1>2, <1>3, <1>4, <1>5

LEMMA OpenDay ==
    ASSUME TimeInv, DayInv, OpenSession
    PROVE  DayInv'
<1> USE DEF DayInv, Attending, Arrived, OpenSession, KeepRows, memoryVars, TimeInv
<1>1. active' /\ ~ended_today' /\ roster' = Roster /\ roster' \subseteq Students
  BY ConstantsAssumption DEF Roster, TypeOK
<1> QED
  BY <1>1 DEF Roster, TrackedAreListed, ArrivalsAreListed, SomebodyCloses, PipelineStamped,
              ServiceStamped

LEMMA StartDay ==
    ASSUME TimeInv, DayInv, StartPipeline
    PROVE  DayInv'
<1> USE DEF DayInv, Arrived, StartPipeline, start_session, LoadStudents
<1>1. phase = "idle" /\ known = {} /\ phase' = "running" /\ active /\ ~ended_today
  BY DEF TrackedAreListed
<1>2. known' = Roster /\ known' \subseteq enrolled' /\ rec' = rec /\ Roster \subseteq Students
  BY ConstantsAssumption DEF TimeInv, TypeOK, Roster
<1>3. SomebodyCloses'
  BY <1>1, <1>2 DEF SomebodyCloses, Attending
<1> QED
  BY <1>1, <1>2, <1>3 DEF Roster, TrackedAreListed, ArrivalsAreListed, PipelineStamped, ServiceStamped

LEMMA FrameDay ==
    ASSUME TimeInv, DayInv, phase = "running", UNCHANGED sessionVars,
           NEW recognised \in SUBSET Students, process_track_frame(recognised)
    PROVE  DayInv'
<1>1. /\ known \subseteq known' /\ known' \subseteq Students
      /\ rows' = rows \cup (known' \ known)
      /\ enrolled \subseteq enrolled' /\ known' \ known \subseteq enrolled'
      /\ UNCHANGED <<phase, active, roster, ended_today, removed>>
  BY FrameEffect DEF sessionVars
<1>2. \A s \in Students :
        /\ rec[s].status # "absent" => rec'[s].status # "absent"
        /\ Attending(s) => Attending(s)'
        /\ Arrived(s)' => Arrived(s) \/ (Attending(s)' /\ rec'[s].status # "absent")
        /\ rec[s].check_out_time # NULL => rec'[s].check_out_time # NULL \/ Attending(s)'
  BY FrameKeeps
<1>3. TrackedAreListed'
  BY <1>1 DEF DayInv, TrackedAreListed
<1>4. \A s \in Students : Attending(s)' => s \in known'
  BY DEF Attending
<1>5. ArrivalsAreListed'
  BY <1>1, <1>2, <1>3, <1>4 DEF DayInv, ArrivalsAreListed, TrackedAreListed
<1>6. SomebodyCloses'
  BY <1>1, <1>2 DEF DayInv, SomebodyCloses
<1>7. PipelineStamped'
  BY <1>1 DEF PipelineStamped
<1>8. ServiceStamped'
  BY <1>1, <1>2 DEF DayInv, ServiceStamped
<1> QED
  BY <1>1, <1>3, <1>5, <1>6, <1>7, <1>8 DEF DayInv

LEMMA StopDay ==
    ASSUME TimeInv, DayInv, DBFaults = FALSE, StopPipeline
    PROVE  DayInv'
<1>1. /\ phase = "running" /\ phase' = "ended"
      /\ UNCHANGED <<active, roster, ended_today, known, enrolled, rows, removed>>
  BY DEF StopPipeline, end_session
<1>2. \A s \in Students :
        /\ rec'[s].status = rec[s].status
        /\ Arrived(s)' <=> Arrived(s)
        /\ Attending(s)' <=> Attending(s)
        /\ rec[s].check_out_time # NULL => rec'[s].check_out_time # NULL
        /\ Attending(s) => rec'[s].check_out_time # NULL
  BY EndKeeps DEF StopPipeline
<1>3. TrackedAreListed'
  BY <1>1 DEF DayInv, TrackedAreListed
<1>4. ArrivalsAreListed'
  BY <1>1, <1>2 DEF DayInv, ArrivalsAreListed
<1>5. SomebodyCloses'
  BY <1>1, <1>2 DEF DayInv, SomebodyCloses
<1>6. PipelineStamped'
  BY <1>1, <1>2 DEF PipelineStamped
<1>7. ServiceStamped'
  BY <1>1, <1>2 DEF DayInv, ServiceStamped
<1> QED
  BY <1>1, <1>3, <1>4, <1>5, <1>6, <1>7 DEF DayInv

LEMMA CloseDay ==
    ASSUME TimeInv, DayInv, CloseSession
    PROVE  DayInv'
<1>1. /\ active /\ ~active' /\ ended_today'
      /\ UNCHANGED <<roster, phase, known, mem, enrolled, rows, removed>>
  BY DEF CloseSession, memoryVars
<1>2. \A s \in Students :
        /\ rec'[s].status = rec[s].status
        /\ rec'[s].check_in_time = rec[s].check_in_time
        /\ rec[s].check_out_time # NULL => rec'[s].check_out_time # NULL
        /\ Unstamped(s) => rec'[s].check_out_time # NULL
  BY CloseKeeps
<1>3. \A s \in Students : (Arrived(s)' <=> Arrived(s)) /\ (Attending(s)' <=> Attending(s))
  BY <1>1, <1>2 DEF Arrived, Attending
<1>4. TrackedAreListed'
  BY <1>1 DEF DayInv, TrackedAreListed
<1>5. ArrivalsAreListed'
  BY <1>1, <1>2, <1>3 DEF DayInv, ArrivalsAreListed
<1>6. SomebodyCloses'
  BY <1>1, <1>3 DEF DayInv, SomebodyCloses
<1>7. PipelineStamped'
  BY <1>1, <1>2, <1>3 DEF DayInv, PipelineStamped
<1>8. ServiceStamped'
  BY <1>1, <1>2, <1>3 DEF DayInv, ServiceStamped, ArrivalsAreListed, Unstamped
<1> QED
  BY <1>1, <1>4, <1>5, <1>6, <1>7, <1>8 DEF DayInv

LEMMA RestartDay ==
    ASSUME DayInv, Restart
    PROVE  DayInv'
<1>1. /\ ~active' /\ ~ended_today' /\ roster' = {} /\ phase' = "idle" /\ known' = {}
      /\ UNCHANGED <<enrolled, rows, rec, removed>>
  BY DEF Restart, databaseVars
<1> QED
  BY <1>1 DEF DayInv, Arrived, TrackedAreListed, ArrivalsAreListed, SomebodyCloses,
              PipelineStamped, ServiceStamped

LEMMA HandDay ==
    ASSUME TimeInv, DayInv, "absent" \notin Corrections, EnterByHand
    PROVE  DayInv'
<1>1. /\ UNCHANGED <<active, roster, ended_today, phase, known, mem, enrolled, removed>>
      /\ rows \subseteq rows'
  BY DEF EnterByHand, CorrectRow, memoryVars, sessionVars
<1>2. ASSUME NEW s \in Students
      PROVE  /\ Arrived(s)' => /\ Arrived(s)
                               /\ rec[s].check_out_time # NULL => rec'[s].check_out_time # NULL
                               /\ rec[s].status # "absent" => rec'[s].status # "absent"
             /\ Attending(s)' <=> Attending(s)
  <2>1. rec[s] \in AttendanceRow
    BY DEF TimeInv, TypeOK
  <2>2. \A status \in Corrections :
          /\ [rec[s] EXCEPT !.status = status].status # "absent"
          /\ [rec[s] EXCEPT !.status = status].check_in_time = rec[s].check_in_time
          /\ [rec[s] EXCEPT !.status = status].check_out_time = rec[s].check_out_time
          /\ [NewRow EXCEPT !.status = status].check_in_time = NULL
    BY <2>1 DEF AttendanceRow, NewRow
  <2>3. \/ rec'[s] = rec[s]
        \/ \E status \in Corrections :
             \/ rec'[s] = [rec[s] EXCEPT !.status = status]
             \/ s \notin rows /\ rec'[s] = [NewRow EXCEPT !.status = status]
    BY HandKeeps
  <2> QED
    BY <1>1, <2>2, <2>3 DEF Arrived, Attending
<1>3. TrackedAreListed'
  BY <1>1 DEF DayInv, TrackedAreListed
<1>4. ArrivalsAreListed'
  BY <1>1, <1>2 DEF DayInv, ArrivalsAreListed
<1>5. SomebodyCloses'
  BY <1>1, <1>2 DEF DayInv, SomebodyCloses
<1>6. PipelineStamped'
  BY <1>1, <1>2 DEF DayInv, PipelineStamped
<1>7. ServiceStamped'
  BY <1>1, <1>2 DEF DayInv, ServiceStamped
<1> QED
  BY <1>1, <1>3, <1>4, <1>5, <1>6, <1>7 DEF DayInv

LEMMA UnenrollDay ==
    ASSUME DayInv, unenroll_student
    PROVE  DayInv'
<1>1. /\ UNCHANGED <<active, roster, ended_today, phase, known, mem, rows, rec>>
      /\ removed \subseteq removed'
      /\ enrolled \cup removed = enrolled' \cup removed'
  BY DEF unenroll_student, memoryVars
<1>2. \A s : (Arrived(s)' <=> Arrived(s)) /\ (Attending(s)' <=> Attending(s))
  BY <1>1 DEF Arrived, Attending
<1> QED
  BY <1>1, <1>2 DEF DayInv, TrackedAreListed, ArrivalsAreListed, SomebodyCloses,
                    PipelineStamped, ServiceStamped

LEMMA NextDay ==
    ASSUME DBFaults = FALSE, "absent" \notin Corrections, TimeInv, DayInv, [DayNext]_dayVars
    PROVE  DayInv'
<1>1. CASE OpenSession \/ StartPipeline \/ StopPipeline \/ CloseSession \/ Restart
  BY <1>1, OpenDay, StartDay, StopDay, CloseDay, RestartDay
<1>2. CASE EnterByHand \/ unenroll_student
  BY <1>2, HandDay, UnenrollDay
<1>3. CASE PipelineStep /\ Frame
  BY <1>3, FrameDay DEF PipelineStep, Frame
<1>4. CASE PipelineStep /\ flush_presence_logs
  <2>1. /\ UNCHANGED <<active, roster, ended_today, phase, known, mem, rows, removed, enrolled>>
        /\ \A s \in Students :
             /\ rec'[s].status = rec[s].status
             /\ rec'[s].check_in_time = rec[s].check_in_time
             /\ rec'[s].check_out_time = rec[s].check_out_time
    BY <1>4, FlushKeeps DEF PipelineStep, flush_presence_logs, memoryVars, sessionVars
  <2> QED
    BY <2>1, UndisturbedDay
<1>5. CASE /\ UNCHANGED <<active, roster, ended_today, phase, known, mem, rows, removed, rec>>
           /\ enrolled \subseteq enrolled'
  BY <1>5, UndisturbedDay
<1> QED
  BY <1>1, <1>2, <1>3, <1>4, <1>5
     DEF DayNext, PipelineStep, pause_absence_tracking, Tick, IdleTick, enroll_student,
         memoryVars, databaseVars, sessionVars, dayVars, vars

LEMMA DayAlways ==
    ASSUME DBFaults = FALSE, "absent" \notin Corrections
    PROVE  DaySpec => []DayInv
<1>1. DayInit => DayInv
  BY DEF DayInit, Init, NewRow, DayInv, Arrived, Attending, TrackedAreListed,
         ArrivalsAreListed, SomebodyCloses, PipelineStamped, ServiceStamped
<1>2. TimeInv /\ DayInv /\ [DayNext]_dayVars => DayInv'
  BY NextDay
<1> QED
  BY <1>1, <1>2, DayTimeAlways, PTL DEF DaySpec

\* When no commit fails and no teacher writes "absent", the two closers leave
\* nobody without a check-out: in whichever order they run, for any number of
\* restarts and lives of the pipeline, whoever is enrolled on the spot, by
\* hand or not at all, and whatever the clock and the early-leave timeout do.
THEOREM EveryoneIsCheckedOut ==
    ASSUME DBFaults = FALSE, "absent" \notin Corrections
    PROVE  DaySpec => []EveryoneCheckedOut
<1>1. ASSUME TimeInv, DayInv, Settled, NEW s \in rows \ removed, Arrived(s)
      PROVE  rec[s].check_out_time # NULL
  <2>1. s \in Students \ removed /\ phase \in {"idle", "ended"}
    BY <1>1 DEF TimeInv, TypeOK, Settled
  <2>2. CASE s \in roster
    BY <1>1, <2>1, <2>2 DEF DayInv, ServiceStamped, Settled
  <2>3. CASE s \notin roster
    <3>1. Attending(s)
      BY <1>1, <2>1, <2>3 DEF DayInv, SomebodyCloses, Settled
    <3>2. phase = "ended"
      BY <1>1, <2>1, <3>1 DEF DayInv, TrackedAreListed, Attending
    <3> QED
      BY <1>1, <2>1, <3>1, <3>2 DEF DayInv, PipelineStamped
  <2> QED
    BY <2>2, <2>3
<1>2. TimeInv /\ DayInv => EveryoneCheckedOut
  BY <1>1 DEF EveryoneCheckedOut, Arrived
<1> QED
  BY <1>2, DayAlways, DayTimeAlways, PTL

-----------------------------------------------------------------------------
(* The two loops and stop() (SessionPipeline)                               *)

\* What the loops may call on the presence service.
ServiceCall ==
    \/ start_session
    \/ Tick
    \/ Frame
    \/ pause_absence_tracking
    \/ \E seconds \in Timeouts : set_early_leave_timeout(seconds)
    \/ flush_presence_logs
    \/ end_session
    \/ UNCHANGED vars

LEMMA StepsCallTheService ==
    ASSUME [PipelineNext]_pipelineVars
    PROVE  ServiceCall
BY DEF PipelineNext, ServiceCall, start, CameraChanges, PipelineTick, LoopExits, GrabFrame,
       GrabNothing, ApplyFrame, DropFrame, EndOfIteration, BackrowGrab, BackrowApply,
       BackrowDrop, RequestStop, CancelLoops, FinishStop, SetTimeout, pipelineVars

LEMMA PipelineTime ==
    ASSUME TimeInv, [PipelineNext]_pipelineVars
    PROVE  TimeInv'
<1>1. CASE Frame
  BY <1>1, FrameTime DEF Frame
<1>2. CASE \E seconds \in Timeouts : set_early_leave_timeout(seconds)
  BY <1>2, TimeoutTime
<1> QED
  BY <1>1, <1>2, StepsCallTheService, StartTime, TickTime, PauseTime, FlushTime, EndTime,
     UnchangedTime DEF ServiceCall

LEMMA PipelineTimeAlways == PipelineSpec => []TimeInv
BY InitTime, PipelineTime, PTL DEF PipelineSpec, PipelineInit

\* A loop lives only while the session runs, and stop() is not waited for
\* before there is something to stop.
LoopsLive ==
    /\ phase = "idle" => /\ main = "done" /\ backrow = "none"
                         /\ stopping = 0 /\ consecutive_none = 0
    /\ phase = "ended" => LoopsOver

LEMMA NextLoops ==
    ASSUME TimeInv, LoopsLive, [PipelineNext]_pipelineVars
    PROVE  LoopsLive'
<1> USE DEF LoopsLive, LoopsOver
<1>0. phase \in {"idle", "running", "ended"}
  BY DEF TimeInv, TypeOK
<1>1. CASE start \/ FinishStop
  BY <1>1 DEF start, start_session, LoadStudents, FinishStop, end_session
<1>2. CASE phase = "running" /\ phase' = "running"
  BY <1>2
<1>3. CASE CameraChanges \/ RequestStop \/ SetTimeout
  BY <1>3 DEF CameraChanges, RequestStop, SetTimeout, set_early_leave_timeout, vars, loopVars
<1>4. CASE LoopExits \/ GrabFrame \/ GrabNothing \/ ApplyFrame \/ DropFrame \/ EndOfIteration
  <2>1. phase = "running"
    BY <1>0, <1>4
       DEF LoopExits, GrabFrame, GrabNothing, ApplyFrame, DropFrame, EndOfIteration
  <2>2. phase' = phase
    BY <1>4 DEF LoopExits, GrabFrame, GrabNothing, ApplyFrame, DropFrame, EndOfIteration,
                Frame, process_track_frame, pause_absence_tracking, flush_presence_logs, vars
  <2> QED
    BY <2>1, <2>2
<1>5. CASE BackrowGrab \/ BackrowApply \/ BackrowDrop
  <2>1. phase = "running"
    BY <1>0, <1>5 DEF BackrowGrab, BackrowApply, BackrowDrop
  <2>2. phase' = phase
    BY <1>5 DEF BackrowGrab, BackrowApply, BackrowDrop, Frame, process_track_frame, vars
  <2> QED
    BY <2>1, <2>2
<1>6. CASE PipelineTick \/ CancelLoops
  <2>1. phase # "idle" /\ phase' = phase
    BY <1>6 DEF PipelineTick, CancelLoops, Tick, vars
  <2> QED
    BY <1>0, <1>6, <2>1 DEF PipelineTick, CancelLoops
<1>7. CASE UNCHANGED pipelineVars
  BY <1>7 DEF pipelineVars, vars, loopVars
<1> QED
  BY <1>1, <1>3, <1>4, <1>5, <1>6, <1>7 DEF PipelineNext

LEMMA LoopsAlways == PipelineSpec => [](TimeInv /\ LoopsLive)
<1>1. PipelineInit => LoopsLive
  BY DEF PipelineInit, Init, LoopsLive, LoopsOver
<1> QED
  BY <1>1, NextLoops, PipelineTimeAlways, PTL DEF PipelineSpec

\* What a closed session leaves, and a second end_session finds.
ClosedUp ==
    phase = "ended" =>
        \A s \in Students :
            /\ mem[s].last_presence_start = NULL
            /\ s \in known /\ CheckedIn(mem[s]) =>
                 /\ rec[s].total_present_seconds = mem[s].total_present_seconds
                 /\ rec[s].check_out_time # NULL

\* Fields of memory and row after end_session, no commit failing.
LEMMA EndEffect ==
    ASSUME DBFaults = FALSE, TimeInv, end_session, NEW s \in Students
    PROVE  /\ mem'[s] = [mem[s] EXCEPT !.total_present_seconds = PresentSeconds(mem[s]),
                                       !.last_presence_start = NULL]
           /\ mem'[s].total_present_seconds = PresentSeconds(mem[s])
           /\ mem'[s].last_presence_start = NULL
           /\ mem'[s].status = mem[s].status
           /\ s \notin known \/ ~CheckedIn(mem[s]) => rec'[s] = rec[s]
           /\ s \in known /\ CheckedIn(mem[s]) =>
                /\ rec'[s] = [rec[s] EXCEPT
                                !.total_present_seconds = PresentSeconds(mem[s]),
                                !.check_out_time = CheckOutAtEnd(@)]
                /\ rec'[s].total_present_seconds = PresentSeconds(mem[s])
                /\ rec'[s].check_out_time # NULL
<1>1. PICK written \in SubsetOutcomes(Flushed),
           stamped \in SubsetOutcomes({t \in known : CheckedIn(mem[t])}) :
        rec' = [t \in Students |->
                  [rec[t] EXCEPT
                     !.total_present_seconds =
                         IF t \in written \cup stamped THEN PresentSeconds(mem[t]) ELSE @,
                     !.check_out_time =
                         IF t \in stamped THEN CheckOutAtEnd(@) ELSE @]]
  BY DEF end_session
<1>2. /\ stamped = {t \in known : CheckedIn(mem[t])}
      /\ written \subseteq stamped
  BY DEF SubsetOutcomes, Flushed
<1>3. rec[s] \in AttendanceRow /\ mem[s] \in StudentPresenceState /\ now # NULL
  BY ConstantsAssumption DEF TimeInv, TypeOK, Time
<1>4. rec'[s] = [rec[s] EXCEPT
                   !.total_present_seconds =
                       IF s \in stamped THEN PresentSeconds(mem[s]) ELSE @,
                   !.check_out_time =
                       IF s \in stamped THEN CheckOutAtEnd(@) ELSE @]
  BY <1>1, <1>2
<1>5. CASE s \in stamped
  <2>1. CheckOutAtEnd(rec[s].check_out_time) # NULL
    BY <1>3 DEF CheckOutAtEnd
  <2>2. rec'[s] = [rec[s] EXCEPT
                     !.total_present_seconds = PresentSeconds(mem[s]),
                     !.check_out_time = CheckOutAtEnd(@)]
    BY <1>4, <1>5
  <2>3. /\ rec'[s].total_present_seconds = PresentSeconds(mem[s])
        /\ rec'[s].check_out_time = CheckOutAtEnd(rec[s].check_out_time)
    BY <1>3, <2>2 DEF AttendanceRow
  <2>4. /\ mem'[s] = [mem[s] EXCEPT !.total_present_seconds = PresentSeconds(mem[s]),
                                       !.last_presence_start = NULL]
        /\ mem'[s].total_present_seconds = PresentSeconds(mem[s])
        /\ mem'[s].last_presence_start = NULL
        /\ mem'[s].status = mem[s].status
    BY <1>3 DEF end_session, StudentPresenceState
  <2> QED
    BY <1>2, <1>5, <2>1, <2>2, <2>3, <2>4
<1>6. CASE s \notin stamped
  <2>1. rec'[s] = rec[s]
    BY <1>3, <1>4, <1>6 DEF AttendanceRow
  <2>2. /\ mem'[s] = [mem[s] EXCEPT !.total_present_seconds = PresentSeconds(mem[s]),
                                       !.last_presence_start = NULL]
        /\ mem'[s].total_present_seconds = PresentSeconds(mem[s])
        /\ mem'[s].last_presence_start = NULL
        /\ mem'[s].status = mem[s].status
    BY <1>3 DEF end_session, StudentPresenceState
  <2> QED
    BY <1>2, <1>6, <2>1, <2>2
<1> QED
  BY <1>5, <1>6

\* A second end_session finds nothing left to do.
LEMMA EndTwice ==
    ASSUME DBFaults = FALSE, TimeInv, ClosedUp, phase = "ended", end_session
    PROVE  UNCHANGED <<phase, memoryVars, databaseVars>>
<1>1. /\ mem \in [Students -> StudentPresenceState] /\ rec \in [Students -> AttendanceRow]
      /\ now # NULL
  BY ConstantsAssumption DEF TimeInv, TypeOK, Time
<1>2. ASSUME NEW s \in Students
      PROVE  mem'[s] = mem[s] /\ rec'[s] = rec[s]
  <2>1. /\ mem[s] \in StudentPresenceState /\ rec[s] \in AttendanceRow
        /\ mem[s].last_presence_start = NULL
        /\ s \in known /\ CheckedIn(mem[s]) =>
             /\ rec[s].total_present_seconds = mem[s].total_present_seconds
             /\ rec[s].check_out_time # NULL
    BY <1>1 DEF ClosedUp
  <2>2. PresentSeconds(mem[s]) = mem[s].total_present_seconds
    BY <2>1 DEF PresentSeconds, StudentPresenceState
  <2>3. mem'[s] = mem[s]
    <3>1. mem'[s] = [mem[s] EXCEPT !.total_present_seconds = PresentSeconds(mem[s]),
                                   !.last_presence_start = NULL]
      BY EndEffect
    <3> QED
      BY <2>1, <2>2, <3>1 DEF StudentPresenceState
  <2>4. CASE s \notin known \/ ~CheckedIn(mem[s])
    BY <2>3, <2>4, EndEffect
  <2>5. CASE s \in known /\ CheckedIn(mem[s])
    <3>1. rec'[s] = [rec[s] EXCEPT
                       !.total_present_seconds = PresentSeconds(mem[s]),
                       !.check_out_time = CheckOutAtEnd(@)]
      BY <2>5, EndEffect
    <3>2. CheckOutAtEnd(rec[s].check_out_time) = rec[s].check_out_time
      BY <2>1, <2>5 DEF CheckOutAtEnd
    <3>3. rec'[s] = rec[s]
      BY <2>1, <2>2, <2>5, <3>1, <3>2 DEF AttendanceRow
    <3> QED
      BY <2>3, <3>3
  <2> QED
    BY <2>4, <2>5
<1>3. /\ DOMAIN mem' = Students /\ mem' = [s \in Students |-> mem'[s]]
      /\ DOMAIN rec' = Students /\ rec' = [s \in Students |-> rec'[s]]
  BY DEF end_session
<1>4. mem' = mem /\ rec' = rec
  BY <1>1, <1>2, <1>3
<1> QED
  BY <1>4 DEF end_session, memoryVars, databaseVars

\* No loop is left to do anything else.
LEMMA NothingLeft ==
    ASSUME DBFaults = FALSE, TimeInv, LoopsLive, ClosedUp, phase = "ended",
           [PipelineNext]_pipelineVars
    PROVE  UNCHANGED <<phase, memoryVars, databaseVars>>
<1>0. main = "done" /\ backrow \in {"none", "done"}
  BY DEF LoopsLive, LoopsOver
<1>1. CASE FinishStop
  BY <1>1, EndTwice DEF FinishStop
<1>2. CASE PipelineTick
  BY <1>2 DEF PipelineTick, Tick
<1>3. CASE CancelLoops \/ UNCHANGED pipelineVars
  BY <1>3 DEF CancelLoops, pipelineVars, vars
<1> QED
  BY <1>0, <1>1, <1>2, <1>3
     DEF PipelineNext, start, start_session, CameraChanges, LoopExits, GrabFrame, GrabNothing,
         ApplyFrame, DropFrame, EndOfIteration, BackrowGrab, BackrowApply, BackrowDrop,
         RequestStop, SetTimeout

LEMMA NextClosed ==
    ASSUME DBFaults = FALSE, TimeInv, LoopsLive, ClosedUp, [PipelineNext]_pipelineVars
    PROVE  ClosedUp'
<1>1. CASE end_session
  <2>1. ASSUME NEW s \in Students
        PROVE  /\ mem'[s].last_presence_start = NULL
               /\ s \in known' /\ CheckedIn(mem'[s]) =>
                    /\ rec'[s].total_present_seconds = mem'[s].total_present_seconds
                    /\ rec'[s].check_out_time # NULL
    <3>1. known' = known /\ (CheckedIn(mem'[s]) <=> CheckedIn(mem[s]))
      BY <1>1, EndEffect DEF end_session, CheckedIn
    <3> QED
      BY <1>1, <3>1, EndEffect
  <2> QED
    BY <2>1 DEF ClosedUp
<1>2. CASE phase = "ended"
  <2>1. UNCHANGED <<phase, mem, known, rec>>
    BY <1>2, NothingLeft DEF memoryVars, databaseVars
  <2> QED
    BY <2>1 DEF ClosedUp
<1>3. CASE phase # "ended" /\ ~end_session
  <2>1. phase' # "ended"
    BY <1>3, StepsCallTheService
       DEF ServiceCall, start_session, LoadStudents, Tick, Frame, process_track_frame,
           pause_absence_tracking, set_early_leave_timeout, flush_presence_logs, vars
  <2> QED
    BY <2>1 DEF ClosedUp
<1> QED
  BY <1>1, <1>2, <1>3

\* While no commit fails, nothing touches a closed session again: no frame or
\* pause of a loop that outlived the wait, no flush, no second stop(), for any
\* interleaving of the two loops with the callers of stop().
THEOREM SessionsStayClosed ==
    ASSUME DBFaults = FALSE
    PROVE  PipelineSpec => ClosedForGood
<1>1. PipelineInit => ClosedUp
  BY DEF PipelineInit, Init, ClosedUp
<1>2. ASSUME TimeInv, LoopsLive, ClosedUp, [PipelineNext]_pipelineVars
      PROVE  /\ ClosedUp'
             /\ [phase = "ended" => UNCHANGED <<phase, memoryVars, databaseVars>>]_pipelineVars
  BY <1>2, NextClosed, NothingLeft
<1> QED
  BY <1>1, <1>2, LoopsAlways, PTL DEF PipelineSpec, ClosedForGood

-----------------------------------------------------------------------------
(* Camera downtime, with one loop                                           *)

\* Why the pause on one iteration is enough: with one loop, tracking is paused
\* from the iteration that reaches the count to the next frame, and no frame
\* is in hand while frames are missing.
PausedWhileDown ==
    /\ consecutive_none \in Nat
    /\ main = "apply" => consecutive_none = 0
    /\ Outage /\ backrow = "none" => paused_at # NULL

LEMMA NextPaused ==
    ASSUME TimeInv, LoopsLive, PausedWhileDown, [PipelineNext]_pipelineVars
    PROVE  PausedWhileDown'
<1> USE PipelineAssumption DEF PausedWhileDown, Outage
<1>1. CASE start
  BY <1>1 DEF start, start_session, LoopsLive
<1>2. CASE GrabNothing
  <2>1. now # NULL
    BY ConstantsAssumption DEF TimeInv, TypeOK, Time
  <2> QED
    BY <1>2, <2>1 DEF GrabNothing, PauseDue, pause_absence_tracking, vars, clockVars
<1>3. CASE GrabFrame
  BY <1>3 DEF GrabFrame, vars, clockVars
<1>4. CASE ApplyFrame
  BY <1>4 DEF ApplyFrame
<1>5. CASE LoopExits \/ DropFrame \/ EndOfIteration
  BY <1>5 DEF LoopExits, DropFrame, EndOfIteration, flush_presence_logs, vars, clockVars
<1>6. CASE BackrowGrab \/ BackrowApply \/ BackrowDrop
  BY <1>6 DEF BackrowGrab, BackrowApply, BackrowDrop, vars, clockVars
<1>7. CASE PipelineTick
  BY <1>7 DEF PipelineTick, Tick
<1>8. CASE CameraChanges \/ RequestStop \/ CancelLoops
  BY <1>8 DEF CameraChanges, RequestStop, CancelLoops, vars, clockVars
<1>9. CASE FinishStop \/ SetTimeout
  BY <1>9 DEF FinishStop, SetTimeout, end_session, set_early_leave_timeout, loopVars, clockVars
<1>10. CASE UNCHANGED pipelineVars
  BY <1>10 DEF pipelineVars, vars, clockVars, loopVars
<1> QED
  BY <1>1, <1>2, <1>3, <1>4, <1>5, <1>6, <1>7, <1>8, <1>9, <1>10 DEF PipelineNext

\* What keeps memory keeps the standing, and a paused stopwatch stands still.
LEMMA PausedStopwatch ==
    ASSUME TimeInv, UNCHANGED <<mem, paused_at>>, paused_at # NULL
    PROVE  NoAbsenceCounted
<1>1. CountedNow' = CountedNow /\ CountedNow \in Time
  BY CountedNowTime DEF CountedNow
<1>2. ASSUME NEW s \in Students
      PROVE  /\ StopwatchOf(mem[s])' = StopwatchOf(mem[s])
             /\ StopwatchOf(mem[s]) # NULL => StopwatchOf(mem[s]) \in Int
  <2>1. mem[s] \in StudentPresenceState
    BY DEF TimeInv, TypeOK
  <2> QED
    BY <1>1, <2>1, ConstantsAssumption
       DEF StopwatchOf, CheckedIn, Away, StudentPresenceState, MaybeTime, Time
<1> QED
  BY <1>2 DEF NoAbsenceCounted

\* In a session without a back-row loop no absence is counted and nobody is
\* marked as having left while the camera is down, for every pace of the loop,
\* every count after which it pauses, and through stop() and flushes.
THEOREM DowntimeIsNotAbsence == PipelineSpec => WideDowntimeNotAbsence
<1>1. PipelineInit => PausedWhileDown
  BY PipelineAssumption DEF PipelineInit, Init, PausedWhileDown, Outage
<1>2. ASSUME TimeInv, LoopsLive, PausedWhileDown, [PipelineNext]_pipelineVars
      PROVE  [Outage /\ Outage' /\ backrow = "none" => NoAbsenceCounted]_pipelineVars
  <2> SUFFICES ASSUME Outage, Outage', backrow = "none"
               PROVE  NoAbsenceCounted
    OBVIOUS
  <2>1. paused_at # NULL /\ main # "apply" /\ phase = "running" /\ phase' = "running"
    BY <1>2, PipelineAssumption DEF PausedWhileDown, Outage
  <2>2. UNCHANGED <<mem, paused_at>>
    BY <1>2, <2>1
       DEF PipelineNext, start, start_session, CameraChanges, PipelineTick, Tick, LoopExits,
           GrabFrame, GrabNothing, pause_absence_tracking, ApplyFrame, DropFrame,
           EndOfIteration, flush_presence_logs, BackrowGrab, BackrowApply, BackrowDrop,
           RequestStop, CancelLoops, FinishStop, end_session, SetTimeout,
           set_early_leave_timeout, pipelineVars, vars, clockVars, memoryVars
  <2> QED
    BY <1>2, <2>1, <2>2, PausedStopwatch
<1> QED
  BY <1>1, <1>2, NextPaused, LoopsAlways, PTL DEF PipelineSpec, WideDowntimeNotAbsence

-----------------------------------------------------------------------------
(* The activity log and the screen (FrameReports)                           *)

LEMMA DisjointBags ==
    ASSUME NEW A, NEW B, A \cap B = {}
    PROVE  SetToBag(A) (+) SetToBag(B) = SetToBag(A \cup B)
<1>1. DOMAIN SetToBag(A) = A /\ DOMAIN SetToBag(B) = B
  BY DEF SetToBag
<1>2. ASSUME NEW e \in A \cup B
      PROVE  (SetToBag(A) (+) SetToBag(B))[e] = 1
  BY <1>1 DEF (+), SetToBag
<1>3. SetToBag(A) (+) SetToBag(B) =
        [e \in A \cup B |-> (SetToBag(A) (+) SetToBag(B))[e]]
  BY <1>1 DEF (+)
<1> QED
  BY <1>2, <1>3 DEF SetToBag

\* What the ledgers stand for.
Entries(missed, spoofed, captured) ==
    MatchEntries(captured) \cup MissEntries(missed) \cup SpoofEntries(spoofed)

\* Until a camera changes under a frame, the ledgers hold what was called for,
\* and every entry of them was logged once.
LedgersTell ==
    ~overtaken =>
        /\ called_for = Entries(unknown_emitted, spoof_emitted, recognized_captured)
        /\ logged = SetToBag(called_for)
        /\ unknown_emitted # {} => <<"unknown", room>> \in alerted

LEMMA ReportTells ==
    ASSUME LedgersTell, ~overtaken, NEW f \in Frames, room' = room,
           Report(f, unknown_emitted, spoof_emitted, recognized_captured)
    PROVE  /\ called_for' = Entries(unknown_emitted', spoof_emitted', recognized_captured')
           /\ logged' = SetToBag(called_for')
           /\ unknown_emitted' # {} => <<"unknown", room'>> \in alerted'
<1> DEFINE match == Captured(f) \ recognized_captured
           miss == Unknown(f) \ unknown_emitted
           spoof == Spoofed(f) \ spoof_emitted
           new == MatchEntries(match) \cup MissEntries(miss) \cup SpoofEntries(spoof)
<1>1. /\ unknown_emitted' = unknown_emitted \cup miss
      /\ spoof_emitted' = spoof_emitted \cup spoof
      /\ recognized_captured' = recognized_captured \cup match
      /\ logged' = logged (+) SetToBag(new)
      /\ called_for' = called_for \cup MatchEntries(Captured(f)) \cup MissEntries(Unknown(f))
                         \cup SpoofEntries(Spoofed(f))
      /\ alerted' = alerted \cup UnknownAlerts(miss) \cup SpoofAlerts(spoof)
  BY DEF Report
<1>2. /\ called_for = Entries(unknown_emitted, spoof_emitted, recognized_captured)
      /\ logged = SetToBag(called_for)
      /\ unknown_emitted # {} => <<"unknown", room>> \in alerted
  BY DEF LedgersTell
<1> HIDE DEF match, miss, spoof
<1>3. called_for' = called_for \cup new
  BY <1>1, <1>2 DEF Entries, MatchEntries, MissEntries, SpoofEntries, match, miss, spoof
<1>4. called_for \cap new = {}
  BY <1>2 DEF Entries, MatchEntries, MissEntries, SpoofEntries, match, miss, spoof
<1>5. logged' = SetToBag(called_for')
  <2> HIDE DEF new
  <2> QED
    BY <1>1, <1>2, <1>3, <1>4, DisjointBags
<1>6. called_for' = Entries(unknown_emitted', spoof_emitted', recognized_captured')
  BY <1>1, <1>2, <1>3 DEF Entries, MatchEntries, MissEntries, SpoofEntries
<1>7. ASSUME unknown_emitted' # {} PROVE <<"unknown", room'>> \in alerted'
  BY <1>1, <1>2, <1>7 DEF UnknownAlerts
<1> QED
  BY <1>5, <1>6, <1>7

\* Through any number of changes of camera, every recognition, unknown face
\* and spoof that the camera's frames showed is handed to the activity log
\* once per track, whatever commits of the presence service fail; the only
\* exception is a change of camera under a frame.
THEOREM LogAlwaysFollowsScreen == ReportsSpec => []LogFollowsScreen
<1>0. SetToBag({}) = EmptyBag
  BY DEF EmptyBag
<1>1. ReportsInit => LedgersTell
  BY <1>0 DEF ReportsInit, LedgersTell, Entries, MatchEntries, MissEntries, SpoofEntries
<1>2. ASSUME LedgersTell, [ReportsNext]_<<vars, reportVars>>
      PROVE  LedgersTell'
  <2>1. ASSUME NEW f \in Frames, room' = room, overtaken' = overtaken,
               Report(f, unknown_emitted, spoof_emitted, recognized_captured)
        PROVE  LedgersTell'
    BY <1>2, <2>1, ReportTells DEF LedgersTell
  <2>2. CASE overtaken'
    BY <2>2 DEF LedgersTell
  <2>3. CASE SwapCamera
    BY <1>0, <2>3 DEF SwapCamera, Cleared, LedgersTell, Entries, MatchEntries, MissEntries,
                      SpoofEntries
  <2>4. CASE UNCHANGED reportVars
    BY <1>2, <2>4 DEF LedgersTell, reportVars, ledgers, Entries
  <2> QED
    BY <1>2, <2>1, <2>2, <2>3, <2>4 DEF ReportsNext, Iterate, Elsewhere
<1>3. LedgersTell => LogFollowsScreen
  BY DEF LedgersTell, LogFollowsScreen
<1> QED
  BY <1>1, <1>2, <1>3, PTL DEF ReportsSpec

-----------------------------------------------------------------------------
(* What viewers and students are told (LiveAttendance)                      *)

\* When a student was last told of each kind of event is forgotten before it
\* can be told again: m is what memory holds of the student, and the others
\* are the entries of the deduplication table.
ForgottenInTime(m, check_in, early_leave, early_leave_return) ==
    /\ ~CheckedIn(m) => check_in = NULL
    /\ Away(m) => early_leave_return = NULL
    /\ ~Away(m) /\ m.absent_since # NULL =>
         /\ early_leave # NULL => early_leave <= m.absent_since
         /\ early_leave_return # NULL => early_leave_return <= m.absent_since

\* What memory says of a student whose event is yet to be sent.
Explains(m, kind) ==
    /\ kind = "check_in" => CheckedIn(m) /\ ~Away(m)
    /\ kind = "early_leave" => Away(m)
    /\ kind = "early_leave_return" => ~Away(m) /\ m.absent_since = NULL

SentBefore ==
    /\ sent \in [EventKind \X Students -> MaybeTime]
    /\ \A e \in EventKind \X Students : sent[e] # NULL => sent[e] <= now
    /\ phase = "idle" => \A e \in EventKind \X Students : sent[e] = NULL

EntriesForgotten ==
    \A s \in Students :
        ForgottenInTime(mem[s], sent[<<"check_in", s>>], sent[<<"early_leave", s>>],
                        sent[<<"early_leave_return", s>>])

\* Every event still to be sent will go out.
EventsDue ==
    /\ outbox # {} => phase = "running"
    /\ \A e \in outbox :
         e = SummaryDue \/ (/\ e \in EventKind \X known
                            /\ sent[e] = NULL
                            /\ Explains(mem[e[2]], e[1]))

BoardFollows ==
    /\ ~watching \/ phase = "idle" => board = NULL
    /\ board # NULL /\ SummaryDue \notin outbox => board = Summary

StudentsTold ==
    /\ hears \subseteq Students
    /\ told \in [Students -> RowStatus \cup {NULL}]
    /\ \A s \in Students :
         /\ s \notin hears => told[s] = NULL
         /\ \/ told[s] \in {NULL, rec[s].status}
            \/ \E kind \in EventKind : <<kind, s>> \in outbox

LiveInv == SentBefore /\ EntriesForgotten /\ EventsDue /\ BoardFollows /\ StudentsTold

Forget(t) == IF t # NULL /\ now - t >= Window THEN NULL ELSE t

LEMMA ForgetEarlier ==
    ASSUME now \in Time, NEW t \in MaybeTime
    PROVE  /\ Forget(t) \in MaybeTime
           /\ Forget(t) # NULL => Forget(t) = t
           /\ t = NULL => Forget(t) = NULL
BY DEF Forget, MaybeTime

\* One student's entries through a frame: b is what the frame starts from.
LEMMA TellsObserved ==
    ASSUME now \in Time, timeout \in Timeouts,
           NEW m \in StudentPresenceState, NEW b \in StudentPresenceState,
           b.status = m.status, b.early_leave_flagged = m.early_leave_flagged,
           b.early_leave_returned = m.early_leave_returned,
           StayUpTo(b, now),
           m.absent_since = NULL <=> b.absent_since = NULL,
           m.absent_since # NULL => m.absent_since <= b.absent_since,
           NEW ci \in MaybeTime, NEW el \in MaybeTime, NEW er \in MaybeTime,
           el # NULL => el <= now, er # NULL => er <= now,
           ForgottenInTime(m, ci, el, er),
           NEW visible
    PROVE  LET o == Observed(b, visible, 2)
           IN  /\ ForgottenInTime(o, Forget(ci), Forget(el), Forget(er))
               /\ ChecksIn(b, visible) => Forget(ci) = NULL /\ Explains(o, "check_in")
               /\ Leaves(b, visible) => Forget(el) = NULL /\ Explains(o, "early_leave")
               /\ Returns(b, visible) => /\ Forget(er) = NULL
                                         /\ Explains(o, "early_leave_return")
<1> DEFINE o == Observed(b, visible, 2)
<1>1. /\ o.status = IF ChecksIn(b, visible) THEN NewStatus ELSE b.status
      /\ o.early_leave_flagged <=> b.early_leave_flagged \/ Leaves(b, visible)
      /\ o.early_leave_returned <=>
           \/ b.early_leave_returned /\ ~Leaves(b, visible)
           \/ Returns(b, visible)
  BY ObservedFields
<1>2. /\ visible => o.absent_since = NULL
      /\ ~visible => o.absent_since = IF CheckedIn(b) /\ ~Away(b) /\ b.absent_since = NULL
                                      THEN now ELSE b.absent_since
  BY DEF Observed, Seen, Unseen, StudentPresenceState
<1>3. /\ NewStatus # "absent"
      /\ (CheckedIn(b) <=> CheckedIn(m)) /\ (Away(b) <=> Away(m))
      /\ ~CheckedIn(b) => ~Away(b)
  BY DEF NewStatus, CheckedIn, Away, StayUpTo
<1>4. /\ CheckedIn(o) <=> CheckedIn(b) \/ ChecksIn(b, visible)
      /\ Away(o) <=> Leaves(b, visible) \/ (Away(b) /\ ~Returns(b, visible))
  BY <1>1, <1>3 DEF CheckedIn, Away, ChecksIn, Leaves, Returns
<1>5. /\ Forget(ci) # NULL => ci # NULL
      /\ Forget(el) # NULL => el # NULL /\ Forget(el) = el
      /\ Forget(er) # NULL => er # NULL /\ Forget(er) = er
  BY DEF Forget
<1>6. ASSUME Leaves(b, visible)
      PROVE  Forget(el) = NULL /\ Forget(er) = NULL
  <2>1. /\ ~Away(m) /\ m.absent_since # NULL /\ b.absent_since # NULL
        /\ now - b.absent_since > timeout
    BY <1>3, <1>6 DEF Leaves
  <2>2. /\ timeout \in Nat /\ Window \in Nat /\ Window <= timeout
        /\ now \in Int /\ b.absent_since \in Int /\ m.absent_since \in Int
        /\ el # NULL => el \in Int
        /\ er # NULL => er \in Int
    BY <2>1, ConstantsAssumption, LiveAssumption DEF StudentPresenceState, MaybeTime, Time
  <2>3. /\ el # NULL => el <= m.absent_since
        /\ er # NULL => er <= m.absent_since
        /\ m.absent_since <= b.absent_since
    BY <2>1 DEF ForgottenInTime
  <2> QED
    BY <2>1, <2>2, <2>3 DEF Forget
<1>7. ASSUME ~Away(o), o.absent_since # NULL
      PROVE  /\ Forget(el) # NULL => Forget(el) <= o.absent_since
             /\ Forget(er) # NULL => Forget(er) <= o.absent_since
  <2>1. ~visible /\ ~Leaves(b, visible) /\ ~Returns(b, visible) /\ ~Away(m)
    BY <1>2, <1>3, <1>4, <1>7 DEF Returns
  <2>2. CASE b.absent_since = NULL
    BY <1>2, <1>5, <1>7, <2>1, <2>2
  <2>3. CASE b.absent_since # NULL
    <3>1. o.absent_since = b.absent_since
      BY <1>2, <2>1, <2>3
    <3>2. /\ el # NULL => el <= m.absent_since
          /\ er # NULL => er <= m.absent_since
          /\ m.absent_since <= b.absent_since
      BY <2>1, <2>3 DEF ForgottenInTime
    <3>3. /\ b.absent_since \in Int /\ m.absent_since \in Int
          /\ el # NULL => el \in Int
          /\ er # NULL => er \in Int
      BY <2>3 DEF StudentPresenceState, MaybeTime, Time
    <3> QED
      BY <1>5, <3>1, <3>2, <3>3
  <2> QED
    BY <2>2, <2>3
<1>8. ForgottenInTime(o, Forget(ci), Forget(el), Forget(er))
  BY <1>3, <1>4, <1>5, <1>6, <1>7 DEF ForgottenInTime
<1>9. ChecksIn(b, visible) => Forget(ci) = NULL /\ Explains(o, "check_in")
  BY <1>3, <1>4, <1>5 DEF ForgottenInTime, Explains, ChecksIn, Leaves
<1>10. Leaves(b, visible) => Forget(el) = NULL /\ Explains(o, "early_leave")
  BY <1>4, <1>6 DEF Explains
<1>11. Returns(b, visible) => Forget(er) = NULL /\ Explains(o, "early_leave_return")
  BY <1>2, <1>3, <1>4, <1>5 DEF ForgottenInTime, Explains, Returns, Leaves
<1> QED
  BY <1>8, <1>9, <1>10, <1>11

LEMMA KeysAre == Keys = EventKind \X Students
BY DEF Keys, KeyOf

\* What a frame does to a student, who is then told of it if it is anything:
\* the entry is free again by then.
LEMMA FrameTells ==
    ASSUME DBFaults = FALSE, TimeInv, RowsInv, phase = "running",
           SentBefore, EntriesForgotten,
           NEW recognised \in SUBSET Students, process_track_frame(recognised),
           sent' = [k \in Keys |-> Forget(sent[k])]
    PROVE  /\ known \subseteq known' /\ known' \subseteq Students
           /\ events' \subseteq EventKind \X known'
           /\ EntriesForgotten'
           /\ \A e \in events' : sent'[e] = NULL /\ Explains(mem'[e[2]], e[1])
           /\ \A s \in Students :
                \/ \E kind \in EventKind : <<kind, s>> \in events'
                \/ /\ rec'[s].status = rec[s].status
                   /\ Bucket(mem'[s]) = Bucket(mem[s])
                   /\ s \in known' => s \in known
<1>1. PICK jit \in EnrolledOnTheSpot(recognised), commits \in CommitOutcomes :
        LET tracked == known \cup jit
            before(s) == IF s \in jit THEN Fresh ELSE Resumed(mem[s])
            seen(s) == s \in recognised
        IN  /\ known' = tracked
            /\ mem' = [s \in Students |->
                         IF s \in tracked
                         THEN Observed(before(s), seen(s), commits[s])
                         ELSE mem[s]]
            /\ rec' = [s \in Students |->
                         IF s \in tracked /\ commits[s] >= 1
                         THEN RowAfter(rec[s], before(s), seen(s))
                         ELSE rec[s]]
            /\ events' = {e \in EventKind \X tracked :
                            Announces(e[1], before(e[2]), seen(e[2]), commits[e[2]])}
  BY DEF process_track_frame
<1> DEFINE tracked == known \cup jit
           before(s) == IF s \in jit THEN Fresh ELSE Resumed(mem[s])
           seen(s) == s \in recognised
<1>2. jit \subseteq recognised \ known /\ known \subseteq Students
  BY DEF EnrolledOnTheSpot, SubsetOutcomes, TimeInv, TypeOK
<1>3. \A s \in Students : commits[s] = 2
  BY DEF CommitOutcomes
<1>4. now' = now /\ now \in Time /\ timeout \in Timeouts
  BY DEF process_track_frame, TimeInv, TypeOK
<1>5. \A k \in EventKind \X Students : sent[k] \in MaybeTime /\ sent'[k] = Forget(sent[k])
  BY KeysAre DEF SentBefore
<1>6. ASSUME NEW s \in Students, s \in tracked
      PROVE  /\ before(s) \in StudentPresenceState
             /\ StayUpTo(before(s), now)
             /\ before(s).status = mem[s].status
             /\ before(s).early_leave_flagged = mem[s].early_leave_flagged
             /\ before(s).early_leave_returned = mem[s].early_leave_returned
             /\ mem[s].absent_since = NULL <=> before(s).absent_since = NULL
             /\ mem[s].absent_since # NULL => mem[s].absent_since <= before(s).absent_since
             /\ s \in jit => ChecksIn(before(s), seen(s))
  <2>1. jit \cap known = {} /\ mem[s] \in StudentPresenceState
    BY <1>2 DEF TimeInv, TypeOK
  <2>2. /\ before(s) \in StudentPresenceState
        /\ StayUpTo(before(s), now)
        /\ before(s).status = mem[s].status
        /\ before(s).early_leave_flagged = mem[s].early_leave_flagged
        /\ before(s).early_leave_returned = mem[s].early_leave_returned
    BY <2>1, BeforeFields DEF Consistent
  <2>3. CASE s \in jit
    <3>1. mem[s] = Fresh /\ before(s) = Fresh
      BY <1>2, <2>3 DEF RowsInv
    <3>2. ChecksIn(before(s), seen(s))
      BY <1>2, <2>3 DEF ChecksIn, CheckedIn, Fresh
    <3> HIDE DEF before, seen
    <3> QED
      BY <2>2, <3>1, <3>2 DEF Fresh
  <2>4. CASE s \notin jit
    <3>1. before(s).absent_since = Shift(mem[s].absent_since, OfflineDuration)
      BY <2>1, <2>4 DEF Resumed, StudentPresenceState
    <3>2. OfflineDuration \in Nat
      BY <1>4, ConstantsAssumption
         DEF OfflineDuration, TimeInv, TypeOK, MemoryInv, MaybeTime, Time
    <3>3. mem[s].absent_since # NULL => mem[s].absent_since \in Int
      BY <2>1 DEF StudentPresenceState, MaybeTime, Time
    <3>4. /\ mem[s].absent_since = NULL <=> before(s).absent_since = NULL
          /\ mem[s].absent_since # NULL => mem[s].absent_since <= before(s).absent_since
      BY <3>1, <3>2, <3>3, ConstantsAssumption DEF Shift
    <3> QED
      BY <2>2, <2>4, <3>4
  <2> QED
    BY <2>3, <2>4
<1>7. ASSUME NEW s \in Students, s \in tracked
      PROVE  /\ mem'[s] = Observed(before(s), seen(s), 2)
             /\ rec'[s] = RowAfter(rec[s], before(s), seen(s))
             /\ \A kind \in EventKind :
                  <<kind, s>> \in events' <=> Announces(kind, before(s), seen(s), 2)
  BY <1>1, <1>3, <1>7
<1>8. ASSUME NEW s \in Students
      PROVE  /\ ForgottenInTime(mem[s], sent[<<"check_in", s>>], sent[<<"early_leave", s>>],
                                sent[<<"early_leave_return", s>>])
             /\ \A kind \in EventKind : /\ sent[<<kind, s>>] \in MaybeTime
                                        /\ sent[<<kind, s>>] # NULL => sent[<<kind, s>>] <= now
                                        /\ sent'[<<kind, s>>] = Forget(sent[<<kind, s>>])
             /\ mem[s] \in StudentPresenceState
  BY <1>5 DEF EntriesForgotten, SentBefore, TimeInv, TypeOK
<1>9. /\ "check_in" \in EventKind /\ "early_leave" \in EventKind
      /\ "early_leave_return" \in EventKind
  BY DEF EventKind
<1> HIDE DEF before, seen
<1>10. ASSUME NEW s \in Students, s \in tracked
       PROVE  /\ ForgottenInTime(mem'[s], sent'[<<"check_in", s>>], sent'[<<"early_leave", s>>],
                                 sent'[<<"early_leave_return", s>>])
              /\ ChecksIn(before(s), seen(s)) =>
                   sent'[<<"check_in", s>>] = NULL /\ Explains(mem'[s], "check_in")
              /\ Leaves(before(s), seen(s)) =>
                   sent'[<<"early_leave", s>>] = NULL /\ Explains(mem'[s], "early_leave")
              /\ Returns(before(s), seen(s)) =>
                   /\ sent'[<<"early_leave_return", s>>] = NULL
                   /\ Explains(mem'[s], "early_leave_return")
  <2> DEFINE ci == sent[<<"check_in", s>>]
             el == sent[<<"early_leave", s>>]
             er == sent[<<"early_leave_return", s>>]
  <2>1. /\ ci \in MaybeTime /\ el \in MaybeTime /\ er \in MaybeTime
        /\ el # NULL => el <= now
        /\ er # NULL => er <= now
        /\ ForgottenInTime(mem[s], ci, el, er)
        /\ sent'[<<"check_in", s>>] = Forget(ci)
        /\ sent'[<<"early_leave", s>>] = Forget(el)
        /\ sent'[<<"early_leave_return", s>>] = Forget(er)
    BY <1>8, <1>9
  <2> HIDE DEF ci, el, er
  <2> QED
    BY <1>4, <1>6, <1>7, <1>8, <1>10, <2>1, TellsObserved
<1>11. EntriesForgotten'
  <2>1. ASSUME NEW s \in Students, s \notin tracked
        PROVE  ForgottenInTime(mem'[s], sent'[<<"check_in", s>>], sent'[<<"early_leave", s>>],
                               sent'[<<"early_leave_return", s>>])
    <3>1. mem'[s] = mem[s]
      BY <1>1, <2>1
    <3> QED
      BY <1>8, <1>9, <3>1 DEF ForgottenInTime, Forget
  <2> QED
    BY <1>10, <2>1 DEF EntriesForgotten
<1>12. ASSUME NEW e \in events'
       PROVE  sent'[e] = NULL /\ Explains(mem'[e[2]], e[1])
  <2>1. PICK kind \in EventKind, s \in tracked : e = <<kind, s>>
    BY <1>1
  <2>2. s \in Students /\ Announces(kind, before(s), seen(s), 2)
    BY <1>2, <1>7, <1>12, <2>1
  <2>3. sent'[<<kind, s>>] = NULL /\ Explains(mem'[s], kind)
    <3>1. CASE kind = "check_in" /\ ChecksIn(before(s), seen(s))
      BY <1>10, <2>2, <3>1
    <3>2. CASE kind = "early_leave" /\ Leaves(before(s), seen(s))
      BY <1>10, <2>2, <3>2
    <3>3. CASE kind = "early_leave_return" /\ Returns(before(s), seen(s))
      BY <1>10, <2>2, <3>3
    <3> QED
      BY <2>2, <3>1, <3>2, <3>3 DEF Announces
  <2> QED
    BY <2>1, <2>3
<1>13. ASSUME NEW s \in Students, \A kind \in EventKind : <<kind, s>> \notin events'
       PROVE  /\ rec'[s].status = rec[s].status
              /\ Bucket(mem'[s]) = Bucket(mem[s])
              /\ s \in known' => s \in known
  <2>1. CASE s \in tracked
    <3>1. ~ChecksIn(before(s), seen(s)) /\ ~Returns(before(s), seen(s))
          /\ ~Leaves(before(s), seen(s))
      <4>1. /\ ~Announces("check_in", before(s), seen(s), 2)
            /\ ~Announces("early_leave", before(s), seen(s), 2)
            /\ ~Announces("early_leave_return", before(s), seen(s), 2)
        BY <1>7, <1>9, <1>13, <2>1, Zenon
      <4> QED
        BY <4>1 DEF Announces
    <3>2. s \in known
      BY <1>6, <2>1, <3>1
    <3>3. rec[s] \in AttendanceRow
      BY DEF TimeInv, TypeOK
    <3>4. rec'[s].status = rec[s].status
      BY <1>7, <2>1, <3>1, <3>3, RowAfterFields
    <3>5. /\ mem'[s].status = mem[s].status
          /\ mem'[s].early_leave_flagged = mem[s].early_leave_flagged
          /\ mem'[s].early_leave_returned = mem[s].early_leave_returned
      <4>1. mem'[s] \in StudentPresenceState
        <5>1. TimeInv'
          BY FrameTime
        <5> QED
          BY <5>1 DEF TimeInv, TypeOK
      <4>2. before(s) \in StudentPresenceState
        BY <1>6, <2>1
      <4>3. /\ mem'[s].status = before(s).status
            /\ mem'[s].early_leave_flagged <=> before(s).early_leave_flagged
            /\ mem'[s].early_leave_returned <=> before(s).early_leave_returned
        BY <1>7, <2>1, <3>1, <4>2, ObservedFields
      <4>4. /\ mem'[s].early_leave_flagged \in BOOLEAN
            /\ mem'[s].early_leave_returned \in BOOLEAN
            /\ before(s).early_leave_flagged \in BOOLEAN
            /\ before(s).early_leave_returned \in BOOLEAN
        BY <4>1, <4>2 DEF StudentPresenceState
      <4> QED
        BY <1>6, <2>1, <4>3, <4>4
    <3> QED
      BY <3>2, <3>4, <3>5 DEF Bucket, Away
  <2>2. CASE s \notin tracked
    BY <1>1, <2>2
  <2> QED
    BY <2>1, <2>2
<1>14. /\ known \subseteq known' /\ known' \subseteq Students
       /\ events' \subseteq EventKind \X known'
  BY <1>1, <1>2
<1> QED
  BY <1>11, <1>12, <1>13, <1>14

\* The rest of what the service does tells nobody anything: either nobody is
\* watching yet, or nothing changes that a viewer or a student is shown.
LEMMA QuietTells ==
    ASSUME TimeInv, Next, events' = {}, ~Frame
    PROVE  /\ now' \in Time /\ now <= now' /\ phase' # "idle"
           /\ phase = "running" => known' = known
           /\ \A s \in Students :
                /\ rec'[s].status = rec[s].status
                /\ \/ phase = "idle" /\ mem'[s] = Fresh
                   \/ /\ phase = "running"
                      /\ mem'[s].status = mem[s].status
                      /\ mem'[s].absent_since = mem[s].absent_since
                      /\ mem'[s].early_leave_flagged = mem[s].early_leave_flagged
                      /\ mem'[s].early_leave_returned = mem[s].early_leave_returned
<1>0. now \in Time /\ now <= now
  BY DEF TimeInv, TypeOK, Time
<1>1. CASE start_session
  BY <1>0, <1>1 DEF start_session, LoadStudents
<1>2. CASE phase = "running" /\ Tick
  <2>1. now' \in Time /\ now <= now'
    BY <1>0, <1>2, ConstantsAssumption DEF Tick, Time
  <2> QED
    BY <1>2, <2>1 DEF Tick, memoryVars, databaseVars
<1>3. CASE phase = "running" /\ pause_absence_tracking
  BY <1>0, <1>3 DEF pause_absence_tracking, memoryVars, databaseVars
<1>4. CASE phase = "running" /\ \E seconds \in Timeouts : set_early_leave_timeout(seconds)
  BY <1>0, <1>4 DEF set_early_leave_timeout, memoryVars, databaseVars
<1>5. CASE phase = "running" /\ flush_presence_logs
  <2>1. UNCHANGED <<now, phase, known, mem>>
    BY <1>5 DEF flush_presence_logs, memoryVars, clockVars
  <2> QED
    BY <1>0, <1>5, <2>1, FlushKeeps
<1>6. CASE phase = "running" /\ end_session
  <2>1. phase' = "ended" /\ known' = known /\ now' = now
    BY <1>6 DEF end_session, clockVars
  <2>2. ASSUME NEW s \in Students
        PROVE  /\ mem'[s].status = mem[s].status
               /\ mem'[s].absent_since = mem[s].absent_since
               /\ mem'[s].early_leave_flagged = mem[s].early_leave_flagged
               /\ mem'[s].early_leave_returned = mem[s].early_leave_returned
    <3>1. mem[s] \in StudentPresenceState
      BY DEF TimeInv, TypeOK
    <3> QED
      BY <1>6, <3>1 DEF end_session, StudentPresenceState
  <2> QED
    BY <1>0, <1>6, <2>1, <2>2, EndKeeps
<1> QED
  BY <1>1, <1>2, <1>3, <1>4, <1>5, <1>6 DEF Next

LEMMA ServiceLive ==
    ASSUME DBFaults = FALSE, TimeInv, RowsInv, LiveInv, ServiceStep
    PROVE  LiveInv'
<1>1. /\ outbox = {} /\ Next
      /\ outbox' = IF events' = {} THEN {} ELSE events' \cup {SummaryDue}
      /\ UNCHANGED <<watching, board, hears, told>>
  BY DEF ServiceStep
<1>2. /\ DOMAIN sent' = EventKind \X Students
      /\ sent' = [k \in EventKind \X Students |-> sent'[k]]
      /\ \A k \in EventKind \X Students :
           sent'[k] = IF sent[k] # NULL /\ now' - sent[k] >= Window THEN NULL ELSE sent[k]
  BY KeysAre DEF ServiceStep
<1>3. /\ SentBefore /\ EntriesForgotten /\ EventsDue /\ BoardFollows /\ StudentsTold
      /\ known \subseteq Students
      /\ \A s \in Students : told[s] \in {NULL, rec[s].status}
  BY <1>1 DEF LiveInv, StudentsTold, TimeInv, TypeOK
<1>4. /\ "check_in" \in EventKind /\ "early_leave" \in EventKind
      /\ "early_leave_return" \in EventKind /\ "summary" \notin EventKind
  BY DEF EventKind
<1>5. ASSUME now' \in Time, now <= now', phase' # "idle"
      PROVE  SentBefore'
  <2>1. ASSUME NEW e \in EventKind \X Students
        PROVE  sent'[e] \in MaybeTime /\ (sent'[e] # NULL => sent'[e] <= now')
    <3>1. sent[e] \in MaybeTime /\ (sent[e] # NULL => sent[e] <= now) /\ now \in Time
      BY <1>3 DEF SentBefore, TimeInv, TypeOK
    <3> QED
      BY <1>2, <1>5, <3>1 DEF MaybeTime, Time
  <2> QED
    BY <1>2, <1>5, <2>1 DEF SentBefore
<1>6. ASSUME \A s \in Students : rec'[s].status = rec[s].status
                                 \/ \E kind \in EventKind : <<kind, s>> \in outbox'
      PROVE  StudentsTold'
  BY <1>1, <1>3, <1>6 DEF StudentsTold
<1>7. ASSUME phase = "running", NEW recognised \in SUBSET Students,
             process_track_frame(recognised)
      PROVE  LiveInv'
  <2>1. now' = now /\ now' \in Time /\ now <= now' /\ phase' = "running"
    BY <1>7 DEF process_track_frame, TimeInv, TypeOK, Time
  <2>2. sent' = [k \in Keys |-> Forget(sent[k])]
    BY <2>1 DEF ServiceStep, Forget
  <2>3. /\ known \subseteq known' /\ known' \subseteq Students
        /\ events' \subseteq EventKind \X known'
        /\ EntriesForgotten'
        /\ \A e \in events' : sent'[e] = NULL /\ Explains(mem'[e[2]], e[1])
        /\ \A s \in Students :
             \/ \E kind \in EventKind : <<kind, s>> \in events'
             \/ /\ rec'[s].status = rec[s].status
                /\ Bucket(mem'[s]) = Bucket(mem[s])
                /\ s \in known' => s \in known
    BY <1>3, <1>7, <2>2, FrameTells
  <2>4. events' \subseteq outbox'
    BY <1>1
  <2>5. StudentsTold'
    BY <1>6, <2>3, <2>4
  <2>6. EventsDue'
    BY <1>1, <2>1, <2>3 DEF EventsDue
  <2>7. BoardFollows'
    <3>1. CASE events' # {}
      BY <1>1, <1>3, <2>1, <3>1 DEF BoardFollows
    <3>2. CASE events' = {}
      <4>1. known' = known /\ \A s \in known : Bucket(mem'[s]) = Bucket(mem[s])
        BY <1>3, <2>3, <3>2
      <4>2. Summary' = Summary
        BY <4>1 DEF Summary
      <4> QED
        BY <1>1, <1>3, <2>1, <3>2, <4>2 DEF BoardFollows
    <3> QED
      BY <3>1, <3>2
  <2> QED
    BY <1>5, <2>1, <2>3, <2>5, <2>6, <2>7 DEF LiveInv
<1>8. CASE ~Frame
  <2>1. events' = {}
    BY <1>1, <1>8 DEF Next, start_session, LoadStudents, Tick, pause_absence_tracking,
                      set_early_leave_timeout, flush_presence_logs, end_session
  <2>2. /\ now' \in Time /\ now <= now' /\ phase' # "idle"
        /\ phase = "running" => known' = known
        /\ \A s \in Students :
             /\ rec'[s].status = rec[s].status
             /\ \/ phase = "idle" /\ mem'[s] = Fresh
                \/ /\ phase = "running"
                   /\ mem'[s].status = mem[s].status
                   /\ mem'[s].absent_since = mem[s].absent_since
                   /\ mem'[s].early_leave_flagged = mem[s].early_leave_flagged
                   /\ mem'[s].early_leave_returned = mem[s].early_leave_returned
    BY <1>1, <1>8, <2>1, QuietTells
  <2>3. outbox' = {}
    BY <1>1, <2>1
  <2>4. ASSUME NEW s \in Students
        PROVE  ForgottenInTime(mem'[s], sent'[<<"check_in", s>>], sent'[<<"early_leave", s>>],
                               sent'[<<"early_leave_return", s>>])
    <3>1. \A kind \in EventKind :
            /\ sent'[<<kind, s>>] \in {NULL, sent[<<kind, s>>]}
            /\ phase = "idle" => sent[<<kind, s>>] = NULL
      BY <1>2, <1>3 DEF SentBefore
    <3>2. ForgottenInTime(mem[s], sent[<<"check_in", s>>], sent[<<"early_leave", s>>],
                          sent[<<"early_leave_return", s>>])
      BY <1>3 DEF EntriesForgotten
    <3> QED
      BY <1>4, <2>2, <3>1, <3>2 DEF ForgottenInTime, CheckedIn, Away
  <2>5. BoardFollows'
    <3>1. CASE phase = "idle"
      BY <1>1, <1>3, <2>2, <3>1 DEF BoardFollows
    <3>2. CASE phase = "running"
      <4>1. Summary' = Summary
        BY <1>3, <2>2, <3>2 DEF Summary, Bucket, Away
      <4> QED
        BY <1>1, <1>3, <2>2, <2>3, <4>1 DEF BoardFollows
    <3> QED
      BY <1>1, <3>1, <3>2 DEF Next, start_session
  <2> QED
    BY <1>5, <1>6, <2>2, <2>3, <2>4, <2>5 DEF LiveInv, EntriesForgotten, EventsDue
<1>9. start_session => ~Frame
  BY DEF start_session, LoadStudents, Frame, process_track_frame
<1>10. CASE phase = "running" /\ Frame
  BY <1>7, <1>10 DEF Frame
<1> QED
  BY <1>1, <1>8, <1>9, <1>10 DEF Next

LEMMA TellLive ==
    ASSUME TimeInv, MatchInv, LiveInv, TellStudent
    PROVE  LiveInv'
<1>1. PICK e \in outbox :
        /\ outbox' = outbox \ {e}
        /\ \/ /\ sent[KeyOf(e)] # NULL
              /\ UNCHANGED <<told, sent, echo>>
           \/ /\ sent[KeyOf(e)] = NULL
              /\ sent' = [sent EXCEPT ![KeyOf(e)] = now]
              /\ told' = ToStudent(e[2], Payload(e))
  BY DEF TellStudent
<1>2. /\ SummaryDue \notin outbox
      /\ UNCHANGED <<now, phase, known, mem, rec, watching, board, hears>>
  BY DEF TellStudent, vars, clockVars, memoryVars, databaseVars
<1>3. /\ SentBefore /\ EntriesForgotten /\ EventsDue /\ BoardFollows /\ StudentsTold
      /\ known \subseteq Students /\ now \in Time
      /\ known \subseteq known
  BY DEF LiveInv, TimeInv, TypeOK
<1>4. /\ e \in EventKind \X known /\ e \in EventKind \X Students
      /\ sent[e] = NULL /\ Explains(mem[e[2]], e[1]) /\ phase = "running"
  BY <1>1, <1>2, <1>3 DEF EventsDue
<1>5. sent' = [sent EXCEPT ![e] = now] /\ told' = ToStudent(e[2], Payload(e))
  BY <1>1, <1>4 DEF KeyOf
<1>6. PICK kind \in EventKind, s \in known : e = <<kind, s>>
  BY <1>4
<1>7. \A f \in EventKind \X Students : sent'[f] = IF f = e THEN now ELSE sent[f]
  BY <1>3, <1>4, <1>5 DEF SentBefore
<1>8. SentBefore'
  <2>1. now \in MaybeTime /\ now <= now
    BY <1>3 DEF MaybeTime, Time
  <2>2. sent' \in [EventKind \X Students -> MaybeTime]
    BY <1>3, <1>5, <2>1 DEF SentBefore
  <2> QED
    BY <1>2, <1>3, <1>4, <1>7, <2>1, <2>2 DEF SentBefore
<1>9. EntriesForgotten'
  <2>1. ASSUME NEW x \in Students
        PROVE  ForgottenInTime(mem[x], sent'[<<"check_in", x>>], sent'[<<"early_leave", x>>],
                               sent'[<<"early_leave_return", x>>])
    <3>1. /\ \A k \in EventKind : sent'[<<k, x>>] = IF k = kind /\ x = s THEN now
                                                    ELSE sent[<<k, x>>]
          /\ ForgottenInTime(mem[x], sent[<<"check_in", x>>], sent[<<"early_leave", x>>],
                             sent[<<"early_leave_return", x>>])
      BY <1>3, <1>6, <1>7 DEF EntriesForgotten
    <3>2. x = s => Explains(mem[x], kind)
      BY <1>4, <1>6
    <3> QED
      BY <3>1, <3>2 DEF ForgottenInTime, Explains, EventKind
  <2> QED
    BY <1>2, <2>1 DEF EntriesForgotten
<1>10. EventsDue'
  <2>1. ASSUME NEW f \in outbox'
        PROVE  f \in EventKind \X known /\ sent'[f] = NULL /\ Explains(mem[f[2]], f[1])
    <3>1. f \in EventKind \X known /\ sent[f] = NULL /\ Explains(mem[f[2]], f[1]) /\ f # e
      BY <1>1, <1>2, <1>3 DEF EventsDue
    <3> QED
      BY <1>3, <1>7, <3>1
  <2> QED
    BY <1>2, <1>4, <2>1 DEF EventsDue
<1>11. BoardFollows'
  BY <1>1, <1>2, <1>3 DEF BoardFollows, Summary
<1>12. StudentsTold'
  <2>1. Payload(e) = rec[s].status /\ rec[s].status \in RowStatus
    <3>1. Matches(rec[s], mem[s], open_leaves[s]) /\ rec[s] \in AttendanceRow
      BY <1>3, <1>4 DEF MatchInv, TimeInv, TypeOK
    <3>2. Payload(e) = IF kind = "early_leave" THEN "early_leave" ELSE mem[s].status
      BY <1>6 DEF Payload
    <3>3. Explains(mem[s], kind)
      BY <1>4, <1>6
    <3> QED
      BY <3>1, <3>2, <3>3 DEF Matches, Explains, AttendanceRow, EventKind
  <2>2. told' = IF s \in hears THEN [told EXCEPT ![s] = rec[s].status] ELSE told
    BY <1>5, <1>6, <2>1 DEF ToStudent
  <2>3. told' \in [Students -> RowStatus \cup {NULL}]
    BY <1>3, <2>1, <2>2 DEF StudentsTold
  <2>4. told'[s] \in {NULL, rec[s].status}
    BY <1>3, <2>2 DEF StudentsTold
  <2>5. ASSUME NEW x \in Students, x # s
        PROVE  /\ told'[x] = told[x]
               /\ \A k \in EventKind : <<k, x>> \in outbox => <<k, x>> \in outbox'
    BY <1>1, <1>3, <1>6, <2>2, <2>5 DEF StudentsTold
  <2>6. s \notin hears => told'[s] = NULL
    BY <1>3, <2>2 DEF StudentsTold
  <2> QED
    BY <1>2, <1>3, <2>3, <2>4, <2>5, <2>6 DEF StudentsTold
<1> QED
  BY <1>8, <1>9, <1>10, <1>11, <1>12 DEF LiveInv

\* The viewers come and go, and so do the students.
LEMMA VisitorsLive ==
    ASSUME TimeInv, LiveInv,
           Summarise \/ Subscriber \/ Watch \/ Unwatch \/ Listen \/ Hangup
           \/ UNCHANGED <<vars, liveVars>>
    PROVE  LiveInv'
<1>1. UNCHANGED vars /\ UNCHANGED <<now, phase, known, mem, rec, sent>>
  BY DEF Summarise, Subscriber, Watch, Unwatch, Listen, Hangup, vars, liveVars, clockVars,
         memoryVars, databaseVars
<1>2. SentBefore /\ EntriesForgotten /\ EventsDue /\ BoardFollows /\ StudentsTold
  BY DEF LiveInv
<1>3. SentBefore' /\ EntriesForgotten' /\ Summary' = Summary
  BY <1>1, <1>2 DEF SentBefore, EntriesForgotten, Summary
<1>4. outbox' = outbox \/ outbox' = outbox \ {SummaryDue}
  BY DEF Summarise, Subscriber, Watch, Unwatch, Listen, Hangup, liveVars
<1>5. EventsDue'
  BY <1>1, <1>2, <1>4 DEF EventsDue
<1>6. BoardFollows'
  <2>1. CASE Summarise
    BY <1>1, <1>2, <1>3, <2>1 DEF Summarise, ToViewers, BoardFollows
  <2>2. CASE Watch
    BY <1>1, <1>2, <1>3, <2>2 DEF Watch, BoardFollows
  <2>3. CASE Unwatch
    BY <1>1, <2>3 DEF Unwatch, BoardFollows
  <2>4. CASE UNCHANGED <<watching, board, outbox>>
    BY <1>1, <1>2, <1>3, <2>4 DEF BoardFollows
  <2> QED
    BY <2>1, <2>2, <2>3, <2>4 DEF Subscriber, Listen, Hangup, liveVars
<1>7. StudentsTold'
  <2>1. CASE Hangup
    <3>1. PICK s \in hears : hears' = hears \ {s} /\ told' = [told EXCEPT ![s] = NULL]
      BY <2>1 DEF Hangup
    <3>2. outbox' = outbox /\ rec' = rec
      BY <1>1, <2>1 DEF Hangup
    <3> QED
      BY <1>2, <3>1, <3>2 DEF StudentsTold
  <2>2. CASE Listen
    BY <1>1, <1>2, <2>2 DEF Listen, StudentsTold
  <2>3. CASE told' = told /\ hears' = hears
    <3>1. \A s, kind : <<kind, s>> \in outbox /\ kind \in EventKind => <<kind, s>> \in outbox'
      <4>1. "summary" \notin EventKind
        BY DEF EventKind
      <4> QED
        BY <1>4, <4>1 DEF SummaryDue
    <3> QED
      BY <1>1, <1>2, <2>3, <3>1 DEF StudentsTold
  <2>4. Subscriber => told' = told /\ hears' = hears
    BY DEF Subscriber, FromElsewhere
  <2> QED
    BY <2>1, <2>2, <2>3, <2>4 DEF Summarise, Watch, Unwatch, liveVars
<1> QED
  BY <1>3, <1>5, <1>6, <1>7 DEF LiveInv

\* While no commit fails, every student who stays connected is told the status
\* of their row, and every viewer shown the state in memory, once the loop has
\* sent what a frame gave rise to: for every timeout that is not below the
\* window of deduplication, so that no event is taken for one sent before.
THEOREM LiveAlwaysFollowsRow ==
    ASSUME DBFaults = FALSE
    PROVE  LiveSpec => []LiveFollowsRow
<1>1. LiveInit => TimeInv /\ RowsInv /\ MatchInv /\ LiveInv
  <2> SUFFICES ASSUME LiveInit PROVE TimeInv /\ RowsInv /\ MatchInv /\ LiveInv
    OBVIOUS
  <2>1. TimeInv /\ RowsInv
    BY InitTime, InitRows DEF LiveInit
  <2>2. MatchInv /\ phase = "idle" /\ mem = [s \in Students |-> Fresh]
    BY DEF LiveInit, Init, MatchInv
  <2>3. SentBefore
    <3>1. sent = [k \in EventKind \X Students |-> NULL]
      BY KeysAre DEF LiveInit
    <3> QED
      BY <3>1 DEF SentBefore, MaybeTime
  <2>4. EntriesForgotten
    BY <2>2, <2>3 DEF EntriesForgotten, ForgottenInTime, Fresh, SentBefore, EventKind,
                      CheckedIn, Away
  <2>5. EventsDue /\ BoardFollows /\ StudentsTold
    BY DEF LiveInit, EventsDue, BoardFollows, StudentsTold
  <2> QED
    BY <2>1, <2>2, <2>3, <2>4, <2>5 DEF LiveInv
<1>2. ASSUME TimeInv, RowsInv, MatchInv, LiveInv, [LiveNext]_<<vars, liveVars>>
      PROVE  TimeInv' /\ RowsInv' /\ MatchInv' /\ LiveInv'
  <2>1. [Next]_vars
    BY <1>2 DEF LiveNext, ServiceStep, Summarise, TellStudent, Subscriber, Watch, Unwatch,
                Listen, Hangup
  <2>2. TimeInv' /\ RowsInv' /\ MatchInv'
    BY <1>2, <2>1, NextTime, NextRows, NextMatches
  <2>3. LiveInv'
    BY <1>2, ServiceLive, TellLive, VisitorsLive DEF LiveNext
  <2> QED
    BY <2>2, <2>3
<1>3. LiveInv => LiveFollowsRow
  <2> SUFFICES ASSUME LiveInv, outbox = {}
               PROVE  /\ watching /\ board # NULL => board = Summary
                      /\ \A s \in hears : told[s] \in {NULL, rec[s].status}
    BY DEF LiveFollowsRow
  <2> QED
    BY DEF LiveInv, BoardFollows, StudentsTold
<1> QED
  BY <1>1, <1>2, <1>3, PTL DEF LiveSpec

-----------------------------------------------------------------------------
(* The reports on a day (AttendanceReports)                                 *)

\* Who is in the rows, by status.
LEMMA StatusesPartition ==
    ASSUME IsFiniteSet(Students), TimeInv
    PROVE  /\ IsFiniteSet(rows) /\ Cardinality(rows) \in Nat
           /\ \A status : Count(status) \in Nat /\ IsFiniteSet(Having({status}))
           /\ IsFiniteSet(Attended) /\ Attended \subseteq rows
           /\ Cardinality(Attended) = Count("present") + Count("late")
           /\ Cardinality(rows) = Count("present") + Count("late") + Count("absent")
                                    + Count("early_leave") + Count("excused")
<1>1. /\ IsFiniteSet(rows) /\ Cardinality(rows) \in Nat
      /\ \A s \in rows : rec[s].status \in RowStatus
  <2>1. rows \subseteq Students /\ \A s \in rows : rec[s] \in AttendanceRow
    BY DEF TimeInv, TypeOK
  <2>2. IsFiniteSet(rows)
    BY <2>1, FS_Subset
  <2> QED
    BY <2>1, <2>2, FS_CardinalityType DEF AttendanceRow
<1>2. \A S : S \subseteq rows => IsFiniteSet(S) /\ Cardinality(S) \in Nat
  BY <1>1, FS_Subset, FS_CardinalityType
<1>3. \A statuses : Having(statuses) \subseteq rows
  BY DEF Having
<1>4. ASSUME NEW S, NEW T, S \subseteq rows, T \subseteq rows, S \cap T = {}
      PROVE  Cardinality(S \cup T) = Cardinality(S) + Cardinality(T)
  <2>1. Cardinality(S \cup T) = Cardinality(S) + Cardinality(T) - Cardinality(S \cap T)
    BY <1>2, <1>4, FS_Union
  <2>2. Cardinality(S \cap T) = 0
    BY <1>4, FS_EmptySet
  <2> QED
    BY <1>2, <1>4, <2>1, <2>2
<1> DEFINE p == Having({"present"})
           l == Having({"late"})
           a == Having({"absent"})
           e == Having({"early_leave"})
           x == Having({"excused"})
<1>5. /\ Attended = p \cup l /\ p \cap l = {}
      /\ rows = (((p \cup l) \cup a) \cup e) \cup x
      /\ (p \cup l) \cap a = {} /\ ((p \cup l) \cup a) \cap e = {}
      /\ (((p \cup l) \cup a) \cup e) \cap x = {}
  BY <1>1 DEF Having, Attended, RowStatus, MemStatus
<1>6. p \subseteq rows /\ l \subseteq rows /\ a \subseteq rows /\ e \subseteq rows /\ x \subseteq rows
  BY <1>3
<1> HIDE DEF p, l, a, e, x
<1>7. Cardinality(p \cup l) = Cardinality(p) + Cardinality(l)
  BY <1>4, <1>5, <1>6
<1>8. Cardinality((p \cup l) \cup a) = Cardinality(p \cup l) + Cardinality(a)
  BY <1>4, <1>5, <1>6
<1>9. Cardinality(((p \cup l) \cup a) \cup e) = Cardinality((p \cup l) \cup a) + Cardinality(e)
  BY <1>4, <1>5, <1>6
<1>10. Cardinality(rows) = Cardinality(((p \cup l) \cup a) \cup e) + Cardinality(x)
  <2>1. ((p \cup l) \cup a) \cup e \subseteq rows
    BY <1>6
  <2>2. Cardinality((((p \cup l) \cup a) \cup e) \cup x)
          = Cardinality(((p \cup l) \cup a) \cup e) + Cardinality(x)
    BY <1>4, <1>5, <1>6, <2>1
  <2> QED
    BY <1>5, <2>2
<1>11. /\ Count("present") = Cardinality(p) /\ Count("late") = Cardinality(l)
       /\ Count("absent") = Cardinality(a) /\ Count("early_leave") = Cardinality(e)
       /\ Count("excused") = Cardinality(x)
  BY DEF Count, p, l, a, e, x
<1>12. /\ \A status : Count(status) \in Nat /\ IsFiniteSet(Having({status}))
       /\ IsFiniteSet(Attended) /\ Attended \subseteq rows
  BY <1>2, <1>3 DEF Count, Attended
<1>13. Cardinality(Attended) = Cardinality(p) + Cardinality(l)
  BY <1>5, <1>7
<1>14. /\ Cardinality(p) \in Nat /\ Cardinality(l) \in Nat /\ Cardinality(a) \in Nat
       /\ Cardinality(e) \in Nat /\ Cardinality(x) \in Nat
  BY <1>2, <1>6
<1> QED
  BY <1>1, <1>7, <1>8, <1>9, <1>10, <1>11, <1>12, <1>13, <1>14

LEMMA FullPercent ==
    ASSUME NEW part \in Nat, NEW whole \in Nat, part <= whole
    PROVE  /\ Percent(part, whole) = 100 => part = whole /\ whole # 0
           /\ part = whole /\ whole # 0 => Percent(part, whole) = 100
           /\ Percent(part, whole) \in Nat
<1>1. CASE whole = 0
  BY <1>1 DEF Percent
<1>2. CASE whole > 0
  <2>1. (100 * part) \div whole = 100 => part >= whole
    BY <1>2
  <2>2. (100 * whole) \div whole = 100
    BY <1>2
  <2>3. (100 * part) \div whole \in Nat
    BY <1>2
  <2> QED
    BY <1>2, <2>1, <2>2, <2>3 DEF Percent
<1> QED
  BY <1>1, <1>2

LEMMA OneStudent ==
    ASSUME NEW S, NEW s
    PROVE  /\ Cardinality(S \cap {s}) = IF s \in S THEN 1 ELSE 0
           /\ IsFiniteSet(S \cap {s})
<1>1. CASE s \in S
  <2>1. S \cap {s} = {s}
    BY <1>1
  <2> QED
    BY <1>1, <2>1, FS_Singleton
<1>2. CASE s \notin S
  <2>1. S \cap {s} = {}
    BY <1>2
  <2> QED
    BY <1>2, <2>1, FS_EmptySet
<1> QED
  BY <1>1, <1>2

\* The rate of a student on one day is all or nothing.
LEMMA StudentRates ==
    ASSUME IsFiniteSet(Students), TimeInv, NEW s
    PROVE  /\ StudentSummary(s).total = IF s \in rows THEN 1 ELSE 0
           /\ StudentSummary(s).rate = IF s \in Attended THEN 100 ELSE 0
           /\ \A digest \in StudentWeekly(s) : digest.rate = StudentSummary(s).rate
           /\ StudentWeekly(s) # {} <=> s \in rows
           /\ StudentDaily(s) # {} <=> s \in rows
<1>1. Attended \subseteq rows
  BY StatusesPartition
<1>2. /\ Cardinality(Attended \cap {s}) = IF s \in Attended THEN 1 ELSE 0
      /\ Cardinality(rows \cap {s}) = IF s \in rows THEN 1 ELSE 0
      /\ Cardinality(History(s)) = IF s \in rows THEN 1 ELSE 0
      /\ Cardinality(History(s) \cap Attended) = IF s \in Attended THEN 1 ELSE 0
  <2>1. History(s) \cap Attended = Attended \cap {s} /\ History(s) = rows \cap {s}
    BY <1>1 DEF History
  <2> QED
    BY <2>1, OneStudent
<1>3. Percent(1, 1) = 100 /\ Percent(0, 1) = 0 /\ Percent(0, 0) = 0
  BY DEF Percent
<1>4. /\ StudentSummary(s).total = IF s \in rows THEN 1 ELSE 0
      /\ StudentSummary(s).rate = IF s \in Attended THEN 100 ELSE 0
  BY <1>1, <1>2, <1>3 DEF StudentSummary
<1>5. \A digest \in StudentWeekly(s) : digest.rate = IF s \in Attended THEN 100 ELSE 0
  BY <1>1, <1>2, <1>3 DEF StudentWeekly
<1>6. StudentWeekly(s) # {} <=> s \in rows
  <2> DEFINE line == [total |-> Cardinality(History(s)),
                      present |-> Cardinality(History(s) \cap Attended),
                      rate |-> Percent(Cardinality(History(s) \cap Attended),
                                       Cardinality(History(s)))]
  <2>1. StudentWeekly(s) = IF Cardinality(History(s)) = 0 THEN {} ELSE {line}
    BY DEF StudentWeekly
  <2> HIDE DEF line
  <2> QED
    BY <1>2, <2>1
<1>7. StudentDaily(s) # {} <=> s \in rows
  BY DEF StudentDaily, History
<1> QED
  BY <1>4, <1>5, <1>6, <1>7

\* Rates and numbers of a class.
LEMMA ClassReports ==
    ASSUME IsFiniteSet(Students), TimeInv
    PROVE  LET rate == RangeSummary.rate
           IN  /\ {ExportSection.rate, ClassOverview.rate, SystemMetrics.rate, WeekdayRate}
                    = {rate}
               /\ \A session \in SessionHistory :
                     session.rate = rate /\ session.total = RangeSummary.total
               /\ \A status \in RowStatus \ {"excused"} :
                     {LiveAttendance.count[status], ExportSection.count[status],
                      DailyTrend[status]} = {RangeSummary.count[status]}
               /\ rows = enrolled => ScheduleSummary.rate = rate
               /\ \A digest \in FacultyWeekly :
                     /\ digest.rate = rate
                     /\ digest.line.total - digest.line.present - Count("excused")
                           = DailyTrend["absent"] + DailyTrend["early_leave"]
<1> DEFINE rate == Percent(Cardinality(Attended), Cardinality(rows))
<1>1. /\ Cardinality(Attended) = Count("present") + Count("late")
      /\ Cardinality(rows) = Count("present") + Count("late") + Count("absent")
                               + Count("early_leave") + Count("excused")
      /\ \A status : Count(status) \in Nat
  BY StatusesPartition
<1>2. RangeSummary.rate = rate /\ RangeSummary.total = Cardinality(rows)
      /\ \A status \in RowStatus : RangeSummary.count[status] = Count(status)
  BY <1>1 DEF RangeSummary
<1> HIDE DEF rate
<1>3. /\ ExportSection.rate = rate /\ ClassOverview.rate = rate /\ SystemMetrics.rate = rate
      /\ WeekdayRate = rate
  BY DEF ExportSection, ClassOverview, SystemMetrics, WeekdayRate, rate
<1>4. ASSUME NEW session \in SessionHistory
      PROVE  session.rate = rate /\ session.total = Cardinality(rows)
  <2>1. rows # {}
    BY DEF SessionHistory
  <2>2. Count("present") + Count("late") + Count("absent") + Count("early_leave")
          + Count("excused") = Cardinality(rows)
    BY <1>1
  <2>3. session.total = Cardinality(rows)
        /\ session.rate = Percent(Count("present") + Count("late"), Cardinality(rows))
    BY <2>1, <2>2 DEF SessionHistory
  <2> QED
    BY <1>1, <2>3 DEF rate
<1>5. \A status \in RowStatus \ {"excused"} :
        {LiveAttendance.count[status], ExportSection.count[status], DailyTrend[status]}
          = {Count(status)}
  BY DEF LiveAttendance, ExportSection, DailyTrend
<1>6. rows = enrolled => ScheduleSummary.rate = rate
  BY <1>1 DEF ScheduleSummary, rate
<1>7. ASSUME NEW digest \in FacultyWeekly
      PROVE  /\ digest.rate = rate
             /\ digest.line.total - digest.line.present - Count("excused")
                  = DailyTrend["absent"] + DailyTrend["early_leave"]
  <2>1. digest = [line |-> DigestLine, rate |-> Percent(DigestLine.present, DigestLine.total)]
    BY DEF FacultyWeekly, FacultyDaily
  <2>2. DigestLine.total = Cardinality(rows) /\ DigestLine.present = Cardinality(Attended)
    BY DEF DigestLine
  <2>3. DailyTrend["absent"] = Count("absent") /\ DailyTrend["early_leave"] = Count("early_leave")
    BY DEF DailyTrend, RowStatus, MemStatus
  <2>4. digest.rate = rate
    BY <2>1, <2>2 DEF rate
  <2>5. digest.line.total = Cardinality(rows) /\ digest.line.present = Cardinality(Attended)
    BY <2>1, <2>2
  <2> QED
    BY <1>1, <2>3, <2>4, <2>5
<1> QED
  BY <1>2, <1>3, <1>4, <1>5, <1>6, <1>7

\* Lists of rows and of classes.
LEMMA ListReports ==
    ASSUME IsFiniteSet(Students), TimeInv, NULL \notin Students
    PROVE  /\ \A status \in RowStatus :
                 {Cardinality(DOMAIN list_attendance_records(NULL, {status})),
                  Cardinality(DOMAIN export_attendance(NULL, {status}))}
                   = {RangeSummary.count[status]}
           /\ \A s \in Students :
                 list_attendance_records(s, RowStatus) = get_my_attendance(s)
           /\ get_today_attendance = LiveAttendance.students
           /\ \A s \in Students :
                 LET enrolments == get_student_enrollments(s, 1, 0)
                 IN  /\ enrolments.items # {} <=> s \in get_enrolled_students
                     /\ ~enrolments.has_more
                     /\ s \in get_enrolled_students <=> get_student_enrollment_ids(s)
           /\ ScheduleSummary.session_active => "live" \in list_schedules
<1>1. ASSUME NEW status \in RowStatus
      PROVE  {Cardinality(DOMAIN list_attendance_records(NULL, {status})),
              Cardinality(DOMAIN export_attendance(NULL, {status}))}
               = {RangeSummary.count[status]}
  <2>1. RangeSummary.count[status] = Cardinality(Having({status}))
    BY DEF RangeSummary, Count
  <2>2. VisibleTo(NULL) \cap Having({status}) = Having({status})
    BY DEF VisibleTo, Having
  <2>3. /\ list_attendance_records(NULL, {status}) = Lines(Having({status}))
        /\ export_attendance(NULL, {status}) = Lines(Having({status}))
    BY <2>2 DEF list_attendance_records, export_attendance
  <2>4. DOMAIN Lines(Having({status})) = Having({status})
    BY DEF Lines
  <2> QED
    BY <2>1, <2>3, <2>4
<1>2. ASSUME NEW s \in Students
      PROVE  list_attendance_records(s, RowStatus) = get_my_attendance(s)
  <2>1. \A r \in rows : rec[r].status \in RowStatus
    BY DEF TimeInv, TypeOK, AttendanceRow
  <2>2. VisibleTo(s) \cap Having(RowStatus) = History(s)
    BY <2>1 DEF VisibleTo, Having, History
  <2> QED
    BY <2>2 DEF list_attendance_records, get_my_attendance
<1>3. get_today_attendance = LiveAttendance.students
  BY DEF get_today_attendance, LiveAttendance, Lines, VisibleTo
<1>4. ASSUME NEW s \in Students
      PROVE  LET enrolments == get_student_enrollments(s, 1, 0)
             IN  /\ enrolments.items # {} <=> s \in enrolled
                 /\ ~enrolments.has_more
  <2> DEFINE total == Cardinality(enrolled \cap {s})
             items == {i \in 1..total : 0 < i /\ i <= 0 + 1}
  <2>1. /\ get_student_enrollments(s, 1, 0).items = items
        /\ get_student_enrollments(s, 1, 0).has_more = (0 + Cardinality(items) < total)
    BY DEF get_student_enrollments
  <2>2. total = IF s \in enrolled THEN 1 ELSE 0
    BY OneStudent
  <2>3. CASE s \in enrolled
    <3>1. items = {1}
      BY <2>2, <2>3
    <3>2. Cardinality(items) = 1
      BY <3>1, FS_Singleton
    <3>3. items # {}
      BY <3>1
    <3>4. ~(0 + Cardinality(items) < total)
      BY <2>2, <2>3, <3>2
    <3> HIDE DEF items, total
    <3> QED
      BY <2>1, <2>3, <3>3, <3>4
  <2>4. CASE s \notin enrolled
    <3>1. items = {}
      BY <2>2, <2>4
    <3>2. Cardinality(items) = 0
      BY <3>1, FS_EmptySet
    <3>3. ~(0 + Cardinality(items) < total)
      BY <2>2, <2>4, <3>2
    <3> HIDE DEF items, total
    <3> QED
      BY <2>1, <2>4, <3>1, <3>3
  <2> QED
    BY <2>3, <2>4
<1>5. ScheduleSummary.session_active => "live" \in list_schedules
  BY DEF ScheduleSummary, list_schedules, RuntimeStatus
<1> QED
  BY <1>1, <1>2, <1>3, <1>4, <1>5 DEF get_enrolled_students, get_student_enrollment_ids

\* Digests, and the students at risk.
LEMMA DigestReports ==
    ASSUME IsFiniteSet(Students), TimeInv, NULL \notin Students
    PROVE  /\ run_daily_digest(Students \cup {NULL}) = run_weekly_digest(Students \cup {NULL})
           /\ NULL \in run_daily_digest({NULL}) <=> SessionHistory # {}
           /\ AtRisk \cap Attended = {}
           /\ RangeSummary.rate = 100 => AtRisk \subseteq enrolled \ rows
<1>1. (FacultyDaily # {} <=> rows # {}) /\ (FacultyWeekly # {} <=> rows # {})
  BY DEF FacultyDaily, FacultyWeekly
<1>2. SessionHistory # {} <=> rows # {}
  <2> DEFINE total == Count("present") + Count("late") + Count("absent")
                        + Count("early_leave") + Count("excused")
             line == [total |-> total,
                      count |-> [status \in RowStatus |-> Count(status)],
                      rate |-> Percent(Count("present") + Count("late"), total)]
  <2>1. SessionHistory = IF rows = {} THEN {} ELSE {line}
    BY DEF SessionHistory
  <2> HIDE DEF line
  <2> QED
    BY <2>1
<1>3. \A u \in Students : StudentDaily(u) # {} <=> StudentWeekly(u) # {}
  BY StudentRates
<1>4. run_daily_digest(Students \cup {NULL}) = run_weekly_digest(Students \cup {NULL})
  BY <1>1, <1>3 DEF run_daily_digest, run_weekly_digest
<1>5. NULL \in run_daily_digest({NULL}) <=> SessionHistory # {}
  BY <1>1, <1>2 DEF run_daily_digest
<1>6. AtRisk \cap Attended = {}
  <2>1. \A s \in Attended : StudentSummary(s).rate = 100
    BY StudentRates
  <2> QED
    BY <2>1 DEF AtRisk
<1>7. ASSUME RangeSummary.rate = 100
      PROVE  AtRisk \subseteq enrolled \ rows
  <2>1. /\ IsFiniteSet(rows) /\ Attended \subseteq rows /\ IsFiniteSet(Attended)
        /\ Cardinality(rows) \in Nat
        /\ Cardinality(Attended) = Count("present") + Count("late")
    BY StatusesPartition
  <2>2. Cardinality(Attended) \in Nat /\ Cardinality(Attended) <= Cardinality(rows)
    BY <2>1, FS_Subset, FS_CardinalityType
  <2>3. Percent(Cardinality(Attended), Cardinality(rows)) = 100
    BY <1>7, <2>1 DEF RangeSummary
  <2>4. Cardinality(Attended) = Cardinality(rows)
    BY <2>1, <2>2, <2>3, FullPercent
  <2>5. Attended = rows
    BY <2>1, <2>4, FS_Subset
  <2>6. AtRisk \subseteq enrolled
    BY DEF AtRisk
  <2> QED
    BY <1>6, <2>5, <2>6
<1> QED
  BY <1>4, <1>5, <1>6, <1>7

\* A dozen handlers that each count the rows give the same numbers, whatever
\* the two writers, the restarts and the corrections made of the rows, for any
\* finite class.
THEOREM ReportsAlwaysAgree ==
    ASSUME IsFiniteSet(Students), NULL \notin Students
    PROVE  DaySpec => []ReportsAgree
<1>1. TimeInv /\ RegistryTells => ReportsAgree
  <2> SUFFICES ASSUME TimeInv, RegistryTells PROVE ReportsAgree
    OBVIOUS
  <2>1. get_active_sessions.count = 0 => ~LiveAttendance.session_active
    BY DEF get_active_sessions, LiveAttendance, RegistryTells
  <2>2. \A s \in Students :
          \A digest \in StudentWeekly(s) : digest.rate = StudentSummary(s).rate
    BY StudentRates
  <2> QED
    BY <2>1, <2>2, ClassReports, ListReports, DigestReports, Zenon DEF ReportsAgree
<1>2. DaySpec => []TimeInv
  BY DayTimeAlways
<1>3. DaySpec => []RegistryTells
  BY RegistryAlwaysTells
<1> QED
  BY <1>1, <1>2, <1>3, PTL

=============================================================================
