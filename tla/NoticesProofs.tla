--------------------------- MODULE NoticesProofs ----------------------------
(* Who is told of what.  For any students, classes, windows and faults: the *)
(* types of the nightly notices, that nobody is warned twice within the     *)
(* window, and that a failing statement leaves no anomaly nobody heard of.  *)
(* For any administrators and limits: whoever runs when a camera's change   *)
(* is announced is told of it, and no FFmpeg is replaced and left running.  *)
EXTENDS Notices, CameraAlerts, TLAPS

Step == \/ BeginLow \/ BeginAnomaly \/ Cleanup \/ Finish
        \/ \E i \in Enrolled \cup Found : Skip(i) \/ QueryFails(i)
        \/ \E p \in Enrolled : NothingToWarn(p) \/ WarnStudent(p) \/ TellTeacher(p)
        \/ \E a \in Found : NoAnomaly(a) \/ RecordAnomaly(a) \/ AnnounceAnomaly(a)
                               \/ ResolveAnomaly(a)
        \/ \E R \in SUBSET rows : ReadNotices(R) \/ DeleteNotices(R)
        \/ \E u \in Users : update_preferences(u)
        \/ Crash \/ NewDay

\* The actions of Next, one quantifier deep.
LEMMA Flat == Next => Step
BY DEF Next, Step, JobStep, UserStep, LowStep, AnomalyStep, mark_read, mark_all_read,
       delete_notification, delete_all_notifications

-----------------------------------------------------------------------------
(* Types                                                                    *)

Work == [job : Jobs \cup {"none"}, todo : SUBSET (Enrolled \cup Found),
         current : Enrolled \cup Found \cup {None}, poisoned : BOOLEAN]

LEMMA IdleType == Idle \in Work
BY DEF Idle, Work, Found, Jobs

LEMMA OverType ==
    ASSUME TypeOK, NEW i, NEW b \in BOOLEAN, Over(i, b)
    PROVE  work' \in Work
BY DEF TypeOK, Over, Work

LEMMA BlameType ==
    ASSUME TypeOK, NEW o \in Outcomes, Blame(o)
    PROVE  faults' \in 0..MaxFaults
<1>1. faults \in 0..MaxFaults /\ MaxFaults \in Nat
  BY NoticesAssumption DEF TypeOK
<1>2. CASE faults < MaxFaults
  BY <1>1, <1>2 DEF Blame
<1>3. CASE ~(faults < MaxFaults)
  <2>1. o = "stands"
    BY <1>3 DEF Outcomes
  <2> QED BY <1>1, <2>1 DEF Blame
<1> QED BY <1>2, <1>3

LEMMA InitType == Init => TypeOK
<1> SUFFICES ASSUME Init PROVE TypeOK
  OBVIOUS
<1>1. work \in Work
  BY IdleType DEF Init
<1> QED BY <1>1, NoticesAssumption DEF Init, TypeOK, Work, Users

LEMMA TypeStep == TypeOK /\ [Next]_vars => TypeOK'
<1> SUFFICES ASSUME TypeOK, [Next]_vars PROVE TypeOK'
  OBVIOUS
<1> USE DEF env, history
<1>a. CASE UNCHANGED vars
  BY <1>a DEF vars, TypeOK
<1>b. CASE Step
  <2>1. CASE BeginLow
    <3>1. work' \in Work
      BY <2>1, IdleType DEF BeginLow, Begin, Work, IsNext, TypeOK, Idle
    <3> QED BY <2>1, <3>1 DEF BeginLow, Begin, TypeOK, Work
  <2>2. CASE BeginAnomaly
    <3>1. work' \in Work
      BY <2>2, IdleType DEF BeginAnomaly, Begin, Work, IsNext, TypeOK, Idle
    <3> QED BY <2>2, <3>1 DEF BeginAnomaly, Begin, TypeOK, Work
  <2>3. CASE Cleanup
    <3>1. faults' \in 0..MaxFaults
      BY <2>3, NoticesAssumption DEF Cleanup, TypeOK
    <3> QED BY <2>3, <3>1 DEF Cleanup, TypeOK
  <2>4. CASE Finish
    BY <2>4, IdleType DEF Finish, TypeOK, Work
  <2>5. ASSUME NEW i \in Enrolled \cup Found, Skip(i)
        PROVE  TypeOK'
    <3>1. work' \in Work
      BY <2>5, OverType DEF Skip
    <3> QED BY <2>5, <3>1 DEF Skip, TypeOK, Work
  <2>6. ASSUME NEW i \in Enrolled \cup Found, QueryFails(i)
        PROVE  TypeOK'
    <3>1. work' \in Work
      BY <2>6, OverType DEF QueryFails
    <3>2. faults' \in 0..MaxFaults
      BY <2>6, NoticesAssumption DEF QueryFails, TypeOK
    <3> QED BY <2>6, <3>1, <3>2 DEF QueryFails, TypeOK, Work
  <2>7. ASSUME NEW p \in Enrolled, NothingToWarn(p)
        PROVE  TypeOK'
    <3>1. work' \in Work
      BY <2>7, OverType DEF NothingToWarn
    <3> QED BY <2>7, <3>1 DEF NothingToWarn, TypeOK, Work
  <2>8. ASSUME NEW p \in Enrolled, WarnStudent(p)
        PROVE  TypeOK'
    <3>1. p[1] \in Students
      BY NoticesAssumption
    <3>2. work' \in Work
      BY <2>8 DEF WarnStudent, TypeOK, Work
    <3>3. faults' \in 0..MaxFaults
      BY <2>8, BlameType DEF WarnStudent, TypeOK
    <3>4. [student |-> p[1], age |-> 0, read |-> FALSE] \in Row
      BY <3>1, NoticesAssumption DEF Row
    <3>5. rows' \subseteq Row
      <4>1. rows' \subseteq rows \cup {[student |-> p[1], age |-> 0, read |-> FALSE]}
        BY <2>8, Zenon DEF WarnStudent
      <4> QED BY <3>4, <4>1 DEF TypeOK
    <3>6. since' \in [Students -> 0..RenotifyDays] /\ lost' \subseteq Students
      <4>1. since' = [since EXCEPT ![p[1]] = 0] \/ since' = since
        BY <2>8 DEF WarnStudent
      <4>2. lost' \subseteq lost \cup {p[1]}
        BY <2>8 DEF WarnStudent
      <4>3. 0 \in 0..RenotifyDays
        BY NoticesAssumption
      <4> QED BY <3>1, <4>1, <4>2, <4>3 DEF TypeOK
    <3> QED BY <2>8, <3>2, <3>3, <3>5, <3>6 DEF WarnStudent, TypeOK, Work
  <2>9. ASSUME NEW p \in Enrolled, TellTeacher(p)
        PROVE  TypeOK'
    <3>1. work' \in Work
      BY <2>9, OverType DEF TellTeacher
    <3>2. faults' \in 0..MaxFaults
      BY <2>9, BlameType DEF TellTeacher, TypeOK
    <3> QED BY <2>9, <3>1, <3>2 DEF TellTeacher, TypeOK, Work
  <2>10. ASSUME NEW a \in Found, NoAnomaly(a)
         PROVE  TypeOK'
    <3>1. work' \in Work
      BY <2>10, OverType DEF NoAnomaly
    <3> QED BY <2>10, <3>1 DEF NoAnomaly, TypeOK, Work
  <2>11. ASSUME NEW a \in Found, RecordAnomaly(a)
         PROVE  TypeOK'
    <3>1. work' \in Work
      BY <2>11, OverType DEF RecordAnomaly, TypeOK, Work
    <3>2. faults' \in 0..MaxFaults
      BY <2>11, BlameType DEF RecordAnomaly
    <3> QED BY <2>11, <3>1, <3>2 DEF RecordAnomaly, TypeOK, Work
  <2>12. ASSUME NEW a \in Found, AnnounceAnomaly(a)
         PROVE  TypeOK'
    <3>1. work' \in Work
      BY <2>12, OverType DEF AnnounceAnomaly
    <3>2. faults' \in 0..MaxFaults
      BY <2>12, BlameType DEF AnnounceAnomaly, TypeOK
    <3> QED BY <2>12, <3>1, <3>2 DEF AnnounceAnomaly, TypeOK, Work
  <2>13. ASSUME NEW a \in Found, ResolveAnomaly(a)
         PROVE  TypeOK'
    BY <2>13 DEF ResolveAnomaly, TypeOK
  <2>14. ASSUME NEW R \in SUBSET rows, ReadNotices(R)
         PROVE  TypeOK'
    <3>1. \A r \in Row : [r EXCEPT !.read = TRUE] \in Row
      BY DEF Row
    <3>2. rows' \subseteq Row
      BY <2>14, <3>1 DEF ReadNotices, TypeOK
    <3> QED BY <2>14, <3>2 DEF ReadNotices, TypeOK
  <2>15. ASSUME NEW R \in SUBSET rows, DeleteNotices(R)
         PROVE  TypeOK'
    BY <2>15 DEF DeleteNotices, TypeOK, Row
  <2>16. ASSUME NEW u \in Users, update_preferences(u)
         PROVE  TypeOK'
    BY <2>16 DEF update_preferences, TypeOK
  <2>17. CASE Crash
    <3>1. faults' \in 0..MaxFaults
      BY <2>17, NoticesAssumption DEF Crash, TypeOK
    <3> QED BY <2>17, <3>1, IdleType DEF Crash, TypeOK, Work
  <2>18. CASE NewDay
    <3>1. \A r \in Row : [r EXCEPT !.age = Older(@, RetentionDays + 1)] \in Row
      BY NoticesAssumption DEF Row, Older
    <3>2. rows' \subseteq Row
      BY <2>18, <3>1 DEF NewDay, TypeOK
    <3>3. since' \in [Students -> 0..RenotifyDays]
      BY <2>18, NoticesAssumption DEF NewDay, TypeOK, Older
    <3> QED BY <2>18, <3>2, <3>3 DEF NewDay, TypeOK
  <2> QED
    BY <1>b, <2>1, <2>2, <2>3, <2>4, <2>5, <2>6, <2>7, <2>8, <2>9, <2>10, <2>11, <2>12,
       <2>13, <2>14, <2>15, <2>16, <2>17, <2>18 DEF Step
<1> QED BY <1>a, <1>b, Flat

\* The variables keep their types (TypeOK), whatever fails.
THEOREM TypeCorrect == Spec => []TypeOK
BY InitType, TypeStep, PTL DEF Spec

-----------------------------------------------------------------------------
(* Nobody is warned twice within the window                                 *)

\* A warning of less than RenotifyDays ago still has its row, no older than
\* the toast, unless that row was never written or its owner deleted it.
Remembered ==
    \A s \in Students \ lost :
        since[s] < RenotifyDays => \E r \in rows : r.student = s /\ r.age <= since[s]

LEMMA InitRemembered == Init => Remembered
BY NoticesAssumption DEF Init, Remembered

\* Where rows, since and lost stay, so does Remembered.
LEMMA RememberedStays ==
    ASSUME Remembered, UNCHANGED <<rows, since, lost>>
    PROVE  Remembered'
BY DEF Remembered

LEMMA RememberedStep == TypeOK /\ Remembered /\ [Next]_vars => Remembered'
<1> SUFFICES ASSUME TypeOK, Remembered, [Next]_vars PROVE Remembered'
  OBVIOUS
<1> USE DEF env, history
<1>a. CASE UNCHANGED vars
  BY <1>a, RememberedStays DEF vars
<1>b. CASE Step
  <2>1. CASE BeginLow \/ BeginAnomaly \/ Finish \/ Crash
    BY <2>1, RememberedStays DEF BeginLow, BeginAnomaly, Begin, Finish, Crash
  <2>2. ASSUME NEW i \in Enrolled \cup Found, Skip(i) \/ QueryFails(i)
        PROVE  Remembered'
    BY <2>2, RememberedStays DEF Skip, QueryFails
  <2>3. ASSUME NEW p \in Enrolled, NothingToWarn(p) \/ TellTeacher(p)
        PROVE  Remembered'
    BY <2>3, RememberedStays DEF NothingToWarn, TellTeacher
  <2>4. ASSUME NEW a \in Found,
               NoAnomaly(a) \/ RecordAnomaly(a) \/ AnnounceAnomaly(a) \/ ResolveAnomaly(a)
        PROVE  Remembered'
    BY <2>4, RememberedStays DEF NoAnomaly, RecordAnomaly, AnnounceAnomaly, ResolveAnomaly
  <2>5. ASSUME NEW u \in Users, update_preferences(u)
        PROVE  Remembered'
    BY <2>5, RememberedStays DEF update_preferences
  <2>6. CASE Cleanup
    <3> SUFFICES ASSUME NEW s \in Students \ lost, since[s] < RenotifyDays
                 PROVE  \E r \in rows' : r.student = s /\ r.age <= since[s]
      BY <2>6 DEF Cleanup, Remembered
    <3>1. PICK r \in rows : r.student = s /\ r.age <= since[s]
      BY DEF Remembered
    <3>2. r.age \in Nat /\ since[s] \in Nat
      BY NoticesAssumption DEF TypeOK, Row
    <3>3. ~Expired(r)
      BY <3>1, <3>2, NoticesAssumption DEF Expired
    <3> QED BY <2>6, <3>1, <3>3 DEF Cleanup
  <2>7. ASSUME NEW R \in SUBSET rows, ReadNotices(R)
        PROVE  Remembered'
    <3> SUFFICES ASSUME NEW s \in Students \ lost, since[s] < RenotifyDays
                 PROVE  \E r \in rows' : r.student = s /\ r.age <= since[s]
      BY <2>7 DEF ReadNotices, Remembered
    <3>1. PICK r \in rows : r.student = s /\ r.age <= since[s]
      BY DEF Remembered
    <3> DEFINE seen == [r EXCEPT !.read = TRUE]
    <3>2. seen.student = s /\ seen.age <= since[s]
      BY <3>1 DEF TypeOK, Row
    <3>3. r \in rows' \/ seen \in rows'
      BY <2>7, <3>1 DEF ReadNotices
    <3> QED BY <3>1, <3>2, <3>3
  <2>8. ASSUME NEW R \in SUBSET rows, DeleteNotices(R)
        PROVE  Remembered'
    <3> SUFFICES ASSUME NEW s \in Students \ lost', since[s] < RenotifyDays
                 PROVE  \E r \in rows' : r.student = s /\ r.age <= since[s]
      BY <2>8 DEF DeleteNotices, Remembered
    <3>1. s \notin lost /\ \A r \in R : r.student # s
      BY <2>8 DEF DeleteNotices
    <3>2. PICK r \in rows : r.student = s /\ r.age <= since[s]
      BY <3>1 DEF Remembered
    <3> QED BY <2>8, <3>1, <3>2 DEF DeleteNotices
  <2>9. ASSUME NEW p \in Enrolled, WarnStudent(p)
        PROVE  Remembered'
    <3>1. CASE p[1] \notin wants
      BY <2>9, <3>1, RememberedStays DEF WarnStudent
    <3>2. CASE p[1] \in wants
      <4>1. PICK o \in Outcomes :
              /\ rows' = rows \cup
                    (IF Stored(o) THEN {[student |-> p[1], age |-> 0, read |-> FALSE]} ELSE {})
              /\ lost' = IF Stored(o) THEN lost \ {p[1]} ELSE lost \cup {p[1]}
              /\ since' = [since EXCEPT ![p[1]] = 0]
        BY <2>9, <3>2 DEF WarnStudent
      <4> SUFFICES ASSUME NEW s \in Students \ lost', since'[s] < RenotifyDays
                   PROVE  \E r \in rows' : r.student = s /\ r.age <= since'[s]
        BY DEF Remembered
      <4>2. CASE s = p[1]
        <5>1. Stored(o)
          BY <4>1, <4>2
        <5>2. since'[s] = 0
          BY <4>1, <4>2 DEF TypeOK
        <5> DEFINE fresh == [student |-> p[1], age |-> 0, read |-> FALSE]
        <5>3. fresh \in rows'
          BY <4>1, <5>1
        <5>4. fresh.student = s /\ fresh.age <= since'[s]
          BY <4>2, <5>2
        <5> QED BY <5>3, <5>4
      <4>3. CASE s # p[1]
        <5>1. s \notin lost /\ since'[s] = since[s]
          BY <4>1, <4>3 DEF TypeOK
        <5> QED BY <4>1, <5>1 DEF Remembered
      <4> QED BY <4>2, <4>3
    <3> QED BY <3>1, <3>2
  <2>10. CASE NewDay
    <3> SUFFICES ASSUME NEW s \in Students \ lost, since'[s] < RenotifyDays
                 PROVE  \E r \in rows' : r.student = s /\ r.age <= since'[s]
      BY <2>10 DEF NewDay, Remembered
    <3>1. since[s] \in Nat /\ RenotifyDays \in Nat /\ RetentionDays \in Nat
      BY NoticesAssumption DEF TypeOK
    <3>2. since'[s] = Older(since[s], RenotifyDays)
      BY <2>10 DEF NewDay
    <3>3. since[s] < RenotifyDays /\ since'[s] = since[s] + 1
      BY <3>1, <3>2 DEF Older
    <3>4. PICK r \in rows : r.student = s /\ r.age <= since[s]
      BY <3>3 DEF Remembered
    <3> DEFINE old == [r EXCEPT !.age = Older(@, RetentionDays + 1)]
    <3>5. old \in rows'
      BY <2>10, <3>4 DEF NewDay
    <3>6. r.age \in Nat /\ r \in Row
      BY <3>4, NoticesAssumption DEF TypeOK, Row
    <3>7. old.student = s /\ old.age <= r.age + 1
      BY <3>1, <3>4, <3>6 DEF Row, Older
    <3>8. old.age \in Nat
      BY <3>1, <3>6 DEF Row, Older
    <3>9. old.student = s /\ old.age <= since'[s]
      <4> HIDE DEF old
      <4> QED BY <3>1, <3>3, <3>4, <3>6, <3>7, <3>8
    <3> QED
      <4> HIDE DEF old
      <4> QED BY <3>5, <3>9
  <2> QED
    BY <1>b, <2>1, <2>2, <2>3, <2>4, <2>5, <2>6, <2>7, <2>8, <2>9, <2>10 DEF Step
<1> QED BY <1>a, <1>b, Flat

\* A step that warns within the window warns one whose row is gone.
LEMMA WarningsAreApart ==
    TypeOK /\ Remembered /\ [Next]_vars =>
        [\A p \in Enrolled :
            since[p[1]] < RenotifyDays /\ work.current # p /\ work'.current = p
                /\ p[1] \in wants /\ work.job = "low_attendance" => p[1] \in lost]_vars
<1> SUFFICES ASSUME TypeOK, Remembered, Next, NEW p \in Enrolled,
                    since[p[1]] < RenotifyDays, work.current # p, work'.current = p,
                    work.job = "low_attendance", p[1] \notin lost
             PROVE  FALSE
  OBVIOUS
<1> USE DEF env, history
<1>0. p # None /\ p[1] \in Students
  BY NoticesAssumption
<1>1. WarnStudent(p)
  <2>0. Step
    BY Flat
  <2>1. ~(BeginLow \/ BeginAnomaly \/ Finish \/ Cleanup \/ Crash \/ NewDay)
    BY <1>0 DEF BeginLow, BeginAnomaly, Begin, IsNext, Finish, Cleanup, Crash, NewDay, Idle
  <2>2. \A i \in Enrolled \cup Found : ~(Skip(i) \/ QueryFails(i))
    BY <1>0 DEF Skip, QueryFails, Over, TypeOK
  <2>3. \A q \in Enrolled : ~(NothingToWarn(q) \/ TellTeacher(q))
    BY <1>0 DEF NothingToWarn, TellTeacher, Over, TypeOK
  <2>4. \A a \in Found : ~(NoAnomaly(a) \/ RecordAnomaly(a) \/ AnnounceAnomaly(a)
                               \/ ResolveAnomaly(a))
    BY DEF NoAnomaly, RecordAnomaly, AnnounceAnomaly, ResolveAnomaly
  <2>5. \A R \in SUBSET rows : ~(ReadNotices(R) \/ DeleteNotices(R))
    BY DEF ReadNotices, DeleteNotices
  <2>6. \A u \in Users : ~update_preferences(u)
    BY DEF update_preferences
  <2>7. PICK q \in Enrolled : WarnStudent(q)
    BY <2>0, <2>1, <2>2, <2>3, <2>4, <2>5, <2>6 DEF Step
  <2>8. work'.current = q
    BY <2>7 DEF WarnStudent, TypeOK
  <2> QED BY <2>7, <2>8
<1>2. PICK r \in rows : r.student = p[1] /\ r.age <= since[p[1]]
  BY <1>0 DEF Remembered
<1>3. r.age \in Nat /\ since[p[1]] \in Nat /\ RenotifyDays \in Nat
  BY <1>0, NoticesAssumption DEF TypeOK, Row
<1>4. \A early \in BOOLEAN : Recent(r, early)
  BY <1>2, <1>3 DEF Recent
<1> QED BY <1>1, <1>2, <1>4 DEF WarnStudent, Warnable

\* Nobody is warned twice within the window, for any windows with
\* RenotifyDays <= RetentionDays (NotNagged).
THEOREM NobodyNagged == Spec => NotNagged
<1>1. Init => TypeOK /\ Remembered
  BY InitType, InitRemembered
<1>2. TypeOK /\ Remembered /\ [Next]_vars => (TypeOK /\ Remembered)'
  BY TypeStep, RememberedStep
<1> QED BY <1>1, <1>2, WarningsAreApart, PTL DEF Spec, NotNagged

-----------------------------------------------------------------------------
(* No anomaly on record that nobody heard of                                *)

\* What the job has in hand is on its list, and an anomaly is in hand only
\* on a session that has just committed it.
InHand ==
    /\ work.current # None => work.current \in work.todo
    /\ work.job = "low_attendance" => work.current \notin Found
    /\ work.job = "anomaly" /\ work.current # None => ~work.poisoned

AnomalyInv == TypeOK /\ InHand /\ NoSilentAnomaly

\* A warning is not an anomaly, and None is neither.
LEMMA Distinct == Enrolled \cap Found = {} /\ None \notin Enrolled \cup Found
BY NoticesAssumption DEF Found

LEMMA InitAnomaly == Init => AnomalyInv
BY InitType DEF Init, AnomalyInv, InHand, NoSilentAnomaly, Idle

LEMMA AnomalyStays ==
    ASSUME AnomalyInv, TypeOK', UNCHANGED <<anomalies, heard, missed, work>>
    PROVE  AnomalyInv'
BY DEF AnomalyInv, InHand, NoSilentAnomaly

\* Nothing in hand before and after, and no change to the anomalies.
LEMMA AnomalyIdle ==
    ASSUME AnomalyInv, TypeOK', UNCHANGED <<anomalies, heard, missed>>,
           work.current \notin Found, work'.current = None
    PROVE  AnomalyInv'
<1>1. work.current \notin anomalies
  BY DEF AnomalyInv, TypeOK
<1> QED BY <1>1, Distinct DEF AnomalyInv, InHand, NoSilentAnomaly

LEMMA OverCurrent ==
    ASSUME TypeOK, NEW i, NEW b, Over(i, b)
    PROVE  work'.current = None
BY DEF TypeOK, Over

LEMMA AnomalyInvStep == AnomalyInv /\ [Next]_vars => AnomalyInv'
<1> SUFFICES ASSUME AnomalyInv, [Next]_vars PROVE AnomalyInv'
  OBVIOUS
<1> USE DEF env, history
<1>0. TypeOK /\ TypeOK'
  BY TypeStep DEF AnomalyInv
<1>a. CASE UNCHANGED vars
  BY <1>a, <1>0, AnomalyStays DEF vars
<1>b. CASE Step
  <2>1. CASE BeginLow \/ BeginAnomaly
    BY <2>1, <1>0, AnomalyIdle, Distinct DEF BeginLow, BeginAnomaly, Begin, IsNext, Idle
  <2>2. CASE Finish
    <3>1. work.current = None
      BY <2>2 DEF Finish, AnomalyInv, InHand
    <3> QED BY <2>2, <3>1, <1>0, AnomalyIdle, Distinct DEF Finish, Idle
  <2>3. CASE Cleanup
    BY <2>3, <1>0, AnomalyStays DEF Cleanup
  <2>4. CASE NewDay
    BY <2>4, <1>0, AnomalyStays DEF NewDay
  <2>5. CASE Crash
    BY <2>5, <1>0, Distinct DEF Crash, Idle, AnomalyInv, InHand, NoSilentAnomaly
  <2>6. ASSUME NEW i \in Enrolled \cup Found, Skip(i) \/ QueryFails(i)
        PROVE  AnomalyInv'
    BY <2>6, <1>0, AnomalyIdle, OverCurrent, Distinct DEF Skip, QueryFails
  <2>7. ASSUME NEW p \in Enrolled, NothingToWarn(p)
        PROVE  AnomalyInv'
    BY <2>7, <1>0, AnomalyIdle, OverCurrent, Distinct DEF NothingToWarn
  <2>8. ASSUME NEW p \in Enrolled, WarnStudent(p)
        PROVE  AnomalyInv'
    <3>1. p \in work.todo /\ work.current = None /\ work.job = "low_attendance"
      BY <2>8 DEF WarnStudent
    <3>2. work'.current = p /\ work'.todo = work.todo /\ work'.job = work.job
      BY <2>8, <1>0 DEF WarnStudent, TypeOK
    <3>3. UNCHANGED <<anomalies, heard, missed>>
      BY <2>8 DEF WarnStudent
    <3>4. p \notin Found /\ p # None
      BY Distinct
    <3>5. None \notin anomalies /\ p \notin anomalies
      BY <1>0, <3>4, Distinct DEF TypeOK
    <3> QED BY <1>0, <3>1, <3>2, <3>3, <3>4, <3>5 DEF AnomalyInv, InHand, NoSilentAnomaly
  <2>9. ASSUME NEW p \in Enrolled, TellTeacher(p)
        PROVE  AnomalyInv'
    <3>1. work.current \notin Found
      BY <2>9 DEF TellTeacher, AnomalyInv, InHand
    <3>2. work'.current = None
      BY <2>9, <1>0, OverCurrent DEF TellTeacher
    <3> QED BY <2>9, <3>1, <3>2, <1>0, AnomalyIdle DEF TellTeacher
  <2>10. ASSUME NEW a \in Found, NoAnomaly(a)
         PROVE  AnomalyInv'
    BY <2>10, <1>0, AnomalyIdle, OverCurrent, Distinct DEF NoAnomaly
  <2>11. ASSUME NEW a \in Found, RecordAnomaly(a)
         PROVE  AnomalyInv'
    <3>1. work.current = None /\ ~work.poisoned /\ a \in work.todo /\ work.job = "anomaly"
      BY <2>11 DEF RecordAnomaly, Usable
    <3>2. CASE anomalies' = anomalies \cup {a} /\ work' = [work EXCEPT !.current = a]
      <4>1. UNCHANGED <<heard, missed>>
        BY <2>11 DEF RecordAnomaly
      <4>2. work'.current = a /\ work'.todo = work.todo /\ work'.job = work.job
            /\ work'.poisoned = work.poisoned
        BY <3>2, <1>0 DEF TypeOK
      <4>3. None \notin anomalies
        BY <1>0, Distinct DEF TypeOK
      <4> QED BY <1>0, <3>1, <3>2, <4>1, <4>2, <4>3 DEF AnomalyInv, InHand, NoSilentAnomaly
    <3>3. CASE \E b \in BOOLEAN : Over(a, b) /\ UNCHANGED anomalies
      BY <2>11, <3>1, <3>3, <1>0, AnomalyIdle, OverCurrent, Distinct DEF RecordAnomaly
    <3> QED BY <2>11, <3>2, <3>3 DEF RecordAnomaly
  <2>12. ASSUME NEW a \in Found, AnnounceAnomaly(a)
         PROVE  AnomalyInv'
    <3>1. work.current = a /\ work.job = "anomaly" /\ a # None
      BY <2>12, Distinct DEF AnnounceAnomaly
    <3>2. heard' = heard \cup {a} /\ UNCHANGED <<anomalies, missed>>
      BY <2>12, <3>1 DEF AnnounceAnomaly, AnomalyInv, InHand
    <3>3. work'.current = None
      BY <2>12, <1>0, OverCurrent DEF AnnounceAnomaly
    <3> QED BY <1>0, <3>1, <3>2, <3>3, Distinct DEF AnomalyInv, InHand, NoSilentAnomaly
  <2>13. ASSUME NEW a \in Found, ResolveAnomaly(a)
         PROVE  AnomalyInv'
    BY <2>13, <1>0 DEF ResolveAnomaly, AnomalyInv, InHand, NoSilentAnomaly
  <2>14. ASSUME NEW R \in SUBSET rows, ReadNotices(R) \/ DeleteNotices(R)
         PROVE  AnomalyInv'
    BY <2>14, <1>0, AnomalyStays DEF ReadNotices, DeleteNotices
  <2>15. ASSUME NEW u \in Users, update_preferences(u)
         PROVE  AnomalyInv'
    BY <2>15, <1>0, AnomalyStays DEF update_preferences
  <2> QED
    BY <1>b, <2>1, <2>2, <2>3, <2>4, <2>5, <2>6, <2>7, <2>8, <2>9, <2>10, <2>11, <2>12,
       <2>13, <2>14, <2>15 DEF Step
<1> QED BY <1>a, <1>b, Flat

\* Whatever statement fails, an unresolved anomaly has been announced, is
\* about to be, or the gateway died on it (NoSilentAnomaly).
THEOREM AnomaliesAreHeard == Spec => []NoSilentAnomaly
<1>1. AnomalyInv => NoSilentAnomaly
  BY DEF AnomalyInv
<1> QED BY <1>1, InitAnomaly, AnomalyInvStep, PTL DEF Spec

-----------------------------------------------------------------------------
(* A camera and its bell (CameraAlerts)                                     *)

LEMMA PostedType ==
    ASSUME reports \in Seq(BOOLEAN), NEW up \in BOOLEAN, Post(up)
    PROVE  reports' \in Seq(BOOLEAN)
<1>1. \A S : \A seq \in Seq(S), e \in S : Append(seq, e) \in Seq(S)
  OBVIOUS
<1> QED
  BY <1>1 DEF Post

LEMMA GrabberType == GrabberTypeOK /\ [GrabberNext]_grabberVars => GrabberTypeOK'
<1> SUFFICES ASSUME GrabberTypeOK, [GrabberNext]_grabberVars PROVE GrabberTypeOK'
  OBVIOUS
<1>0. GrabberAssumption
  BY GrabberAssumption
<1>1. ASSUME PublisherChanges \/ FFmpeg \/ FrameAges PROVE GrabberTypeOK'
  BY <1>1 DEF GrabberTypeOK, threads, Running, PublisherChanges, FFmpeg, FFmpegOpens,
              FFmpegRefused, FFmpegDies, FFmpegStalls, FFmpegResumes, FrameAges
<1>2. ASSUME Drain PROVE GrabberTypeOK'
  <2>1. CASE DrainChecks
    BY <2>1, <1>0 DEF GrabberTypeOK, threads, Running, DrainChecks, Fails, GrabberAssumption
  <2>2. CASE DrainReads
    BY <2>2, <1>0 DEF GrabberTypeOK, threads, DrainReads, WarmingUp, GrabberAssumption
  <2>3. CASE DrainReadsEnd
    BY <2>3, <1>0 DEF GrabberTypeOK, threads, DrainReadsEnd, Fails, GrabberAssumption
  <2>4. CASE DrainRecovers
    <3>1. reports' \in Seq(BOOLEAN)
      BY <2>4, PostedType DEF GrabberTypeOK, DrainRecovers
    <3>2. 0 \in 0..MaxFailures
      BY <1>0 DEF GrabberAssumption
    <3> QED
      BY <2>4, <3>1, <3>2 DEF GrabberTypeOK, threads, DrainRecovers
  <2>5. CASE DrainPublishes \/ DrainWaits \/ DrainLocks \/ DrainKills \/ DrainStarts
    BY <2>5 DEF GrabberTypeOK, threads, Running, DrainPublishes, DrainWaits, DrainLocks,
                DrainKills, DrainStarts
  <2> QED
    BY <1>2, <2>1, <2>2, <2>3, <2>4, <2>5 DEF Drain
<1>3. ASSUME Stderr PROVE GrabberTypeOK'
  <2>1. reports' \in Seq(BOOLEAN)
    BY <1>3, PostedType DEF GrabberTypeOK, Stderr, StderrReads, StderrReports
  <2> QED
    BY <1>3, <2>1 DEF GrabberTypeOK, threads, Stderr, StderrReads, StderrReports
<1>4. ASSUME Grab PROVE GrabberTypeOK'
  BY <1>4 DEF GrabberTypeOK, threads, Running, Grab, GrabServes, GrabFindsStale, GrabKills,
              GrabStarts
<1>5. ASSUME Stop PROVE GrabberTypeOK'
  BY <1>5 DEF GrabberTypeOK, threads, Stop, StopBegins, StopJoins, StopKills
<1>6. CASE UNCHANGED grabberVars
  BY <1>6 DEF GrabberTypeOK, grabberVars, threads
<1> QED
  BY <1>1, <1>2, <1>3, <1>4, <1>5, <1>6 DEF GrabberNext

\* A fan-out taken out of the sequence, or one administrator further on.
LEMMA FanoutsLeft ==
    ASSUME NEW F, NEW fans \in Seq(F), NEW i \in DOMAIN fans
    PROVE  LET short == SubSeq(fans, 1, i - 1) \o SubSeq(fans, i + 1, Len(fans))
           IN  /\ short \in Seq(F)
               /\ \A j \in DOMAIN fans : j # i => \E k \in DOMAIN short : short[k] = fans[j]
<1> DEFINE lower(n) == SubSeq(fans, 1, n - 1)
           high(n) == SubSeq(fans, n + 1, Len(fans))
<1>1. i \in 1..Len(fans) /\ Len(fans) \in Nat
  OBVIOUS
<1>2. /\ lower(i) \in Seq(F) /\ Len(lower(i)) = i - 1
      /\ \A k \in 1..(i - 1) : lower(i)[k] = fans[k]
  BY <1>1
<1>3. /\ high(i) \in Seq(F) /\ Len(high(i)) = Len(fans) - i
      /\ \A k \in 1..(Len(fans) - i) : high(i)[k] = fans[k + i]
  BY <1>1
<1> DEFINE short == lower(i) \o high(i)
<1> HIDE DEF lower, high
<1>4. short \in Seq(F) /\ Len(short) = Len(fans) - 1 /\ DOMAIN short = 1..(Len(fans) - 1)
  BY <1>1, <1>2, <1>3
<1>5. \A k \in 1..(i - 1) : short[k] = fans[k]
  BY <1>1, <1>2, <1>3
<1>6. ASSUME NEW k \in i..(Len(fans) - 1)
      PROVE  short[k] = fans[k + 1]
  <2>1. k - (i - 1) \in 1..(Len(fans) - i) /\ (k - (i - 1)) + i = k + 1
    BY <1>1
  <2>2. short[k] = high(i)[k - (i - 1)]
    BY <1>1, <1>2, <1>3
  <2> QED
    BY <1>3, <2>1, <2>2
<1> HIDE DEF short
<1>7. ASSUME NEW j \in DOMAIN fans, j # i
      PROVE  \E k \in DOMAIN short : short[k] = fans[j]
  <2>1. CASE j < i
    BY <1>1, <1>4, <1>5, <1>7, <2>1
  <2>2. CASE j > i
    <3>1. j - 1 \in i..(Len(fans) - 1) /\ j - 1 \in DOMAIN short /\ (j - 1) + 1 = j
      BY <1>1, <1>4, <1>7, <2>2
    <3> QED
      BY <1>6, <3>1
  <2> QED
    BY <1>1, <1>7, <2>1, <2>2
<1> QED
  BY <1>4, <1>7 DEF short, lower, high

LEMMA CameraType == CameraTypeOK /\ [CameraNext]_cameraVars => CameraTypeOK'
<1> SUFFICES ASSUME CameraTypeOK, [CameraNext]_cameraVars PROVE CameraTypeOK'
  OBVIOUS
<1>1. CASE GrabberNext /\ UNCHANGED bellOnly
  <2>1. GrabberTypeOK'
    BY <1>1, GrabberType DEF CameraTypeOK
  <2> QED
    BY <1>1, <2>1 DEF CameraTypeOK, bellOnly, Bell!BellTypeOK
<1>2. CASE /\ Bell!BellNext
           /\ UNCHANGED <<published, ffmpeg, threads, frame, frames_read, failures, offline>>
  <2> DEFINE Fanout == [up : BOOLEAN, left : SUBSET Admins]
  <2>1. ASSUME reports' \in Seq(BOOLEAN), Bell!BellTypeOK'
        PROVE  CameraTypeOK'
    BY <1>2, <2>1 DEF CameraTypeOK, GrabberTypeOK, threads
  <2>2. CASE Bell!GraceEnds
    BY <2>1, <2>2 DEF CameraTypeOK, GrabberTypeOK, Bell!GraceEnds, Bell!BellTypeOK
  <2>3. CASE Bell!ReportHealth
    <3>1. reports \in Seq(BOOLEAN) /\ reports # <<>>
      BY <2>3 DEF CameraTypeOK, GrabberTypeOK, Bell!ReportHealth
    <3>2. Head(reports) \in BOOLEAN /\ Tail(reports) \in Seq(BOOLEAN)
      <4>1. \A S : \A seq \in Seq(S) : seq # <<>> => Head(seq) \in S /\ Tail(seq) \in Seq(S)
        OBVIOUS
      <4> QED
        BY <3>1, <4>1
    <3>3. reports' \in Seq(BOOLEAN)
      BY <2>3, <3>2 DEF Bell!ReportHealth
    <3>4. health' \in {<<>>, <<TRUE>>, <<FALSE>>}
      BY <2>3, <3>2 DEF CameraTypeOK, Bell!ReportHealth, Bell!NewHealth, Bell!BellTypeOK
    <3>5. fanouts' \in Seq(Fanout)
      <4>1. fanouts \in Seq(Fanout)
        BY DEF CameraTypeOK, Bell!BellTypeOK
      <4>2. [up |-> Head(reports), left |-> Admins] \in Fanout
        BY <3>2
      <4>3. \/ fanouts' = fanouts
            \/ fanouts' = Append(fanouts, [up |-> Head(reports), left |-> Admins])
        BY <2>3 DEF Bell!ReportHealth
      <4> HIDE DEF Fanout
      <4> QED
        BY <4>1, <4>2, <4>3
    <3> QED
      BY <2>1, <2>3, <3>3, <3>4, <3>5 DEF CameraTypeOK, Bell!ReportHealth, Bell!BellTypeOK
  <2>4. CASE Bell!Notify
    <3>0. PICK i \in DOMAIN fanouts : \E a \in fanouts[i].left :
            /\ told' = [told EXCEPT ![a] = @ \cup {fanouts[i].up}]
            /\ fanouts' = Bell!After(i, fanouts[i].left \ {a})
            /\ UNCHANGED <<reports, health, grace, failed>>
      BY <2>4 DEF Bell!Notify
    <3>1. PICK a \in fanouts[i].left :
            /\ told' = [told EXCEPT ![a] = @ \cup {fanouts[i].up}]
            /\ fanouts' = Bell!After(i, fanouts[i].left \ {a})
            /\ UNCHANGED <<reports, health, grace, failed>>
      BY <3>0
    <3>2. /\ fanouts \in Seq(Fanout) /\ fanouts[i] \in Fanout
          /\ told \in [Admins -> SUBSET BOOLEAN]
      <4>1. fanouts \in Seq(Fanout) /\ told \in [Admins -> SUBSET BOOLEAN]
        BY DEF CameraTypeOK, Bell!BellTypeOK
      <4>2. \A S : \A seq \in Seq(S) : \A k \in DOMAIN seq : seq[k] \in S
        OBVIOUS
      <4> HIDE DEF Fanout
      <4> QED
        BY <4>1, <4>2
    <3>3. told' \in [Admins -> SUBSET BOOLEAN]
      BY <3>1, <3>2
    <3>4. fanouts' \in Seq(Fanout)
      <4>1. SubSeq(fanouts, 1, i - 1) \o SubSeq(fanouts, i + 1, Len(fanouts)) \in Seq(Fanout)
        BY <3>2, FanoutsLeft
      <4>2. [fanouts[i] EXCEPT !.left = fanouts[i].left \ {a}] \in Fanout
        BY <3>2
      <4>3. [fanouts EXCEPT ![i].left = fanouts[i].left \ {a}] \in Seq(Fanout)
        <5>1. [fanouts EXCEPT ![i].left = fanouts[i].left \ {a}]
                = [fanouts EXCEPT ![i] = [fanouts[i] EXCEPT !.left = fanouts[i].left \ {a}]]
          OBVIOUS
        <5> HIDE DEF Fanout
        <5> QED
          BY <3>2, <4>2, <5>1
      <4> QED
        BY <3>1, <4>1, <4>3 DEF Bell!After, Bell!RemoveAt
    <3> QED
      BY <2>1, <3>1, <3>3, <3>4 DEF CameraTypeOK, GrabberTypeOK, Bell!BellTypeOK
  <2>5. CASE Bell!NotifyFails
    <3>1. fanouts \in Seq(Fanout)
      BY DEF CameraTypeOK, Bell!BellTypeOK
    <3>2. fanouts' \in Seq(Fanout)
      BY <2>5, <3>1, FanoutsLeft DEF Bell!NotifyFails, Bell!RemoveAt
    <3> QED
      BY <2>1, <2>5, <3>2 DEF CameraTypeOK, GrabberTypeOK, Bell!NotifyFails, Bell!BellTypeOK
  <2> QED
    BY <1>2, <2>2, <2>3, <2>4, <2>5 DEF Bell!BellNext
<1>3. CASE UNCHANGED cameraVars
  <2>1. UNCHANGED grabberVars /\ UNCHANGED bellOnly
    BY <1>3 DEF cameraVars
  <2>2. GrabberTypeOK'
    BY <2>1, GrabberType DEF CameraTypeOK
  <2>3. Bell!BellTypeOK'
    BY <2>1 DEF CameraTypeOK, Bell!BellTypeOK, bellOnly
  <2> QED
    BY <2>2, <2>3 DEF CameraTypeOK
<1> QED
  BY <1>1, <1>2, <1>3 DEF CameraNext

LEMMA CameraTypeAlways == CameraSpec => []CameraTypeOK
<1>1. CameraInit => CameraTypeOK
  <2> SUFFICES ASSUME CameraInit PROVE CameraTypeOK
    OBVIOUS
  <2>1. GrabberTypeOK
    <3>1. 0 \in 0..WarmupFrames /\ 0 \in 0..MaxFailures
      BY GrabberAssumption DEF GrabberAssumption
    <3>2. reports \in Seq(BOOLEAN)
      BY DEF CameraInit, GrabberInit
    <3> QED
      BY <3>1, <3>2 DEF CameraInit, GrabberInit, GrabberTypeOK, Running
  <2>2. Bell!BellTypeOK
    <3>1. fanouts = <<>> /\ health = <<>> /\ grace = TRUE /\ failed = FALSE
          /\ told = [a \in Admins |-> {}]
      BY DEF CameraInit, Bell!BellInit
    <3>2. \A S : <<>> \in Seq(S)
      OBVIOUS
    <3>3. fanouts \in Seq([up : BOOLEAN, left : SUBSET Admins])
      BY <3>1, <3>2, Zenon
    <3>4. told \in [Admins -> SUBSET BOOLEAN]
      BY <3>1
    <3> QED
      BY <3>1, <3>3, <3>4 DEF Bell!BellTypeOK
  <2> QED
    BY <2>1, <2>2 DEF CameraTypeOK
<1> QED
  BY <1>1, CameraType, PTL DEF CameraSpec

\* Unless a delivery raised, whoever has no row for the announced state is
\* still ahead of a fan-out that is telling it.
ToldOrUnderWay ==
    ~failed => \A b \in BOOLEAN : health = <<b>> =>
        \A a \in Admins :
            \/ b \in told[a]
            \/ \E i \in DOMAIN fanouts : fanouts[i].up = b /\ a \in fanouts[i].left

LEMMA ToldStep ==
    CameraTypeOK /\ ToldOrUnderWay /\ [CameraNext]_cameraVars => ToldOrUnderWay'
<1> SUFFICES ASSUME CameraTypeOK, ToldOrUnderWay, [CameraNext]_cameraVars,
                    ~failed', NEW b \in BOOLEAN, health' = <<b>>, NEW c \in Admins
             PROVE  \/ b \in told'[c]
                    \/ \E i \in DOMAIN fanouts' : fanouts'[i].up = b /\ c \in fanouts'[i].left
  BY DEF ToldOrUnderWay
<1> DEFINE Fanout == [up : BOOLEAN, left : SUBSET Admins]
           UnderWay == \E i \in DOMAIN fanouts : fanouts[i].up = b /\ c \in fanouts[i].left
<1>0. /\ fanouts \in Seq(Fanout) /\ told \in [Admins -> SUBSET BOOLEAN]
      /\ reports \in Seq(BOOLEAN)
  BY DEF CameraTypeOK, GrabberTypeOK, Bell!BellTypeOK
<1>1. ASSUME ~failed, health = <<b>> PROVE b \in told[c] \/ UnderWay
  BY <1>1 DEF ToldOrUnderWay
<1>2. CASE UNCHANGED bellOnly
  BY <1>1, <1>2 DEF bellOnly
<1>3. CASE Bell!GraceEnds
  BY <1>1, <1>3 DEF Bell!GraceEnds
<1>4. CASE Bell!ReportHealth
  <2>1. told' = told /\ failed' = failed
    BY <1>4 DEF Bell!ReportHealth
  <2>2. CASE fanouts' = fanouts
    <3>1. health' = health
      BY <1>4, <2>2, <1>0 DEF Bell!ReportHealth, Bell!NewHealth
    <3> QED
      BY <1>1, <2>1, <2>2, <3>1
  <2>3. CASE ~grace /\ fanouts' = Append(fanouts, [up |-> Head(reports), left |-> Admins])
    <3>1. Head(reports) = b
      <4>1. health' = <<Head(reports)>>
        BY <1>4, <2>3 DEF Bell!ReportHealth, Bell!NewHealth
      <4>2. \A x, y : <<x>> = <<y>> => x = y
        OBVIOUS
      <4> QED
        BY <4>1, <4>2
    <3>2. DOMAIN fanouts' = 1..(Len(fanouts) + 1)
          /\ fanouts'[Len(fanouts) + 1] = [up |-> b, left |-> Admins]
      BY <1>0, <2>3, <3>1
    <3>3. Len(fanouts) + 1 \in DOMAIN fanouts'
      BY <1>0, <3>2
    <3> QED
      BY <3>2, <3>3
  <2> QED
    BY <1>4, <2>2, <2>3 DEF Bell!ReportHealth
<1>5. CASE Bell!Notify
  <2>0. PICK i \in DOMAIN fanouts : \E a \in fanouts[i].left :
          /\ told' = [told EXCEPT ![a] = @ \cup {fanouts[i].up}]
          /\ fanouts' = Bell!After(i, fanouts[i].left \ {a})
          /\ UNCHANGED <<reports, health, grace, failed>>
    BY <1>5 DEF Bell!Notify
  <2>1. PICK a \in fanouts[i].left :
          /\ told' = [told EXCEPT ![a] = @ \cup {fanouts[i].up}]
          /\ fanouts' = Bell!After(i, fanouts[i].left \ {a})
          /\ UNCHANGED <<reports, health, grace, failed>>
    BY <2>0
  <2>2. CASE b \in told[c]
    BY <1>0, <2>1, <2>2
  <2>3. CASE UnderWay
    <3>1. PICK j \in DOMAIN fanouts : fanouts[j].up = b /\ c \in fanouts[j].left
      BY <2>3
    <3>2. CASE j = i /\ a = c
      BY <1>0, <2>1, <3>1, <3>2
    <3>3. CASE j # i \/ a # c
      <4> DEFINE short == SubSeq(fanouts, 1, i - 1) \o SubSeq(fanouts, i + 1, Len(fanouts))
                 left == fanouts[i].left \ {a}
      <4>1. CASE left = {}
        <5>1. fanouts' = short
          BY <2>1, <4>1 DEF Bell!After, Bell!RemoveAt
        <5>2. j # i
          BY <3>1, <3>3, <4>1
        <5>3. \E k \in DOMAIN short : short[k] = fanouts[j]
          BY <1>0, <5>2, FanoutsLeft
        <5> QED
          BY <3>1, <5>1, <5>3
      <4>2. CASE left # {}
        <5>1. fanouts' = [fanouts EXCEPT ![i].left = left]
          BY <2>1, <4>2 DEF Bell!After
        <5>2. DOMAIN fanouts' = DOMAIN fanouts
          BY <5>1
        <5>3. CASE j # i
          BY <3>1, <5>1, <5>2, <5>3
        <5>4. CASE j = i
          <6>1. fanouts'[i] = [fanouts[i] EXCEPT !.left = left]
            BY <5>1
          <6>2. fanouts[i] \in Fanout
            <7>1. \A S : \A seq \in Seq(S) : \A k \in DOMAIN seq : seq[k] \in S
              OBVIOUS
            <7> HIDE DEF Fanout
            <7> QED
              BY <1>0, <7>1
          <6>3. fanouts'[i].up = fanouts[i].up /\ fanouts'[i].left = left
            BY <6>1, <6>2
          <6> QED
            BY <3>1, <3>3, <5>2, <5>4, <6>3
        <5> QED
          BY <5>3, <5>4
      <4> QED
        BY <4>1, <4>2
    <3> QED
      BY <3>2, <3>3
  <2> QED
    BY <1>1, <2>1, <2>2, <2>3
<1>6. CASE Bell!NotifyFails
  BY <1>6 DEF Bell!NotifyFails
<1>7. CASE UNCHANGED cameraVars
  BY <1>2, <1>7 DEF cameraVars
<1> QED
  BY <1>2, <1>3, <1>4, <1>5, <1>6, <1>7 DEF CameraNext, Bell!BellNext

\* Once no fan-out is running, every administrator has a row for the state
\* that was announced, however fan-outs interleave and whatever the threads of
\* the grabber post meanwhile (AnnouncedIsTold), for any administrators and
\* any bounds.
THEOREM AnnouncedAlwaysTold == CameraSpec => []AnnouncedIsTold
<1>1. CameraInit => ToldOrUnderWay
  BY DEF CameraInit, Bell!BellInit, ToldOrUnderWay
<1>2. CameraTypeOK /\ ToldOrUnderWay => AnnouncedIsTold
  <2> SUFFICES ASSUME CameraTypeOK, ToldOrUnderWay, fanouts = <<>>, ~failed,
                      NEW a \in Admins, health # <<>>
               PROVE  health[1] \in told[a]
    BY DEF AnnouncedIsTold, Bell!AnnouncedIsTold
  <2>1. PICK b \in BOOLEAN : health = <<b>>
    BY DEF CameraTypeOK, Bell!BellTypeOK
  <2>2. ~\E i \in DOMAIN fanouts : TRUE
    OBVIOUS
  <2>3. b \in told[a]
    BY <2>1, <2>2 DEF ToldOrUnderWay
  <2> QED
    BY <2>1, <2>3
<1> QED
  BY <1>1, <1>2, CameraTypeAlways, ToldStep, PTL DEF CameraSpec

\* Who replaces an FFmpeg holds the lock, and there is none between its two
\* steps.
Replacing ==
    /\ drain \in {"kill", "start"} <=> lock = "drain"
    /\ grab \in {"close", "start"} <=> lock = "grab"
    /\ drain = "start" \/ grab = "start" => ffmpeg = "none"

LEMMA ReplacingStep ==
    CameraTypeOK /\ Replacing /\ [CameraNext]_cameraVars => Replacing'
<1> SUFFICES ASSUME CameraTypeOK, Replacing, [CameraNext]_cameraVars PROVE Replacing'
  OBVIOUS
<1>0. /\ ffmpeg \in Running \cup {"exited", "none"}
      /\ drain \in {"check", "read", "publish", "recovery", "backoff", "lock", "kill", "start",
                    "ended"}
      /\ grab \in {"idle", "close", "start"} /\ lock \in {"free", "drain", "grab"}
  BY DEF CameraTypeOK, GrabberTypeOK
<1>1. CASE PublisherChanges \/ FFmpeg \/ FrameAges
  BY <1>0, <1>1 DEF Replacing, threads, Running, PublisherChanges, FFmpeg, FFmpegOpens,
                    FFmpegRefused, FFmpegDies, FFmpegStalls, FFmpegResumes, FrameAges
<1>2. CASE Drain
  BY <1>0, <1>2 DEF Replacing, Drain, DrainChecks, Fails, DrainReads, DrainReadsEnd,
                    DrainRecovers, DrainPublishes, DrainWaits, DrainLocks, DrainKills,
                    DrainStarts
<1>3. CASE Stderr
  BY <1>0, <1>3 DEF Replacing, Stderr, StderrReads, StderrReports
<1>4. CASE Grab
  BY <1>0, <1>4 DEF Replacing, threads, Grab, GrabServes, GrabFindsStale, GrabKills, GrabStarts
<1>5. CASE Stop
  BY <1>0, <1>5 DEF Replacing, Stop, StopBegins, StopJoins, StopKills
<1>6. CASE UNCHANGED <<ffmpeg, threads>>
  BY <1>6 DEF Replacing, threads
<1>7. CASE UNCHANGED cameraVars
  BY <1>6, <1>7 DEF cameraVars, grabberVars
<1> QED
  BY <1>1, <1>2, <1>3, <1>4, <1>5, <1>6, <1>7 DEF CameraNext, GrabberNext

\* No FFmpeg is started while the last one runs, though the drain thread and
\* grab_with_pts() each decide on their own to replace it (NoneForgotten).
THEOREM NoFFmpegForgotten == CameraSpec => NoneForgotten
<1>1. CameraInit => Replacing
  BY DEF CameraInit, GrabberInit, Replacing
<1>2. CameraSpec => []Replacing
  BY <1>1, CameraTypeAlways, ReplacingStep, PTL DEF CameraSpec
<1>3. Replacing /\ [CameraNext]_cameraVars =>
        [stop = "no" /\ (DrainStarts \/ GrabStarts) => ffmpeg \notin Running]_grabberVars
  BY DEF Replacing, DrainStarts, GrabStarts, Running
<1> QED
  BY <1>2, <1>3, PTL DEF CameraSpec, NoneForgotten

=============================================================================
