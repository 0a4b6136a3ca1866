------------------------ MODULE EvidenceTrailProofs ------------------------
(***************************************************************************)
(* Whatever fails, stops or crashes, a young row of recognition_events     *)
(* refers to pictures on the disk; and the lists, pages, summaries and     *)
(* links administrators read tell the same as the rows: for any number of  *)
(* events and students, any sizes of queue, batch and page.                *)
(***************************************************************************)
EXTENDS EvidenceReads, FiniteSetTheorems, TLAPS

-----------------------------------------------------------------------------
(* Sequences of events                                                      *)

Increasing(s) == \A i, j \in 1..Len(s) : i < j => s[i] < s[j]
Before(s, t) == \A d \in ToSet(s), e \in ToSet(t) : d < e

LEMMA ElementsAreTyped ==
    ASSUME NEW n \in Nat, NEW s \in Seq(1..n)
    PROVE  ToSet(s) \subseteq 1..n /\ (s # <<>> <=> ToSet(s) # {}) /\ Len(s) \in Nat
BY DEF ToSet

LEMMA AppendFacts ==
    ASSUME NEW n \in Nat, NEW s \in Seq(1..n), NEW e \in 1..n
    PROVE  /\ Append(s, e) \in Seq(1..n) /\ Append(s, e) # <<>>
           /\ ToSet(Append(s, e)) = ToSet(s) \cup {e}
           /\ Len(Append(s, e)) = Len(s) + 1
           /\ Increasing(s) /\ (\A d \in ToSet(s) : d < e) => Increasing(Append(s, e))
<1> DEFINE t == Append(s, e)
<1>1. /\ t \in Seq(1..n) /\ Len(t) = Len(s) + 1 /\ t # <<>>
      /\ \A i \in 1..Len(s) : t[i] = s[i]
      /\ t[Len(s) + 1] = e
  OBVIOUS
<1>2. DOMAIN t = 1..(Len(s) + 1) /\ DOMAIN s = 1..Len(s) /\ Len(s) \in Nat
  BY <1>1
<1> HIDE DEF t
<1>3. ToSet(t) = ToSet(s) \cup {e}
  <2>1. ASSUME NEW x \in ToSet(t) PROVE x \in ToSet(s) \cup {e}
    BY <1>1, <1>2, <2>1 DEF ToSet
  <2>2. ASSUME NEW x \in ToSet(s) PROVE x \in ToSet(t)
    <3>1. PICK i \in 1..Len(s) : x = s[i]
      BY <1>2, <2>2 DEF ToSet
    <3> QED
      BY <1>1, <1>2, <3>1 DEF ToSet
  <2>3. e \in ToSet(t)
    BY <1>1, <1>2 DEF ToSet
  <2> QED
    BY <2>1, <2>2, <2>3
<1>4. ASSUME Increasing(s), \A d \in ToSet(s) : d < e PROVE Increasing(t)
  <2>1. SUFFICES ASSUME NEW i \in 1..Len(t), NEW j \in 1..Len(t), i < j PROVE t[i] < t[j]
    BY DEF Increasing
  <2>2. CASE j <= Len(s)
    <3>1. i \in 1..Len(s) /\ j \in 1..Len(s)
      BY <1>1, <1>2, <2>1, <2>2
    <3>2. t[i] = s[i] /\ t[j] = s[j] /\ s[i] < s[j]
      BY <1>1, <1>4, <2>1, <3>1 DEF Increasing
    <3> QED
      BY <3>2
  <2>3. CASE j = Len(s) + 1
    <3>1. i \in 1..Len(s) /\ t[i] = s[i] /\ t[j] = e
      BY <1>1, <1>2, <2>1, <2>3
    <3>2. s[i] \in ToSet(s)
      BY <1>2, <3>1 DEF ToSet
    <3> QED
      BY <1>4, <3>1, <3>2
  <2> QED
    BY <1>1, <1>2, <2>1, <2>2, <2>3
<1> QED
  BY <1>1, <1>3, <1>4 DEF t

LEMMA TailFacts ==
    ASSUME NEW n \in Nat, NEW s \in Seq(1..n), s # <<>>
    PROVE  /\ Tail(s) \in Seq(1..n) /\ Head(s) \in ToSet(s) /\ Head(s) \in 1..n
           /\ ToSet(s) = {Head(s)} \cup ToSet(Tail(s))
           /\ Len(Tail(s)) <= Len(s)
           /\ Increasing(s) => Increasing(Tail(s)) /\ (\A d \in ToSet(Tail(s)) : Head(s) < d)
<1> DEFINE t == Tail(s)
<1>1. /\ t \in Seq(1..n) /\ Len(t) = Len(s) - 1 /\ Len(s) \in Nat /\ Len(s) >= 1
      /\ \A i \in 1..Len(t) : t[i] = s[i + 1]
      /\ Head(s) = s[1] /\ Head(s) \in 1..n
  OBVIOUS
<1>2. DOMAIN t = 1..Len(t) /\ DOMAIN s = 1..Len(s)
  BY <1>1
<1> HIDE DEF t
<1>3. ToSet(s) = {s[1]} \cup ToSet(t)
  <2>1. ASSUME NEW x \in ToSet(s) PROVE x \in {s[1]} \cup ToSet(t)
    <3>1. PICK i \in 1..Len(s) : x = s[i]
      BY <1>2 DEF ToSet
    <3>2. CASE i # 1
      <4>1. i - 1 \in 1..Len(t) /\ t[i - 1] = s[i]
        BY <1>1, <3>2
      <4> QED
        BY <1>2, <3>1, <4>1 DEF ToSet
    <3> QED
      BY <3>1, <3>2
  <2>2. ASSUME NEW x \in ToSet(t) PROVE x \in ToSet(s)
    <3>1. PICK i \in 1..Len(t) : x = t[i]
      BY <1>2 DEF ToSet
    <3>2. i + 1 \in 1..Len(s) /\ x = s[i + 1]
      BY <1>1, <3>1
    <3> QED
      BY <1>2, <3>2 DEF ToSet
  <2>3. s[1] \in ToSet(s)
    <3>1. 1 \in 1..Len(s)
      BY <1>1
    <3> QED
      BY <1>2, <3>1 DEF ToSet
  <2> QED
    BY <2>1, <2>2, <2>3
<1>4. ASSUME Increasing(s) PROVE Increasing(t) /\ \A d \in ToSet(t) : s[1] < d
  <2>1. ASSUME NEW i \in 1..Len(t), NEW j \in 1..Len(t), i < j PROVE t[i] < t[j]
    <3>1. i + 1 \in 1..Len(s) /\ j + 1 \in 1..Len(s) /\ i + 1 < j + 1
      BY <1>1, <2>1
    <3> QED
      BY <1>1, <1>4, <3>1 DEF Increasing
  <2>2. ASSUME NEW d \in ToSet(t) PROVE s[1] < d
    <3>1. PICK i \in 1..Len(t) : d = t[i]
      BY <1>2 DEF ToSet
    <3>2. i + 1 \in 1..Len(s) /\ 1 \in 1..Len(s) /\ 1 < i + 1 /\ d = s[i + 1]
      BY <1>1, <3>1
    <3> QED
      BY <1>4, <3>2 DEF Increasing
  <2> QED
    BY <2>1, <2>2 DEF Increasing
<1> QED
  BY <1>1, <1>3, <1>4 DEF t

LEMMA MoreEvents ==
    ASSUME NEW n \in Nat, NEW s \in Seq(1..n)
    PROVE  s \in Seq(1..(n + 1))
<1>1. 1..n \subseteq 1..(n + 1)
  OBVIOUS
<1> QED
  BY <1>1

LEMMA Empty ==
    ToSet(<<>>) = {} /\ Increasing(<<>>) /\ \A n \in Nat : <<>> \in Seq(1..n)
BY DEF ToSet, Increasing


-----------------------------------------------------------------------------
(* Types                                                                    *)

LEMMA InitType == Init => TypeOK
BY Empty, EvidenceAssumption
   DEF Init, TypeOK, EvidenceAssumption, Events, Idle

LEMMA PictureType ==
    ASSUME NEW n \in Nat, NEW e \in 1..n
    PROVE  Crops(e) \subseteq (1..n) \X {"live", "reg"}
BY DEF Crops, Live

LEMMA SubmitType ==
    ASSUME TypeOK, Submit
    PROVE  TypeOK'
<1>1. submitted \in Nat /\ submitted' = submitted + 1 /\ submitted' \in 0..MaxEvents
  BY EvidenceAssumption DEF Submit, TypeOK, EvidenceAssumption
<1>2. 1..submitted \subseteq 1..submitted' /\ submitted' \in 1..submitted'
  BY <1>1
<1>3. posted' \in Seq(1..submitted')
  <2>1. posted \in Seq(1..submitted')
    BY <1>1, MoreEvents DEF TypeOK
  <2>2. posted' \in {posted, Append(posted, submitted')}
    BY DEF Submit
  <2>3. submitted' \in Nat
    BY <1>1
  <2>4. Append(posted, submitted') \in Seq(1..submitted')
    BY <1>2, <2>1, <2>3, AppendFacts
  <2> QED
    BY <2>1, <2>2, <2>4
<1>4. queue' \in Seq(1..submitted') /\ batch' \in Seq(1..submitted')
  BY <1>1, MoreEvents DEF Submit, TypeOK
<1>5. loaded' \subseteq Students
  <2>1. submitted' \in Events
    BY <1>1, EvidenceAssumption DEF Events, EvidenceAssumption
  <2>2. SubjectOf[submitted'] \in Students \cup {NoOne}
    BY <2>1, EvidenceAssumption DEF EvidenceAssumption
  <2> QED
    BY <2>2 DEF Submit, TypeOK
<1>6. photo' \subseteq 1..submitted'
  BY <1>2 DEF Submit, TypeOK
<1>7. /\ files' \subseteq (1..submitted') \X {"live", "reg"} /\ rows' \subseteq 1..submitted'
      /\ sweep' \in [pc : {"idle", "blobs"}, todo : SUBSET (1..submitted')]
  BY <1>2 DEF Submit, TypeOK, disk
<1> QED
  BY <1>1, <1>3, <1>4, <1>5, <1>6, <1>7 DEF Submit, TypeOK, disk, people

LEMMA WorkerType ==
    ASSUME TypeOK, Worker
    PROVE  TypeOK'
<1>0. /\ submitted \in Nat /\ QueueSize \in Nat /\ BatchRows \in Nat \ {0}
      /\ <<>> \in Seq(1..submitted)
  BY EvidenceAssumption, Empty DEF TypeOK, EvidenceAssumption
<1>1. CASE SubmitRuns
  <2>1. /\ posted \in Seq(1..submitted) /\ posted # <<>> /\ queue \in Seq(1..submitted)
        /\ Len(queue) \in Nat /\ Len(queue) <= QueueSize
    BY <1>1 DEF SubmitRuns, TypeOK
  <2>2. Tail(posted) \in Seq(1..submitted) /\ Head(posted) \in 1..submitted
    BY <1>0, <2>1, TailFacts
  <2>3. Enqueued(Head(posted)) \in Seq(1..submitted) /\ Len(Enqueued(Head(posted))) <= QueueSize
    <3>1. CASE writer = "on" /\ Len(queue) < QueueSize
      <4>1. /\ Append(queue, Head(posted)) \in Seq(1..submitted)
            /\ Len(Append(queue, Head(posted))) = Len(queue) + 1
        BY <1>0, <2>1, <2>2, AppendFacts
      <4> QED
        BY <1>0, <2>1, <3>1, <4>1 DEF Enqueued
    <3>2. CASE ~(writer = "on" /\ Len(queue) < QueueSize)
      BY <2>1, <3>2 DEF Enqueued
    <3> QED
      BY <3>1, <3>2
  <2> QED
    BY <1>1, <2>2, <2>3 DEF SubmitRuns, TypeOK, disk, people
<1>2. CASE WorkerTakes
  <2> DEFINE e == Head(queue)
  <2>1. /\ queue \in Seq(1..submitted) /\ queue # <<>> /\ batch \in Seq(1..submitted)
        /\ Len(queue) \in Nat /\ Len(queue) <= QueueSize
    BY <1>2 DEF WorkerTakes, TypeOK
  <2>2. Tail(queue) \in Seq(1..submitted) /\ e \in 1..submitted /\ Len(Tail(queue)) <= Len(queue)
    BY <1>0, <2>1, TailFacts
  <2>3. Crops(e) \subseteq (1..submitted) \X {"live", "reg"} /\ Live(e) \in Crops(e)
    BY <1>0, <2>2, PictureType DEF Crops
  <2>4. PICK stored \in {{}, {Live(e)}, Crops(e)} : Take(e, stored)
    BY <1>2 DEF WorkerTakes
  <2>5. files' \subseteq (1..submitted) \X {"live", "reg"}
    <3>1. files \subseteq (1..submitted) \X {"live", "reg"} /\ files' = files \cup stored
      BY <2>4 DEF Take, TypeOK
    <3> HIDE DEF e
    <3>2. stored \subseteq Crops(e)
      BY <2>3
    <3> QED
      BY <2>3, <3>1, <3>2
  <2>6. batch' \in Seq(1..submitted)
    BY <1>0, <2>1, <2>2, <2>4, AppendFacts DEF Take
  <2>7. /\ insertion' \in {"none", "running", "over"}
        /\ insertion' # "none" => batch' # <<>>
    BY <1>0, <1>2, <2>6 DEF WorkerTakes
  <2>8. Len(Tail(queue)) \in Nat
    BY <2>2
  <2>9. queue' \in Seq(1..submitted) /\ Len(queue') <= QueueSize
    BY <1>0, <1>2, <2>1, <2>2, <2>8 DEF WorkerTakes
  <2> QED
    BY <1>2, <2>5, <2>6, <2>7, <2>9 DEF WorkerTakes, TypeOK, people
<1>3. CASE TimerFlush
  BY <1>3 DEF TimerFlush, TimerDue, TypeOK, disk, people
<1>4. CASE FlushReturns
  BY <1>0, <1>4 DEF FlushReturns, TypeOK, disk, people
<1> QED
  BY <1>1, <1>2, <1>3, <1>4 DEF Worker

LEMMA InsertType ==
    ASSUME TypeOK, Insert
    PROVE  TypeOK'
<1>1. ToSet(batch) \subseteq 1..submitted
  BY ElementsAreTyped, EvidenceAssumption DEF TypeOK, EvidenceAssumption
<1>2. rows' \subseteq 1..submitted
  BY <1>1 DEF Insert, TypeOK
<1>3. insertion' = "over" /\ batch # <<>>
  BY DEF Insert, TypeOK
<1>4. UNCHANGED <<submitted, photo, loaded, posted, queue, batch, writer,
                  files, age, people, sweep>>
  BY DEF Insert
<1> QED
  BY <1>2, <1>3, <1>4 DEF TypeOK, people

LEMMA LifeType ==
    ASSUME TypeOK, Start \/ StopBegins \/ StopCancels \/ Crash
    PROVE  TypeOK'
<1>0. <<>> \in Seq(1..submitted) /\ Len(<<>>) = 0 /\ QueueSize \in Nat
  BY EvidenceAssumption, Empty DEF TypeOK, EvidenceAssumption
<1>1. CASE Start
  BY <1>1 DEF Start, TypeOK, disk, people
<1>2. CASE StopBegins
  BY <1>2 DEF StopBegins, TypeOK, disk, people
<1>3. CASE StopCancels
  <2>1. batch' \in Seq(1..submitted) /\ (insertion' # "none" => batch' # <<>>)
    BY <1>0, <1>3 DEF StopCancels, TypeOK
  <2>2. /\ posted' \in Seq(1..submitted) /\ queue' \in Seq(1..submitted)
        /\ Len(queue') <= QueueSize /\ writer' = "off"
    BY <1>0, <1>3 DEF StopCancels
  <2>3. UNCHANGED <<submitted, photo, loaded, insertion, disk, people, sweep>>
    BY <1>3 DEF StopCancels
  <2> QED
    BY <2>1, <2>2, <2>3 DEF TypeOK, disk, people
<1>4. CASE Crash
  BY <1>0, <1>4 DEF Crash, TypeOK, disk
<1> QED
  BY <1>1, <1>2, <1>3, <1>4

LEMMA PurgeAndSweepType ==
    ASSUME TypeOK,
           \/ \E s \in Students : PurgeFiles(s) \/ RemoveUser(s)
           \/ PurgeRows \/ DayPasses \/ Sweep
    PROVE  TypeOK'
<1>1. ASSUME NEW s \in Students, PurgeFiles(s) PROVE TypeOK'
  BY <1>1 DEF PurgeFiles, TypeOK, memory
<1>2. ASSUME NEW s \in Students, RemoveUser(s) PROVE TypeOK'
  BY <1>2 DEF RemoveUser, TypeOK, memory, disk
<1>3. CASE PurgeRows
  BY <1>3 DEF PurgeRows, TypeOK, memory
<1>4. CASE DayPasses
  <2>1. age' \in [Events -> 0..2]
    BY <1>4 DEF DayPasses, TypeOK
  <2> QED
    BY <1>4, <2>1 DEF DayPasses, TypeOK, memory, people
<1>5. CASE SweepReads
  BY <1>5 DEF SweepReads, Cold, TypeOK, memory, disk, people
<1>6. CASE SweepBlob
  <2>1. /\ sweep' \in [pc : {"idle", "blobs"}, todo : SUBSET (1..submitted)]
        /\ files' \subseteq files
    BY <1>6 DEF SweepBlob, Idle, TypeOK
  <2> QED
    BY <1>6, <2>1 DEF SweepBlob, TypeOK, memory, people
<1>7. CASE SweepRows
  <2>1. rows' \subseteq rows
    BY <1>7 DEF SweepRows
  <2>2. sweep' \in [pc : {"idle", "blobs"}, todo : SUBSET (1..submitted)]
    BY <1>7 DEF SweepRows, Idle
  <2>3. UNCHANGED <<submitted, photo, memory, files, age, people>>
    BY <1>7 DEF SweepRows
  <2> QED
    BY <2>1, <2>2, <2>3 DEF TypeOK, memory, people
<1> QED
  BY <1>1, <1>2, <1>3, <1>4, <1>5, <1>6, <1>7 DEF Sweep

LEMMA TypeStep == TypeOK /\ [Next]_vars => TypeOK'
<1> SUFFICES ASSUME TypeOK, [Next]_vars PROVE TypeOK'
  OBVIOUS
<1>1. CASE UNCHANGED vars
  BY <1>1 DEF vars, memory, disk, people, TypeOK
<1> QED
  BY <1>1, SubmitType, WorkerType, InsertType, LifeType, PurgeAndSweepType DEF Next

\* The queue never exceeds its size although its length is read from another
\* thread, and a thread that outlives the worker has what it inserts.
THEOREM TypeCorrect == Spec => []TypeOK
<1>1. Init => TypeOK
  BY InitType
<1> QED
  BY <1>1, TypeStep, PTL DEF Spec

-----------------------------------------------------------------------------
(* Rows and pictures                                                        *)

\* Events on their way to the table: those of the batch are until the thread
\* that inserts it is over.
Pending ==
    ToSet(posted) \cup ToSet(queue) \cup IF insertion = "over" THEN {} ELSE ToSet(batch)

\* Events keep their order, so that none is in two places.
InOrder ==
    /\ Increasing(posted) /\ Increasing(queue)
    /\ Before(batch, queue) /\ Before(batch, posted) /\ Before(queue, posted)

\* What has not arrived is not in the table, and has no age.
NotYetRows ==
    \A e \in Events : e > submitted \/ e \in Pending => e \notin rows /\ age[e] = 0

\* The batch has its pictures, unless its student asked for deletion.
BatchResolves ==
    insertion # "over" =>
        \A e \in ToSet(batch) : SubjectOf[e] \notin asked => Crops(e) \subseteq files

\* The sweep deletes pictures of old rows only.
SweepsOld == \A e \in sweep.todo : age[e] > 0

RowInv ==
    /\ TypeOK /\ InOrder /\ NotYetRows
    /\ BatchResolves /\ SweepsOld /\ YoungRowsResolve

LEMMA EventsAreTyped ==
    ASSUME TypeOK
    PROVE  /\ submitted \in Nat /\ 1..submitted \subseteq Events
           /\ ToSet(posted) \subseteq 1..submitted /\ ToSet(queue) \subseteq 1..submitted
           /\ ToSet(batch) \subseteq 1..submitted
BY ElementsAreTyped, EvidenceAssumption DEF TypeOK, EvidenceAssumption, Events

\* A step that takes nothing from the disk but pictures of old rows or of
\* students who asked, adds no row, and shortens or keeps the way of events.
LEMMA QuietStep ==
    ASSUME RowInv, TypeOK',
           submitted' = submitted, photo' = photo, rows' \subseteq rows, asked \subseteq asked',
           InOrder', ToSet(batch') \subseteq ToSet(batch),
           insertion = "over" /\ insertion' # "over" => ToSet(batch') = {},
           Pending' \subseteq Pending,
           \A e \in Events : age'[e] = age[e] \/ (e \in rows /\ age'[e] > 0),
           \A e \in 1..submitted :
               SubjectOf[e] \notin asked' /\ age'[e] = 0 /\ Crops(e) \subseteq files
                   => Crops(e) \subseteq files',
           \A e \in sweep'.todo : age'[e] > 0
    PROVE  RowInv'
<1>t. TypeOK /\ NotYetRows /\ BatchResolves /\ YoungRowsResolve
  BY DEF RowInv
<1>e. /\ submitted \in Nat /\ 1..submitted \subseteq Events
      /\ ToSet(batch) \subseteq 1..submitted
  BY <1>t, EventsAreTyped
<1>p. \A e \in Events : Crops(e)' = Crops(e)
  BY DEF Crops, Live
<1>1. NotYetRows'
  BY <1>t DEF NotYetRows
<1>2. BatchResolves'
  <2> SUFFICES ASSUME insertion' # "over", NEW e \in ToSet(batch'), SubjectOf[e] \notin asked'
               PROVE  Crops(e)' \subseteq files'
    BY DEF BatchResolves
  <2>1. insertion # "over" /\ e \in ToSet(batch) /\ e \in Events /\ e \in 1..submitted
    BY <1>e
  <2>2. Crops(e) \subseteq files
    BY <1>t, <2>1 DEF BatchResolves
  <2>3. e \in Pending /\ age[e] = 0 /\ e \notin rows
    BY <1>t, <2>1 DEF Pending, NotYetRows
  <2>4. age'[e] = 0
    BY <2>1, <2>3
  <2> QED
    BY <1>p, <2>1, <2>2, <2>4
<1>3. YoungRowsResolve'
  <2> SUFFICES ASSUME NEW e \in rows', age'[e] = 0, SubjectOf[e] \notin asked'
               PROVE  Crops(e)' \subseteq files'
    BY DEF YoungRowsResolve
  <2>1. e \in rows /\ e \in 1..submitted /\ e \in Events
    BY <1>t, <1>e DEF TypeOK
  <2>2. age[e] = 0
    BY <2>1
  <2>3. Crops(e) \subseteq files
    BY <1>t, <2>1, <2>2 DEF YoungRowsResolve
  <2> QED
    BY <1>p, <2>1, <2>3
<1>4. SweepsOld'
  BY DEF SweepsOld
<1> QED
  BY <1>1, <1>2, <1>3, <1>4 DEF RowInv

LEMMA PicturesAreOfOneEvent ==
    ASSUME NEW d, NEW e, d # e
    PROVE  Crops(d) \cap Crops(e) = {}
BY DEF Crops, Live

LEMMA SubmitRows ==
    ASSUME RowInv, TypeOK', Submit
    PROVE  RowInv'
<1> DEFINE n == submitted + 1
<1>t. TypeOK /\ InOrder /\ NotYetRows /\ BatchResolves /\ YoungRowsResolve /\ SweepsOld
  BY DEF RowInv
<1>e. /\ submitted \in Nat /\ 1..submitted \subseteq Events
      /\ ToSet(posted) \subseteq 1..submitted /\ ToSet(queue) \subseteq 1..submitted
      /\ ToSet(batch) \subseteq 1..submitted
  BY <1>t, EventsAreTyped
<1>s. /\ submitted' = n /\ photo' \in {photo, photo \cup {n}}
      /\ posted' \in {posted, Append(posted, n)}
      /\ UNCHANGED <<queue, batch, insertion, files, rows, age, asked, sweep>>
  BY DEF Submit, disk, people
<1>a. /\ ToSet(posted') \subseteq ToSet(posted) \cup {n} /\ Increasing(posted')
  <2>1. n \in Nat /\ n \in 1..n /\ posted \in Seq(1..n)
    BY <1>e, <1>t, MoreEvents DEF TypeOK
  <2>2. \A d \in ToSet(posted) : d < n
    BY <1>e
  <2>3. Increasing(posted)
    BY <1>t DEF InOrder
  <2>4. /\ ToSet(Append(posted, n)) = ToSet(posted) \cup {n}
        /\ Increasing(Append(posted, n))
    BY <2>1, <2>2, <2>3, AppendFacts
  <2> QED
    BY <1>s, <2>3, <2>4
<1>p. \A e \in 1..submitted : Crops(e)' = Crops(e)
  BY <1>e, <1>s DEF Crops, Live
<1> HIDE DEF n
<1>n. n \in Nat /\ n > submitted /\ \A e \in Events : e > n => e > submitted
  BY <1>e, EvidenceAssumption DEF n, EvidenceAssumption, Events
<1>1. InOrder'
  <2>1. Before(batch, posted)' /\ Before(queue, posted)'
    BY <1>a, <1>e, <1>s, <1>n, <1>t DEF Before, InOrder
  <2> QED
    BY <1>a, <1>s, <1>t, <2>1 DEF InOrder, Before
<1>2. NotYetRows'
  <2>1. \A e \in Pending' : e \in Pending \/ e = n
    BY <1>a, <1>s DEF Pending
  <2> QED
    BY <1>s, <1>n, <1>t, <2>1 DEF NotYetRows
<1>3. BatchResolves'
  BY <1>e, <1>p, <1>s, <1>t DEF BatchResolves
<1>4. YoungRowsResolve'
  <2>1. rows \subseteq 1..submitted
    BY <1>t DEF TypeOK
  <2> QED
    BY <1>p, <1>s, <1>t, <2>1 DEF YoungRowsResolve
<1>5. SweepsOld'
  BY <1>s, <1>t DEF SweepsOld
<1> QED
  BY <1>1, <1>2, <1>3, <1>4, <1>5 DEF RowInv

LEMMA SubmitRunsRows ==
    ASSUME RowInv, TypeOK', SubmitRuns
    PROVE  RowInv'
<1>t. TypeOK /\ InOrder /\ SweepsOld
  BY DEF RowInv
<1>e. /\ submitted \in Nat
      /\ ToSet(posted) \subseteq 1..submitted /\ ToSet(queue) \subseteq 1..submitted
  BY <1>t, EventsAreTyped
<1> DEFINE e == Head(posted)
<1>1. /\ e \in ToSet(posted) /\ e \in 1..submitted
      /\ ToSet(posted) = {e} \cup ToSet(Tail(posted))
      /\ Increasing(Tail(posted)) /\ \A d \in ToSet(Tail(posted)) : e < d
  BY <1>e, <1>t, TailFacts DEF SubmitRuns, TypeOK, InOrder
<1>2. /\ ToSet(Append(queue, e)) = ToSet(queue) \cup {e}
      /\ Increasing(Append(queue, e))
  <2>1. queue \in Seq(1..submitted) /\ Increasing(queue) /\ \A d \in ToSet(queue) : d < e
    BY <1>1, <1>t DEF TypeOK, InOrder, Before
  <2> HIDE DEF e
  <2> QED
    BY <1>1, <1>e, <2>1, AppendFacts
<1> HIDE DEF e
<1>3. /\ posted' = Tail(posted) /\ queue' \in {queue, Append(queue, e)}
      /\ UNCHANGED <<submitted, photo, batch, insertion, files, rows, age, asked, sweep>>
  BY DEF SubmitRuns, Enqueued, disk, people, e
<1>4. InOrder'
  <2>1. ToSet(posted') \subseteq ToSet(posted) /\ ToSet(queue') \subseteq ToSet(queue) \cup {e}
    BY <1>1, <1>2, <1>3
  <2>2. Before(queue, posted)'
    BY <1>1, <1>3, <1>t, <2>1 DEF Before, InOrder
  <2>3. Before(batch, queue)' /\ Before(batch, posted)'
    BY <1>1, <1>3, <1>t, <2>1 DEF Before, InOrder
  <2> QED
    BY <1>1, <1>2, <1>3, <1>t, <2>2, <2>3 DEF InOrder
<1>5. Pending' \subseteq Pending
  BY <1>1, <1>2, <1>3 DEF Pending
<1> QED
  BY <1>3, <1>4, <1>5, <1>t, QuietStep DEF SweepsOld

LEMMA WorkerTakesRows ==
    ASSUME RowInv, TypeOK', WorkerTakes
    PROVE  RowInv'
<1>t. TypeOK /\ InOrder /\ NotYetRows /\ BatchResolves /\ YoungRowsResolve /\ SweepsOld
  BY DEF RowInv
<1>e. /\ submitted \in Nat /\ 1..submitted \subseteq Events
      /\ ToSet(queue) \subseteq 1..submitted /\ ToSet(batch) \subseteq 1..submitted
  BY <1>t, EventsAreTyped
<1> DEFINE e == Head(queue)
<1>1. /\ e \in ToSet(queue) /\ e \in 1..submitted
      /\ ToSet(queue) = {e} \cup ToSet(Tail(queue))
      /\ Increasing(Tail(queue)) /\ \A d \in ToSet(Tail(queue)) : e < d
  BY <1>e, <1>t, TailFacts DEF WorkerTakes, TypeOK, InOrder
<1>2. ToSet(Append(batch, e)) = ToSet(batch) \cup {e}
  BY <1>1, <1>e, <1>t, AppendFacts DEF TypeOK
<1>3. PICK stored \in {{}, {Live(e)}, Crops(e)} : Take(e, stored)
  BY DEF WorkerTakes
<1> HIDE DEF e
<1>4. /\ files \subseteq files' /\ insertion = "none" /\ insertion' # "over"
      /\ queue' = Tail(queue)
      /\ batch' = batch \/ (batch' = Append(batch, e) /\ Crops(e) \subseteq files')
      /\ UNCHANGED <<submitted, photo, posted, rows, age, asked, sweep>>
  BY <1>3 DEF WorkerTakes, WorkerIsFree, Take, people
<1>p. \A d \in Events : Crops(d)' = Crops(d)
  BY <1>4 DEF Crops, Live
<1>5. InOrder'
  <2>1. ToSet(queue') \subseteq ToSet(queue) /\ ToSet(batch') \subseteq ToSet(batch) \cup {e}
    BY <1>1, <1>2, <1>4
  <2>2. Before(batch, queue)'
    BY <1>1, <1>4, <1>t, <2>1 DEF Before, InOrder
  <2>3. Before(batch, posted)' /\ Before(queue, posted)'
    BY <1>1, <1>4, <1>t, <2>1 DEF Before, InOrder
  <2> QED
    BY <1>1, <1>4, <1>t, <2>2, <2>3 DEF InOrder
<1>6. NotYetRows'
  <2>1. Pending' \subseteq Pending
    BY <1>1, <1>2, <1>4 DEF Pending
  <2> QED
    BY <1>4, <1>t, <2>1 DEF NotYetRows
<1>7. BatchResolves'
  <2> SUFFICES ASSUME NEW d \in ToSet(batch'), SubjectOf[d] \notin asked'
               PROVE  Crops(d)' \subseteq files'
    BY DEF BatchResolves
  <2>1. d \in ToSet(batch) \/ (d = e /\ Crops(e) \subseteq files')
    BY <1>2, <1>4
  <2>2. d \in Events
    BY <1>1, <1>e, <2>1
  <2>3. CASE d \in ToSet(batch)
    BY <1>4, <1>p, <1>t, <2>2, <2>3 DEF BatchResolves
  <2> QED
    BY <1>p, <2>1, <2>2, <2>3
<1>8. YoungRowsResolve'
  <2>1. rows \subseteq Events
    BY <1>e, <1>t DEF TypeOK
  <2> QED
    BY <1>4, <1>p, <1>t, <2>1 DEF YoungRowsResolve
<1>9. SweepsOld'
  BY <1>4, <1>t DEF SweepsOld
<1> QED
  BY <1>5, <1>6, <1>7, <1>8, <1>9 DEF RowInv

LEMMA InsertRows ==
    ASSUME RowInv, TypeOK', Insert
    PROVE  RowInv'
<1>t. TypeOK /\ InOrder /\ NotYetRows /\ BatchResolves /\ YoungRowsResolve /\ SweepsOld
  BY DEF RowInv
<1>e. /\ submitted \in Nat /\ 1..submitted \subseteq Events
      /\ ToSet(queue) \subseteq 1..submitted /\ ToSet(batch) \subseteq 1..submitted
      /\ ToSet(posted) \subseteq 1..submitted
  BY <1>t, EventsAreTyped
<1>1. /\ insertion = "running" /\ insertion' = "over"
      /\ rows' \in {rows, rows \cup ToSet(batch)}
  BY DEF Insert
<1>2. UNCHANGED <<submitted, photo, posted, queue, batch, files, age, asked, sweep>>
  BY DEF Insert, people
<1>p. \A d \in Events : Crops(d)' = Crops(d)
  BY <1>2 DEF Crops, Live
<1>3. NotYetRows'
  <2> SUFFICES ASSUME NEW e \in Events, e > submitted' \/ e \in Pending'
               PROVE  e \notin rows' /\ age'[e] = 0
    BY DEF NotYetRows
  <2>1. e > submitted \/ e \in ToSet(posted) \cup ToSet(queue)
    BY <1>1, <1>2 DEF Pending
  <2>2. e \notin rows /\ age[e] = 0
    BY <1>t, <2>1 DEF NotYetRows, Pending
  <2>3. e \notin ToSet(batch)
    <3>1. CASE e > submitted
      BY <1>e, <3>1
    <3>2. CASE e \in ToSet(posted) \cup ToSet(queue)
      <4>1. ASSUME e \in ToSet(batch) PROVE e < e
        BY <1>t, <3>2, <4>1 DEF InOrder, Before
      <4>2. e \in Nat
        BY <1>e, <3>2
      <4> QED
        BY <4>1, <4>2
    <3> QED
      BY <2>1, <3>1, <3>2
  <2> QED
    BY <1>1, <1>2, <2>2, <2>3
<1>4. YoungRowsResolve'
  <2>1. \A e \in rows' : e \in Events /\ (e \in rows \/ e \in ToSet(batch))
    BY <1>1, <1>e, <1>t DEF TypeOK
  <2> QED
    BY <1>1, <1>2, <1>p, <1>t, <2>1 DEF YoungRowsResolve, BatchResolves
<1>5. InOrder'
  BY <1>2, <1>t DEF InOrder, Before
<1>6. BatchResolves' /\ SweepsOld'
  BY <1>1, <1>2, <1>t DEF BatchResolves, SweepsOld
<1> QED
  BY <1>3, <1>4, <1>5, <1>6 DEF RowInv

LEMMA LoopAndLifeRows ==
    ASSUME RowInv, TypeOK',
           \/ TimerFlush \/ FlushReturns \/ Start \/ StopBegins \/ StopCancels \/ Crash
    PROVE  RowInv'
<1>t. InOrder /\ SweepsOld
  BY DEF RowInv
<1>1. ToSet(<<>>) = {} /\ Increasing(<<>>)
  BY Empty
<1>2. CASE TimerFlush
  <2>1. /\ InOrder' /\ Pending' \subseteq Pending
        /\ UNCHANGED <<submitted, photo, batch, files, rows, age, asked, sweep>>
        /\ insertion # "over"
    BY <1>2, <1>t DEF TimerFlush, WorkerIsFree, InOrder, Before, Pending, disk, people
  <2> QED
    BY <1>t, <2>1, QuietStep DEF SweepsOld
<1>3. CASE FlushReturns
  <2>1. /\ InOrder' /\ Pending' \subseteq Pending /\ ToSet(batch') = {}
        /\ UNCHANGED <<submitted, photo, files, rows, age, asked, sweep>>
    BY <1>1, <1>3, <1>t DEF FlushReturns, InOrder, Before, Pending, disk, people
  <2> QED
    BY <1>t, <2>1, QuietStep DEF SweepsOld
<1>4. CASE Start \/ StopBegins
  <2>1. /\ InOrder' /\ Pending' \subseteq Pending
        /\ UNCHANGED <<submitted, photo, batch, insertion, files, rows, age, asked, sweep>>
    BY <1>4, <1>t DEF Start, StopBegins, InOrder, Before, Pending, disk, people
  <2> QED
    BY <1>t, <2>1, QuietStep DEF SweepsOld
<1>5. CASE StopCancels
  <2>1. /\ InOrder' /\ Pending' \subseteq Pending /\ ToSet(batch') \subseteq ToSet(batch)
        /\ UNCHANGED <<submitted, photo, insertion, files, rows, age, asked, sweep>>
    BY <1>1, <1>5, <1>t DEF StopCancels, InOrder, Before, Pending, disk, people
  <2> QED
    BY <1>t, <2>1, QuietStep DEF SweepsOld
<1>6. CASE Crash
  <2>1. /\ InOrder' /\ Pending' \subseteq Pending /\ ToSet(batch') = {}
        /\ UNCHANGED <<submitted, photo, files, rows, age, asked>>
        /\ sweep' = [pc |-> "idle", todo |-> {}]
    BY <1>1, <1>6 DEF Crash, InOrder, Before, Pending, disk
  <2> QED
    BY <2>1, QuietStep
<1> QED
  BY <1>2, <1>3, <1>4, <1>5, <1>6

LEMMA PurgeAndSweepRows ==
    ASSUME RowInv, TypeOK',
           \/ \E s \in Students : PurgeFiles(s) \/ RemoveUser(s)
           \/ PurgeRows \/ DayPasses \/ Sweep
    PROVE  RowInv'
<1>t. InOrder /\ SweepsOld /\ TypeOK
  BY DEF RowInv
<1>m. ASSUME UNCHANGED memory PROVE InOrder' /\ Pending' = Pending
  BY <1>m, <1>t DEF memory, InOrder, Before, Pending
<1>1. ASSUME NEW s \in Students, PurgeFiles(s) PROVE RowInv'
  <2>1. /\ UNCHANGED <<submitted, photo, memory, rows, age, sweep>>
        /\ asked' = asked \cup {s}
        /\ \A x \in files : x \notin CropsOf(RowsOf(s)) => x \in files'
    BY <1>1 DEF PurgeFiles
  <2>2. ASSUME NEW e \in 1..submitted, SubjectOf[e] \notin asked', Crops(e) \subseteq files
        PROVE  Crops(e) \subseteq files'
    <3>1. \A d \in RowsOf(s) : d # e
      BY <2>1, <2>2 DEF RowsOf
    <3>2. \A d \in RowsOf(s) : Crops(d) \cap Crops(e) = {}
      BY <3>1, PicturesAreOfOneEvent
    <3> QED
      BY <2>1, <2>2, <3>2 DEF CropsOf
  <2> QED
    BY <1>m, <1>t, <2>1, <2>2, QuietStep DEF SweepsOld, memory
<1>2. CASE PurgeRows \/ \E s \in Students : RemoveUser(s)
  <2>1. /\ UNCHANGED <<submitted, photo, memory, files, age, asked, sweep>>
        /\ rows' \subseteq rows
    BY <1>2 DEF PurgeRows, RemoveUser, disk
  <2> QED
    BY <1>m, <1>t, <2>1, QuietStep DEF SweepsOld, memory
<1>3. CASE DayPasses
  <2>1. UNCHANGED <<submitted, photo, memory, files, rows, asked, sweep>>
    BY <1>3 DEF DayPasses, people
  <2>2. \A e \in Events : age[e] \in 0..2
    BY <1>t DEF TypeOK
  <2>3. \A e \in Events :
           /\ age'[e] = age[e] \/ (e \in rows /\ age'[e] > 0)
           /\ age[e] > 0 => age'[e] > 0
    BY <1>3, <2>2 DEF DayPasses
  <2>4. sweep.todo \subseteq Events
    BY <1>t, EventsAreTyped DEF TypeOK
  <2> QED
    BY <1>m, <1>t, <2>1, <2>3, <2>4, QuietStep DEF SweepsOld, memory
<1>4. CASE SweepReads
  <2>1. /\ UNCHANGED <<submitted, photo, memory, files, rows, age, asked>>
        /\ sweep'.todo = Cold
    BY <1>4 DEF SweepReads, disk, people
  <2>2. \A e \in Cold : age[e] > 0
    BY DEF Cold
  <2> QED
    BY <1>m, <2>1, <2>2, QuietStep DEF memory
<1>5. CASE SweepBlob
  <2>1. PICK e \in sweep.todo :
          /\ files' \in {files, files \ Crops(e)}
          /\ sweep' = IF e \in rows THEN Idle ELSE [sweep EXCEPT !.todo = @ \ {e}]
    BY <1>5 DEF SweepBlob
  <2>2. UNCHANGED <<submitted, photo, memory, rows, age, asked>>
    BY <1>5 DEF SweepBlob, people
  <2>3. sweep'.todo \subseteq sweep.todo /\ age[e] > 0
    BY <1>t, <2>1 DEF TypeOK, Idle, SweepsOld
  <2>4. ASSUME NEW d \in 1..submitted, age'[d] = 0, Crops(d) \subseteq files
        PROVE  Crops(d) \subseteq files'
    <3>1. d # e
      BY <2>2, <2>3, <2>4
    <3> QED
      BY <2>1, <2>4, <3>1, PicturesAreOfOneEvent
  <2> QED
    BY <1>m, <1>t, <2>2, <2>3, <2>4, QuietStep DEF SweepsOld, memory
<1>6. CASE SweepRows
  <2>1. /\ UNCHANGED <<submitted, photo, memory, files, age, asked>>
        /\ rows' \subseteq rows /\ sweep'.todo = {}
    BY <1>6 DEF SweepRows, Idle, people
  <2> QED
    BY <1>m, <2>1, QuietStep DEF memory
<1> QED
  BY <1>1, <1>2, <1>3, <1>4, <1>5, <1>6 DEF Sweep

LEMMA InitRows == Init => RowInv
<1> SUFFICES ASSUME Init PROVE RowInv
  OBVIOUS
<1>1. InOrder
  BY Empty DEF Init, InOrder, Before
<1>2. NotYetRows /\ BatchResolves /\ SweepsOld /\ YoungRowsResolve
  BY Empty DEF Init, NotYetRows, BatchResolves, SweepsOld, YoungRowsResolve, Idle
<1> QED
  BY <1>1, <1>2, InitType DEF RowInv

LEMMA RowStep == RowInv /\ [Next]_vars => RowInv'
<1> SUFFICES ASSUME RowInv, [Next]_vars PROVE RowInv'
  OBVIOUS
<1>1. TypeOK'
  BY TypeStep DEF RowInv
<1>2. CASE UNCHANGED vars
  BY <1>1, <1>2
     DEF vars, memory, disk, people, RowInv, InOrder, Before, NotYetRows, Pending,
         BatchResolves, SweepsOld, YoungRowsResolve, Crops, Live
<1> QED
  BY <1>1, <1>2, SubmitRows, SubmitRunsRows, WorkerTakesRows, InsertRows, LoopAndLifeRows,
     PurgeAndSweepRows DEF Next, Worker

\* A row younger than crop retention refers to pictures that are on the disk,
\* for every number of events, size of queue and batch and choice of failures.
THEOREM YoungRowsAlwaysResolve == Spec => []YoungRowsResolve
<1>1. RowInv => YoungRowsResolve
  BY DEF RowInv
<1> QED
  BY <1>1, InitRows, RowStep, PTL DEF Spec

-----------------------------------------------------------------------------
(* Pages (EvidenceReads)                                                    *)

\* A set of numbers has a least one: induction, for a set.
LEMMA LeastNumber ==
    ASSUME NEW T, T \subseteq Nat, T # {}
    PROVE  \E x \in T : \A y \in T : x <= y
<1> DEFINE R == {p \in Nat \X Nat : p[1] < p[2]}
<1>1. IsWellFoundedOn(R, Nat)
  BY NatLessThanWellFounded DEF OpToRel
<1>2. \E x \in T : \A y \in T : ~(<<y, x>> \in R)
  <2> HIDE DEF R
  <2> QED
    BY <1>1, WFMin
<1>3. PICK x \in T : \A y \in T : ~(<<y, x>> \in R)
  BY <1>2
<1>4. ASSUME NEW y \in T, y < x PROVE FALSE
  <2>1. <<y, x>> \in Nat \X Nat /\ <<y, x>>[1] < <<y, x>>[2]
    BY <1>4
  <2> QED
    BY <1>3, <2>1
<1>5. \A y \in T : x <= y
  BY <1>4
<1> QED
  BY <1>5

\* By time and then by id, rows are in a total order.
LEMMA OlderOrders ==
    ASSUME NEW stamp \in Stampings
    PROVE  /\ \A d, e \in Events : Older(stamp, d, e) => d # e /\ ~Older(stamp, e, d)
           /\ \A d, e \in Events : d = e \/ Older(stamp, d, e) \/ Older(stamp, e, d)
           /\ \A c, d, e \in Events :
                 Older(stamp, c, d) /\ Older(stamp, d, e) => Older(stamp, c, e)
<1>1. \A e \in Events : e \in Int /\ stamp[e] \in Int
  BY EvidenceAssumption DEF Events, EvidenceAssumption, Stampings
<1> QED
  BY <1>1 DEF Older

\* How many rows of a list are newer than one of it: no two have as many, so
\* that every number below the length of the list occurs.
LEMMA RanksOccur ==
    ASSUME NEW stamp \in Stampings, NEW L, L \subseteq Events, IsFiniteSet(L)
    PROVE  LET newer(e) == {d \in L : Older(stamp, e, d)}
               rank == [e \in L |-> Cardinality(newer(e))]
           IN  /\ Cardinality(L) \in Nat
               /\ rank \in [L -> 0..(Cardinality(L) - 1)]
               /\ \A d, e \in L : Older(stamp, d, e) => rank[e] < rank[d]
               /\ \A k \in 0..(Cardinality(L) - 1) : \E e \in L : rank[e] = k
<1> DEFINE newer(e) == {d \in L : Older(stamp, e, d)}
           rank == [e \in L |-> Cardinality(newer(e))]
           n == Cardinality(L)
<1>1. n \in Nat
  BY FS_CardinalityType
<1>2. ASSUME NEW e \in L
      PROVE  IsFiniteSet(newer(e)) /\ rank[e] \in 0..(n - 1)
  <2>1. newer(e) \subseteq L \ {e}
    BY OlderOrders
  <2>2. IsFiniteSet(L \ {e}) /\ Cardinality(L \ {e}) = n - 1
    BY FS_RemoveElement
  <2>3. IsFiniteSet(newer(e)) /\ Cardinality(newer(e)) <= n - 1
    BY <2>1, <2>2, FS_Subset
  <2>4. Cardinality(newer(e)) \in Nat
    BY <2>3, FS_CardinalityType
  <2> QED
    BY <1>1, <2>3, <2>4
<1>0. \A e \in L : rank[e] \in Int
  <2>1. \A e \in L : rank[e] \in 0..(n - 1)
    BY <1>2
  <2> HIDE DEF rank, n
  <2> QED
    BY <1>1, <2>1
<1>3. ASSUME NEW d \in L, NEW e \in L, Older(stamp, d, e)
      PROVE  rank[e] < rank[d]
  <2>1. newer(e) \cup {e} \subseteq newer(d) /\ e \notin newer(e)
    BY <1>3, OlderOrders
  <2>2. IsFiniteSet(newer(e) \cup {e}) /\ Cardinality(newer(e) \cup {e}) = Cardinality(newer(e)) + 1
    BY <1>2, <2>1, FS_AddElement
  <2>3. Cardinality(newer(e)) + 1 <= Cardinality(newer(d))
    BY <1>2, <2>1, <2>2, FS_Subset
  <2>4. rank[e] \in Int /\ rank[d] \in Int
    BY <1>0
  <2> QED
    BY <2>3, <2>4
<1>4. rank \in Injection(L, 0..(n - 1))
  <2>1. rank \in [L -> 0..(n - 1)]
    BY <1>2
  <2>2. ASSUME NEW d \in L, NEW e \in L, rank[d] = rank[e] PROVE d = e
    <3>1. rank[d] \in Int
      BY <1>0
    <3> QED
      BY <1>3, <2>2, <3>1, OlderOrders
  <2> HIDE DEF rank
  <2> QED
    BY <2>1, <2>2 DEF Injection, IsInjective
<1>5. IsFiniteSet(0..(n - 1)) /\ Cardinality(0..(n - 1)) = n
  BY <1>1, FS_Interval
<1>6. rank \in Surjection(L, 0..(n - 1))
  <2> HIDE DEF rank, n
  <2> QED
    BY <1>4, <1>5, FS_Injection DEF n
<1>7. \A k \in 0..(n - 1) : \E e \in L : rank[e] = k
  BY <1>6 DEF Surjection
<1> QED
  BY <1>1, <1>2, <1>3, <1>7

\* A page of a list: its newest rows.  It is full and ends with its oldest row,
\* or is all there is.
LEMMA PageEnds ==
    ASSUME NEW stamp \in Stampings, NEW E, E \subseteq Events, IsFiniteSet(E),
           NEW cursor, NEW limit \in Nat \ {0}
    PROVE  LET left == Beyond(stamp, E, cursor)
               page == Page(stamp, E, cursor, limit)
           IN  /\ page \subseteq left /\ IsFiniteSet(page)
               /\ \A d \in page, e \in left \ page : Older(stamp, e, d)
               /\ \/ page = left /\ NextCursor(stamp, page, limit) = {}
                  \/ \E c \in page : /\ NextCursor(stamp, page, limit) = {c}
                                     /\ \A d \in page : d = c \/ Older(stamp, c, d)
<1> DEFINE L == Beyond(stamp, E, cursor)
           page == Page(stamp, E, cursor, limit)
<1>a. L \subseteq Events /\ IsFiniteSet(L)
  <2>1. L \subseteq E
    BY DEF Beyond
  <2> QED
    BY <2>1, FS_Subset
<1>b. page = {e \in L : Cardinality({d \in L : Older(stamp, e, d)}) < limit}
  BY DEF Page
<1> HIDE DEF L, page
<1> DEFINE newer(e) == {d \in L : Older(stamp, e, d)}
           rank == [e \in L |-> Cardinality(newer(e))]
           n == Cardinality(L)
<1>1. /\ n \in Nat
      /\ rank \in [L -> 0..(n - 1)]
      /\ \A d, e \in L : Older(stamp, d, e) => rank[e] < rank[d]
      /\ \A k \in 0..(n - 1) : \E e \in L : rank[e] = k
  BY <1>a, RanksOccur
<1>2. page = {e \in L : rank[e] < limit}
  BY <1>b
<1> HIDE DEF rank, n
<1>3. page \subseteq L /\ IsFiniteSet(page)
  BY <1>a, <1>2, FS_Subset
<1>0. \A e \in L : rank[e] \in Int
  BY <1>1
<1>4. ASSUME NEW d \in page, NEW e \in L \ page
      PROVE  Older(stamp, e, d)
  <2>1. rank[d] < rank[e] /\ d # e
    BY <1>0, <1>2, <1>3
  <2>2. ~Older(stamp, d, e)
    BY <1>0, <1>1, <1>3, <2>1
  <2> QED
    BY <1>a, <1>3, <2>1, <2>2, OlderOrders
<1>5. CASE Cardinality(page) # limit
  <2>1. NextCursor(stamp, page, limit) = {}
    BY <1>5 DEF NextCursor
  <2>2. ASSUME page # L
        PROVE  FALSE
    <3>1. PICK e \in L : rank[e] >= limit
      BY <1>0, <1>2, <2>2
    <3>2. limit <= n - 1
      BY <1>1, <3>1
    <3> DEFINE r == [d \in page |-> rank[d]]
    <3>3. r \in [page -> 0..(limit - 1)]
      BY <1>1, <1>2
    <3>4. \A k \in 0..(limit - 1) : \E d \in page : r[d] = k
      BY <1>1, <1>2, <3>2
    <3>5. \A c, d \in page : r[c] = r[d] => c = d
      <4>1. ASSUME NEW c \in page, NEW d \in page, c # d
            PROVE  rank[c] # rank[d]
        BY <1>a, <1>0, <1>1, <1>3, <4>1, OlderOrders
      <4> QED
        BY <4>1
    <3>6. IsFiniteSet(0..(limit - 1)) /\ Cardinality(0..(limit - 1)) = limit
      BY FS_Interval
    <3> HIDE DEF r
    <3>7. r \in Surjection(page, 0..(limit - 1)) /\ r \in Injection(page, 0..(limit - 1))
      BY <3>3, <3>4, <3>5 DEF Surjection, Injection, IsInjective
    <3>8. Cardinality(0..(limit - 1)) = Cardinality(page)
      BY <1>3, <3>7, FS_Surjection
    <3> QED
      BY <1>5, <3>6, <3>8
  <2> QED
    BY <1>3, <1>4, <2>1, <2>2 DEF L, page
<1>6. CASE Cardinality(page) = limit
  <2>1. limit <= n
    BY <1>a, <1>3, <1>6, FS_Subset DEF n
  <2>2. PICK c \in L : rank[c] = limit - 1
    BY <1>1, <2>1
  <2>3. c \in page
    BY <1>2, <2>2
  <2>4. ASSUME NEW d \in page, d # c
        PROVE  Older(stamp, c, d)
    <3>1. rank[d] <= rank[c]
      BY <1>0, <1>2, <1>3, <2>2
    <3>2. ~Older(stamp, d, c)
      BY <1>0, <1>1, <1>3, <2>3, <3>1
    <3> QED
      BY <1>a, <1>3, <2>3, <2>4, <3>2, OlderOrders
  <2>5. NextCursor(stamp, page, limit) = {c}
    <3>1. NextCursor(stamp, page, limit)
            = {e \in page : \A d \in page : d = e \/ Older(stamp, e, d)}
      BY <1>6 DEF NextCursor
    <3>2. \A e \in page : (\A d \in page : d = e \/ Older(stamp, e, d)) => e = c
      BY <1>a, <1>3, <2>3, <2>4, OlderOrders
    <3> QED
      BY <2>3, <2>4, <3>1, <3>2
  <2> QED
    BY <1>3, <1>4, <2>3, <2>4, <2>5 DEF L, page
<1> QED
  BY <1>5, <1>6 DEF L, page

\* The page after a page.
Turn(stamp, E, page, limit) ==
    LET cursor == NextCursor(stamp, page, limit)
    IN  IF cursor = {} THEN {} ELSE Page(stamp, E, cursor, limit)

\* The recursion of Pages is well-founded: there are pages as it says.
LEMMA PagesExist ==
    ASSUME IsFiniteSet(rows), NEW stamp, NEW filter, NEW limit
    PROVE  LET page == Pages(stamp, filter, limit)
               E == Selected(stamp, filter)
           IN  /\ DOMAIN page = 1..(Cardinality(rows) + 1)
               /\ page[1] = Page(stamp, E, {}, limit)
               /\ \A n \in 1..Cardinality(rows) : page[n + 1] = Turn(stamp, E, page[n], limit)
<1> DEFINE E == Selected(stamp, filter)
           first == Page(stamp, E, {}, limit)
           Next1(p) == Turn(stamp, E, p, limit)
           Good(k, q) == q = [n \in 1..k |-> IF n = 1 THEN first ELSE Next1(q[n - 1])]
           Has(k) == \E q : Good(k, q)
           K == Cardinality(rows) + 1
<1>1. Pages(stamp, filter, limit) = CHOOSE q : Good(K, q)
  BY Zenon DEF Pages, Turn
<1> HIDE DEF first, Next1
<1>2. Has(0)
  <2>1. Good(0, [n \in 1..0 |-> {}])
    OBVIOUS
  <2> QED
    BY <2>1
<1>3. ASSUME NEW k \in Nat, Has(k)
      PROVE  Has(k + 1)
  <2>1. PICK q : Good(k, q)
    BY <1>3
  <2> DEFINE r == [n \in 1..(k + 1) |-> IF n = 1 THEN first ELSE Next1(q[n - 1])]
  <2>2. ASSUME NEW n \in 1..(k + 1), n # 1
        PROVE  r[n - 1] = q[n - 1]
    <3>1. n - 1 \in 1..k /\ n - 1 \in 1..(k + 1)
      BY <2>2
    <3>2. q[n - 1] = IF n - 1 = 1 THEN first ELSE Next1(q[(n - 1) - 1])
      BY <2>1, <3>1
    <3>3. r[n - 1] = IF n - 1 = 1 THEN first ELSE Next1(q[(n - 1) - 1])
      BY <3>1
    <3> QED
      BY <3>2, <3>3
  <2>3. Good(k + 1, r)
    BY <2>2
  <2> QED
    BY <2>3
<1> HIDE DEF Has
<1>4. \A k \in Nat : Has(k)
  <2> DEFINE T == {k \in Nat : ~Has(k)}
  <2> SUFFICES ASSUME T # {} PROVE FALSE
    OBVIOUS
  <2>1. PICK k \in T : \A j \in T : k <= j
    BY LeastNumber
  <2>2. k - 1 \in Nat /\ k - 1 \notin T
    BY <1>2, <2>1
  <2>3. Has((k - 1) + 1)
    BY <1>3, <2>2
  <2> QED
    BY <2>1, <2>3
<1>5. K \in Nat /\ K >= 1
  BY FS_CardinalityType
<1> DEFINE page == Pages(stamp, filter, limit)
<1>6. Good(K, page)
  <2>1. \E q : Good(K, q)
    BY <1>4, <1>5 DEF Has
  <2> HIDE DEF Good, K
  <2>2. Good(K, CHOOSE q : Good(K, q))
    BY <2>1
  <2> QED
    BY <1>1, <2>2
<1> HIDE DEF page
<1>7. /\ DOMAIN page = 1..K /\ page[1] = first
      /\ \A n \in 1..(K - 1) : page[n + 1] = Next1(page[n])
  <2>1. DOMAIN page = 1..K
    BY <1>6
  <2>2. page[1] = first
    BY <1>5, <1>6
  <2>3. ASSUME NEW n \in 1..(K - 1)
        PROVE  page[n + 1] = Next1(page[n])
    <3>1. n + 1 \in 1..K /\ n + 1 # 1 /\ (n + 1) - 1 = n
      BY <1>5
    <3> QED
      BY <1>6, <3>1
  <2> QED
    BY <2>1, <2>2, <2>3
<1>8. Cardinality(rows) \in Nat /\ K - 1 = Cardinality(rows)
  BY FS_CardinalityType
<1> HIDE DEF K
<1>9. \A n \in 1..Cardinality(rows) : page[n + 1] = Next1(page[n])
  BY <1>7, <1>8
<1> QED
  BY <1>7, <1>9 DEF page, first, Next1, K

\* An export has every selected row, newer pages before older ones.
LEMMA PagesCover ==
    ASSUME rows \subseteq Events, NEW stamp \in Stampings, NEW filter, NEW limit \in Nat \ {0}
    PROVE  LET page == Pages(stamp, filter, limit)
           IN  /\ UNION {page[n] : n \in DOMAIN page} = Selected(stamp, filter)
               /\ \A m, n \in DOMAIN page : m < n =>
                     \A d \in page[m], e \in page[n] : Older(stamp, e, d)
<1> DEFINE E == Selected(stamp, filter)
           page == Pages(stamp, filter, limit)
           K == Cardinality(rows) + 1
           Read(n) == UNION {page[m] : m \in 1..n}
           Cursor(n) == NextCursor(stamp, page[n], limit)
           AllRead(n) == Cursor(n) = {} /\ Read(n) = E
           ReadTo(n, c) == /\ c \in E /\ Cursor(n) = {c}
                           /\ Read(n) = {e \in E : e = c \/ Older(stamp, c, e)}
                           /\ Cardinality(Read(n)) >= n
           Ordered(n) == /\ page[n] \subseteq E
                         /\ \A m \in 1..(n - 1) :
                               \A d \in page[m], e \in page[n] : Older(stamp, e, d)
           Inv(n) == Ordered(n) /\ (AllRead(n) \/ \E c : ReadTo(n, c))
<1>1. /\ IsFiniteSet(rows) /\ Cardinality(rows) \in Nat /\ K \in Nat
      /\ E \subseteq rows /\ IsFiniteSet(E) /\ E \subseteq Events
  <2>1. IsFiniteSet(Events)
    BY FS_Interval, EvidenceAssumption DEF Events, EvidenceAssumption
  <2>2. IsFiniteSet(rows)
    BY <2>1, FS_Subset
  <2>3. E \subseteq rows
    BY DEF Selected
  <2> QED
    BY <2>2, <2>3, FS_Subset, FS_CardinalityType
<1>2. /\ DOMAIN page = 1..K /\ page[1] = Page(stamp, E, {}, limit)
      /\ \A n \in 1..Cardinality(rows) : page[n + 1] = Turn(stamp, E, page[n], limit)
  BY <1>1, PagesExist
<1> HIDE DEF E, page
<1>3. ASSUME NEW cursor, NEW p, p = Page(stamp, E, cursor, limit)
      PROVE  LET left == Beyond(stamp, E, cursor)
             IN  /\ p \subseteq left /\ IsFiniteSet(p)
                 /\ \A d \in p, e \in left \ p : Older(stamp, e, d)
                 /\ \/ p = left /\ NextCursor(stamp, p, limit) = {}
                    \/ \E c \in p : /\ NextCursor(stamp, p, limit) = {c}
                                    /\ \A d \in p : d = c \/ Older(stamp, c, d)
  BY <1>1, <1>3, PageEnds
<1>4. /\ Read(1) = page[1]
      /\ \A n \in Nat : Read(n + 1) = Read(n) \cup page[n + 1]
  <2>1. \A n \in Nat : 1..(n + 1) = (1..n) \cup {n + 1}
    OBVIOUS
  <2> QED
    BY <2>1
<1> HIDE DEF Read
<1>5. Inv(1)
  <2>1. Beyond(stamp, E, {}) = E
    BY DEF Beyond
  <2>2. page[1] \subseteq E /\ \A d \in page[1], e \in E \ page[1] : Older(stamp, e, d)
    BY <1>2, <1>3, <2>1
  <2>3. Ordered(1)
    BY <2>2
  <2>4. CASE page[1] = E /\ Cursor(1) = {}
    BY <1>4, <2>3, <2>4
  <2>5. ASSUME NEW c \in page[1], Cursor(1) = {c},
               \A d \in page[1] : d = c \/ Older(stamp, c, d)
        PROVE  ReadTo(1, c)
    <3>1. page[1] = {e \in E : e = c \/ Older(stamp, c, e)}
      BY <1>1, <2>2, <2>5, OlderOrders
    <3>2. IsFiniteSet(page[1]) /\ Cardinality(page[1]) # 0 /\ Cardinality(page[1]) \in Nat
      BY <1>1, <2>2, FS_Subset, FS_EmptySet, FS_CardinalityType
    <3>3. Cardinality(Read(1)) >= 1
      BY <1>4, <3>2
    <3> QED
      BY <1>4, <2>2, <2>5, <3>1, <3>3
  <2>6. \/ page[1] = E /\ Cursor(1) = {}
        \/ \E c \in page[1] : /\ Cursor(1) = {c}
                              /\ \A d \in page[1] : d = c \/ Older(stamp, c, d)
    BY <1>2, <1>3, <2>1
  <2> QED
    BY <2>3, <2>4, <2>5, <2>6
<1>6. ASSUME NEW n \in 1..Cardinality(rows), Inv(n)
      PROVE  Inv(n + 1)
  <2>0. /\ n \in Nat /\ page[n + 1] = Turn(stamp, E, page[n], limit)
        /\ Read(n + 1) = Read(n) \cup page[n + 1]
    <3>1. n \in Nat
      BY <1>1
    <3>2. page[n + 1] = Turn(stamp, E, page[n], limit)
      BY <1>2
    <3>3. Read(n + 1) = Read(n) \cup page[n + 1]
      BY <1>4, <3>1
    <3> QED
      BY <3>1, <3>2, <3>3
  <2>00. \A m \in 1..n : page[m] \subseteq Read(n)
    BY DEF Read
  <2>1. CASE AllRead(n)
    <3>1. page[n + 1] = {}
      BY <2>0, <2>1 DEF Turn
    <3>2. Cursor(n + 1) = {}
      BY <3>1, FS_EmptySet DEF NextCursor
    <3> QED
      BY <2>0, <2>1, <3>1, <3>2
  <2>2. ASSUME NEW c, ReadTo(n, c)
        PROVE  Inv(n + 1)
    <3> DEFINE left == Beyond(stamp, E, {c})
               p == page[n + 1]
    <3>1. p = Page(stamp, E, {c}, limit)
      BY <2>0, <2>2 DEF Turn
    <3>2. left = {e \in E : Older(stamp, e, c)} /\ left = E \ Read(n) /\ c \in Events
      <4>1. left = {e \in E : Older(stamp, e, c)}
        BY DEF Beyond
      <4> QED
        BY <1>1, <2>2, <4>1, OlderOrders
    <3>3. /\ p \subseteq left /\ IsFiniteSet(p)
          /\ \A d \in p, e \in left \ p : Older(stamp, e, d)
          /\ \/ p = left /\ Cursor(n + 1) = {}
             \/ \E b \in p : /\ Cursor(n + 1) = {b}
                             /\ \A d \in p : d = b \/ Older(stamp, b, d)
      BY <1>3, <3>1
    <3> HIDE DEF left
    <3>4. \A d \in Read(n), e \in left : Older(stamp, e, d)
      BY <1>1, <2>2, <3>2, OlderOrders
    <3>5. Ordered(n + 1)
      <4>1. ASSUME NEW m \in 1..n, NEW d \in page[m], NEW e \in p
            PROVE  Older(stamp, e, d)
        BY <2>00, <3>3, <3>4
      <4>2. p \subseteq E
        BY <3>2, <3>3
      <4> QED
        BY <2>0, <4>1, <4>2
    <3>6. Read(n + 1) = Read(n) \cup p
      BY <2>0
    <3> HIDE DEF p
    <3>7. CASE p = left /\ Cursor(n + 1) = {}
      <4>1. Read(n) \subseteq E
        BY <2>2
      <4> QED
        BY <3>2, <3>5, <3>6, <3>7, <4>1
    <3>8. ASSUME NEW b \in p, Cursor(n + 1) = {b},
                 \A d \in p : d = b \/ Older(stamp, b, d)
          PROVE  ReadTo(n + 1, b)
      <4>1. b \in E /\ b \notin Read(n) /\ Read(n) \subseteq E
        BY <2>2, <3>2, <3>3
      <4>2. \A e \in Read(n) : Older(stamp, b, e)
        BY <3>3, <3>4
      <4>3. Read(n + 1) = {e \in E : e = b \/ Older(stamp, b, e)}
        <5>1. \A e \in Read(n + 1) : e \in E /\ (e = b \/ Older(stamp, b, e))
          BY <3>2, <3>3, <3>6, <3>8, <4>1, <4>2
        <5>2. ASSUME NEW e \in E, e = b \/ Older(stamp, b, e), e \notin Read(n + 1)
              PROVE  FALSE
          <6>1. e \in left \ p
            BY <3>2, <3>6, <5>2
          <6> QED
            BY <1>1, <3>3, <3>6, <3>8, <4>1, <5>2, <6>1, OlderOrders
        <5> QED
          BY <5>1, <5>2
      <4>4. Cardinality(Read(n + 1)) >= n + 1
        <5>1. IsFiniteSet(Read(n)) /\ IsFiniteSet(Read(n + 1)) /\ Read(n) \cup {b} \subseteq Read(n + 1)
          BY <1>1, <3>6, <3>8, <4>1, <4>3, FS_Subset
        <5>2. /\ Cardinality(Read(n) \cup {b}) = Cardinality(Read(n)) + 1
              /\ Cardinality(Read(n) \cup {b}) <= Cardinality(Read(n + 1))
              /\ Cardinality(Read(n)) \in Nat /\ Cardinality(Read(n + 1)) \in Nat
          BY <4>1, <5>1, FS_AddElement, FS_Subset, FS_CardinalityType
        <5> QED
          BY <2>0, <2>2, <5>2
      <4> QED
        BY <3>8, <4>1, <4>3, <4>4
    <3> QED
      BY <3>3, <3>5, <3>7, <3>8
  <2> QED
    BY <1>6, <2>1, <2>2
<1> HIDE DEF Inv
<1>7. \A n \in 1..K : Inv(n)
  <2> DEFINE T == {n \in 1..K : ~Inv(n)}
  <2> SUFFICES ASSUME T # {} PROVE FALSE
    OBVIOUS
  <2>0. T \subseteq Nat
    BY <1>1
  <2>1. PICK n \in T : \A j \in T : n <= j
    BY <2>0, LeastNumber
  <2>2. n # 1
    BY <1>5, <2>1
  <2>3. n - 1 \in 1..Cardinality(rows) /\ n - 1 \in 1..K /\ n - 1 \notin T
    BY <1>1, <2>0, <2>1, <2>2
  <2>4. Inv((n - 1) + 1)
    BY <1>6, <2>3
  <2> QED
    BY <2>0, <2>1, <2>4
<1>8. Read(K) = E
  <2>1. K \in 1..K
    BY <1>1
  <2>2. AllRead(K) \/ \E c : ReadTo(K, c)
    BY <1>7, <2>1 DEF Inv
  <2>3. ASSUME NEW c, ReadTo(K, c)
        PROVE  FALSE
    <3>1. Read(K) \subseteq rows
      BY <1>1, <2>3
    <3>2. Cardinality(Read(K)) <= Cardinality(rows) /\ Cardinality(Read(K)) \in Nat
      BY <1>1, <3>1, FS_Subset, FS_CardinalityType
    <3> QED
      BY <1>1, <2>3, <3>2
  <2> QED
    BY <2>2, <2>3
<1>9. UNION {page[n] : n \in DOMAIN page} = E
  BY <1>2, <1>8 DEF Read
<1>10. ASSUME NEW m \in DOMAIN page, NEW n \in DOMAIN page, m < n,
              NEW d \in page[m], NEW e \in page[n]
       PROVE  Older(stamp, e, d)
  <2>1. m \in 1..(n - 1) /\ n \in 1..K
    BY <1>1, <1>2, <1>10
  <2> QED
    BY <1>7, <1>10, <2>1 DEF Inv
<1> QED
  BY <1>9, <1>10 DEF E, page

\* The numbers of a student's summary are those of the list.
LEMMA SummaryCounts ==
    ASSUME rows \subseteq Events, NEW stamp \in Stampings, NEW s \in Students
    PROVE  LET listed == Selected(stamp, [AnyRow EXCEPT !.student = s])
               summary == Summary(stamp, s, 1)
           IN  /\ summary.match_count + summary.miss_count = Cardinality(listed)
               /\ summary.histogram = Cardinality(listed)
               /\ \A e \in summary.first_match, d \in summary.last_match : stamp[e] <= stamp[d]
<1> DEFINE all == RowsOf(s)
           filter == [AnyRow EXCEPT !.student = s]
           base == {e \in all : stamp[e] >= 1}
           matches == {e \in base : Matched(e)}
           first == {e \in matches : \A d \in matches : stamp[e] <= stamp[d]}
           last == {e \in matches : \A d \in matches : stamp[d] <= stamp[e]}
<1>1. all \subseteq rows /\ IsFiniteSet(all)
  <2>1. IsFiniteSet(Events)
    BY FS_Interval, EvidenceAssumption DEF Events, EvidenceAssumption
  <2>2. all \subseteq rows
    BY DEF RowsOf
  <2> QED
    BY <2>1, <2>2, FS_Subset
<1>2. base = all
  <2>1. \A e \in all : stamp[e] \in 1..2
    BY <1>1 DEF Stampings
  <2> QED
    BY <2>1
<1>3. Selected(stamp, filter) = all
  <2>1. filter.student = s /\ filter.matched = {TRUE, FALSE} /\ filter.since = 1
    BY DEF AnyRow
  <2>2. s # NoOne
    BY EvidenceAssumption DEF EvidenceAssumption
  <2>3. \A e \in rows : Matched(e) \in {TRUE, FALSE}
    BY DEF Matched
  <2> HIDE DEF filter
  <2>4. Selected(stamp, filter) = {e \in rows : e \in all /\ stamp[e] >= 1}
    BY <2>1, <2>2, <2>3 DEF Selected
  <2> QED
    BY <1>1, <1>2, <2>4
<1>4. /\ Summary(stamp, s, 1).match_count = Cardinality(matches)
      /\ Summary(stamp, s, 1).miss_count = Cardinality(base \ matches)
      /\ Summary(stamp, s, 1).histogram = Cardinality(all)
      /\ Summary(stamp, s, 1).first_match = first /\ Summary(stamp, s, 1).last_match = last
  BY DEF Summary
<1>5. Cardinality(matches) + Cardinality(all \ matches) = Cardinality(all)
  <2>1. matches \subseteq all /\ all = matches \cup (all \ matches)
        /\ matches \cap (all \ matches) = {}
    BY <1>2
  <2> HIDE DEF matches, all
  <2>2. /\ IsFiniteSet(matches) /\ IsFiniteSet(all \ matches)
        /\ Cardinality(matches) \in Nat /\ Cardinality(all \ matches) \in Nat
    BY <1>1, <2>1, FS_Subset, FS_CardinalityType
  <2>3. Cardinality(matches \cup (all \ matches))
          = Cardinality(matches) + Cardinality(all \ matches)
              - Cardinality(matches \cap (all \ matches))
    BY <2>2, FS_Union
  <2>4. Cardinality(matches \cap (all \ matches)) = 0
    BY <2>1, FS_EmptySet
  <2> QED
    BY <2>1, <2>2, <2>3, <2>4
<1>6. \A e \in first, d \in last : stamp[e] <= stamp[d]
  OBVIOUS
<1> HIDE DEF all, base, matches, first, last
<1> QED
  BY <1>2, <1>3, <1>4, <1>5, <1>6 DEF filter

\* A link offered for a row whose pictures are there leads to a picture.
LEMMA LinksLead ==
    ASSUME NEW e \in rows, Crops(e) \subseteq files, NEW kind \in Offered(e)
    PROVE  Answer(e, kind) = "picture"
<1>1. kind = "live" \/ (kind = "registered" /\ e \in photo)
  BY DEF Offered
<1>2. PictureOf(e, kind) \in files
  BY <1>1 DEF PictureOf, Crops
<1>3. Reachable(PictureOf(e, kind))
  BY <1>2 DEF Reachable
<1> QED
  BY <1>3 DEF Answer

\* What administrators read agrees, for any number of events, any sizes of
\* page and any coincidence of times: an export has every selected row once and
\* the newest first, summaries count the rows of the list, and offered links
\* lead to pictures (ReadsAgree).
THEOREM ReadsAlwaysAgree == Spec => []ReadsAgree
<1>1. TypeOK /\ YoungRowsResolve => ReadsAgree
  <2> SUFFICES ASSUME TypeOK, YoungRowsResolve PROVE ReadsAgree
    OBVIOUS
  <2>1. rows \subseteq Events
    BY EventsAreTyped DEF TypeOK
  <2>2. ASSUME NEW stamp \in Stampings, NEW limit \in 1..MaxEvents, NEW filter
        PROVE  LET page == Pages(stamp, filter, limit)
               IN  /\ UNION {page[n] : n \in DOMAIN page} = Selected(stamp, filter)
                   /\ \A m, n \in DOMAIN page : m < n =>
                         \A d \in page[m], e \in page[n] : Older(stamp, e, d)
    <3>1. limit \in Nat \ {0}
      BY EvidenceAssumption DEF EvidenceAssumption
    <3> QED
      BY <2>1, <3>1, PagesCover
  <2>3. ASSUME NEW stamp \in Stampings, NEW s \in Students
        PROVE  LET listed == Selected(stamp, [AnyRow EXCEPT !.student = s])
                   summary == Summary(stamp, s, 1)
               IN  /\ summary.match_count + summary.miss_count = Cardinality(listed)
                   /\ summary.histogram = Cardinality(listed)
                   /\ \A e \in summary.first_match, d \in summary.last_match :
                         stamp[e] <= stamp[d]
    BY <2>1, SummaryCounts
  <2>4. ASSUME NEW e \in rows, age[e] = 0, SubjectOf[e] \notin asked, NEW kind \in Offered(e)
        PROVE  Answer(e, kind) = "picture"
    BY <2>4, LinksLead DEF YoungRowsResolve
  <2> QED
    BY <2>2, <2>3, <2>4, Zenon DEF ReadsAgree
<1> QED
  BY <1>1, TypeCorrect, YoungRowsAlwaysResolve, PTL

=============================================================================
