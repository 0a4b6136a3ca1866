--------------------------- MODULE EvidenceTrail ---------------------------
(* The evidence of face recognition: what the tracker of a session hands to *)
(* the EvidenceWriter, which writes two pictures to disk and a row to the   *)
(* table recognition_events in batches; the purge of a student's evidence   *)
(* on deregistration; and the nightly retention sweep.                      *)
(*                                                                          *)
(* Three kinds of process meet here.  The event loop runs the writer's      *)
(* worker, submit(), stop() and, without an await, the purge.  Threads run  *)
(* the tracker, the insertion of a batch and the sweep.  The table and the  *)
(* disk outlive all of them.                                                *)
EXTENDS Naturals, Sequences, FiniteSets, SequencesExt

CONSTANTS
    Students,
    NoOne,
    MaxEvents,     \* bound: the decisions submitted, numbered in their order
    Photographed,  \* students whose registration kept a picture
    SubjectOf,     \* of an event: who was matched; NoOne for a miss or an ambiguous match
    QueueSize,     \* RECOGNITION_EVIDENCE_QUEUE_SIZE
    HighWater,     \* nine tenths of it
    BatchRows,     \* RECOGNITION_EVIDENCE_BATCH_ROWS
    MaxDeletes,    \* RECOGNITION_EVIDENCE_RETENTION_MAX_DELETES
    MayCrash       \* assumption: whether the process may die

Events == 1..MaxEvents

ASSUME EvidenceAssumption ==
    /\ MaxEvents \in Nat
    /\ NoOne \notin Students /\ Photographed \subseteq Students
    /\ SubjectOf \in [Events -> Students \cup {NoOne}]
    /\ HighWater \in Nat \ {0} /\ QueueSize \in Nat /\ HighWater <= QueueSize
    /\ BatchRows \in Nat \ {0} /\ MaxDeletes \in Nat \ {0}
    /\ MayCrash \in BOOLEAN

VARIABLES
    submitted,  \* how many events the tracker has built a draft of
    photo,      \* those whose draft carries the bytes of a registered picture
    loaded,     \* students whose registered picture was read (_evidence_reg_bytes)
    posted,     \* drafts on their way to the loop (run_coroutine_threadsafe)
    queue,      \* _queue
    batch,      \* the worker's batch
    writer,     \* off, on or stopping (_started, _stopping)
    insertion,  \* the thread of _flush_sync: none, running or over
    files,      \* pictures on disk: <<event, kind>>
    rows,       \* recognition_events
    age,        \* of a row: 0, 1 past crop retention, 2 past row retention
    users,      \* students whose user row exists
    asked,      \* students whose deregistration reached the purge
    purging,    \* the student being purged, or NoOne
    sweep       \* the nightly sweep: [pc, todo]

memory == <<loaded, posted, queue, batch, writer, insertion>>
disk == <<files, rows, age>>
people == <<users, asked, purging>>
vars == <<submitted, photo, memory, disk, people, sweep>>

Live(e) == <<e, "live">>
Crops(e) == {Live(e)} \cup IF e \in photo THEN {<<e, "reg">>} ELSE {}
CropsOf(E) == UNION {Crops(e) : e \in E}

\* student_id of a row: set to NULL when the user row is deleted.
RowsOf(s) == {e \in rows : SubjectOf[e] = s /\ s \in users}

LoopIsFree == purging = NoOne

-----------------------------------------------------------------------------
(* Handing in                                                               *)

\* _submit_recognition_event and submit_threadsafe, on the tracker's thread.
\* The first draft that matches a student carries the registered picture and
\* no later one does: what the writer stores is never put in its cache.
Submit ==
    /\ submitted < MaxEvents
    /\ submitted' = submitted + 1
    /\ LET e == submitted'
           s == SubjectOf[e]
       IN /\ loaded' = loaded \cup ({s} \ {NoOne})
          /\ photo' = IF s \in Photographed \ loaded THEN photo \cup {e} ELSE photo
          /\ posted' = IF writer = "on" /\ Len(queue) < HighWater
                       THEN Append(posted, e) ELSE posted
    /\ UNCHANGED <<queue, batch, writer, insertion, disk, people, sweep>>

\* submit() on the loop: into the queue, or dropped.  Faulty variant: the
\* length read on the tracker's thread is trusted.
EnqueuedAnyway(e) == IF writer = "on" THEN Append(queue, e) ELSE queue
Enqueued(e) == IF writer = "on" /\ Len(queue) < QueueSize THEN Append(queue, e) ELSE queue

SubmitRuns ==
    /\ LoopIsFree /\ posted # <<>>
    /\ posted' = Tail(posted)
    /\ queue' = Enqueued(Head(posted))
    /\ UNCHANGED <<submitted, photo, loaded, batch, writer, insertion, disk,
                   people, sweep>>

-----------------------------------------------------------------------------
(* The worker                                                               *)

\* A draft whose pictures reached the disk joins the batch; a full batch is
\* handed to a thread.  If a picture cannot be written, whatever was is left
\* on the disk and the row is skipped.  Faulty variant: it is not skipped.
TakeAnyway(e, stored) ==
    /\ files' = files \cup stored
    /\ batch' = Append(batch, e)

Take(e, stored) ==
    /\ files' = files \cup stored
    /\ batch' = IF stored = Crops(e) THEN Append(batch, e) ELSE batch

\* The worker sees to the queue unless it waits for a batch to be inserted.
WorkerIsFree == LoopIsFree /\ writer # "off" /\ insertion = "none"

WorkerTakes ==
    /\ WorkerIsFree /\ queue # <<>>
    /\ queue' = Tail(queue)
    /\ \E stored \in {{}, {Live(Head(queue))}, Crops(Head(queue))} :
          Take(Head(queue), stored)
    /\ insertion' = IF Len(batch') >= BatchRows THEN "running" ELSE "none"
    /\ UNCHANGED <<submitted, photo, loaded, posted, writer, rows, age,
                   people, sweep>>

\* RECOGNITION_EVIDENCE_BATCH_MS are over.  Faulty variant: the timer is
\* looked at for a full batch only.
TimerDueFull == Len(batch) >= BatchRows
TimerDue == batch # <<>>

TimerFlush ==
    /\ WorkerIsFree /\ TimerDue
    /\ insertion' = "running"
    /\ UNCHANGED <<submitted, photo, loaded, posted, queue, batch, writer, disk,
                   people, sweep>>

\* _flush_sync: all rows of the batch in one transaction, or none.  A row of
\* a student deleted meanwhile violates the foreign key.  The thread is not
\* stopped when the worker is cancelled.
Insert ==
    /\ insertion = "running"
    /\ \/ /\ \A e \in ToSet(batch) : SubjectOf[e] \in users \cup {NoOne}
          /\ rows' = rows \cup ToSet(batch)
       \/ UNCHANGED rows
    /\ insertion' = "over"
    /\ UNCHANGED <<submitted, photo, loaded, posted, queue, batch, writer,
                   files, age, people, sweep>>

\* The rest of _flush: a broadcast that changes nothing here, then an empty
\* batch.
FlushReturns ==
    /\ LoopIsFree /\ insertion = "over"
    /\ insertion' = "none"
    /\ batch' = <<>>
    /\ UNCHANGED <<submitted, photo, loaded, posted, queue, writer, disk, people, sweep>>

Worker == SubmitRuns \/ WorkerTakes \/ TimerFlush \/ FlushReturns

-----------------------------------------------------------------------------
(* Start, stop and crash                                                    *)

\* start() in a new process.
Start ==
    /\ writer = "off" /\ insertion = "none" /\ LoopIsFree
    /\ writer' = "on"
    /\ loaded' = {}
    /\ UNCHANGED <<submitted, photo, posted, queue, batch, insertion, disk, people, sweep>>

StopBegins ==
    /\ LoopIsFree /\ writer = "on"
    /\ writer' = "stopping"
    /\ UNCHANGED <<submitted, photo, loaded, posted, queue, batch, insertion,
                   disk, people, sweep>>

\* The queue is empty or three seconds are over: the worker is cancelled,
\* with its batch unless a thread has it already.  The process is about to
\* exit; what is still queued or posted finds the writer stopped.
StopCancels ==
    /\ LoopIsFree /\ writer = "stopping"
    /\ writer' = "off"
    /\ batch' = IF insertion = "none" THEN <<>> ELSE batch
    /\ posted' = <<>> /\ queue' = <<>>
    /\ UNCHANGED <<submitted, photo, loaded, insertion, disk, people, sweep>>

\* The process dies, between any two of the steps here.
Crash ==
    /\ MayCrash
    /\ writer' = "off" /\ insertion' = "none"
    /\ posted' = <<>> /\ queue' = <<>> /\ batch' = <<>> /\ loaded' = {}
    /\ purging' = NoOne
    /\ sweep' = [pc |-> "idle", todo |-> {}]
    /\ UNCHANGED <<submitted, photo, disk, users, asked>>

-----------------------------------------------------------------------------
(* Deletion of a student's evidence                                         *)

\* _purge_recognition_evidence_for_user, in two steps: the pictures of the
\* rows it reads, any of which may fail to go; then the rows of that moment.
PurgeFiles(s) ==
    /\ LoopIsFree /\ writer # "off" /\ s \in users \ asked
    /\ asked' = asked \cup {s}
    /\ purging' = s
    /\ \E left \in {{}, CropsOf(RowsOf(s)) \cap files} :
          files' = (files \ CropsOf(RowsOf(s))) \cup left
    /\ UNCHANGED <<submitted, photo, memory, rows, age, users, sweep>>

PurgeRows ==
    /\ ~LoopIsFree
    /\ rows' \in {rows, rows \ RowsOf(purging)}
    /\ purging' = NoOne
    /\ UNCHANGED <<submitted, photo, memory, files, age, users, asked, sweep>>

\* scripts/delete_user.py: the user row goes, the student's events stay as
\* nobody's.
RemoveUser(s) ==
    /\ s \in users
    /\ users' = users \ {s}
    /\ UNCHANGED <<submitted, photo, memory, disk, asked, purging, sweep>>

-----------------------------------------------------------------------------
(* The retention sweep, with its dry run switched off                       *)

DayPasses ==
    /\ \E e \in rows : age[e] < 2
    /\ age' = [e \in Events |-> IF e \in rows /\ age[e] < 2 THEN age[e] + 1 ELSE age[e]]
    /\ UNCHANGED <<submitted, photo, memory, files, rows, people, sweep>>

Idle == [pc |-> "idle", todo |-> {}]

\* Which rows _prune_blobs selects: the oldest MaxDeletes of those past crop
\* retention.
Cold ==
    LET past == {e \in rows : age[e] > 0}
    IN {e \in past : Cardinality({d \in past : d < e}) < MaxDeletes}

SweepReads ==
    /\ sweep.pc = "idle"
    /\ sweep' = [pc |-> "blobs", todo |-> Cold]
    /\ UNCHANGED <<submitted, photo, memory, disk, people>>

\* _prune_blobs for the oldest row: its pictures go unless that fails, then the
\* UPDATE sets live_crop_ref to NULL.  The column is NOT NULL, in the model and in its
\* migration, so the statement raises if the row is still there, and with it
\* the whole sweep ends.
SweepBlob ==
    /\ sweep.pc = "blobs" /\ sweep.todo # {}
    /\ \E e \in sweep.todo :
         /\ \A d \in sweep.todo : e <= d
         /\ files' \in {files, files \ Crops(e)}
         /\ sweep' = IF e \in rows THEN Idle ELSE [sweep EXCEPT !.todo = @ \ {e}]
    /\ UNCHANGED <<submitted, photo, memory, rows, age, people>>

\* _prune_rows, which run_recognition_retention reaches only if the first
\* pass returned.
SweepRows ==
    /\ sweep.pc = "blobs" /\ sweep.todo = {}
    /\ LET old == {e \in rows : age[e] = 2} IN
         rows' = IF Cardinality(old) > MaxDeletes THEN rows ELSE rows \ old
    /\ sweep' = Idle
    /\ UNCHANGED <<submitted, photo, memory, files, age, people>>

Sweep == SweepReads \/ SweepBlob \/ SweepRows

-----------------------------------------------------------------------------
Init ==
    /\ submitted = 0 /\ photo = {} /\ loaded = {}
    /\ posted = <<>> /\ queue = <<>> /\ batch = <<>>
    /\ writer = "off" /\ insertion = "none"
    /\ files = {} /\ rows = {} /\ age = [e \in Events |-> 0]
    /\ users = Students /\ asked = {} /\ purging = NoOne
    /\ sweep = Idle

Next ==
    \/ Submit
    \/ Worker
    \/ Insert
    \/ Start \/ StopBegins \/ StopCancels \/ Crash
    \/ \E s \in Students : PurgeFiles(s) \/ RemoveUser(s)
    \/ PurgeRows
    \/ DayPasses
    \/ Sweep

Spec == Init /\ [][Next]_vars

\* The loop runs what is ready, threads run, and there is a sweep a night.
\* That anything is submitted, stopped or deleted is not assumed.
FairSpec ==
    /\ Spec
    /\ WF_vars(SubmitRuns) /\ WF_vars(WorkerTakes) /\ WF_vars(TimerFlush)
    /\ WF_vars(Insert) /\ WF_vars(FlushReturns)
    /\ WF_vars(PurgeRows) /\ WF_vars(StopCancels)
    /\ WF_vars(Sweep)

-----------------------------------------------------------------------------
(* Properties                                                               *)

InMemory(e) == e \in ToSet(posted) \cup ToSet(queue) \cup ToSet(batch)

\* Types of the writer, the table and the disk; the queue keeps its size
\* although its length is read from another thread, and a thread that
\* outlives the worker has what it inserts.
TypeOK ==
    /\ submitted \in 0..MaxEvents /\ photo \subseteq 1..submitted
    /\ loaded \subseteq Students
    /\ posted \in Seq(1..submitted) /\ queue \in Seq(1..submitted) /\ batch \in Seq(1..submitted)
    /\ Len(queue) <= QueueSize
    /\ writer \in {"off", "on", "stopping"}
    /\ insertion \in {"none", "running", "over"}
    /\ insertion # "none" => batch # <<>>
    /\ files \subseteq (1..submitted) \X {"live", "reg"}
    /\ rows \subseteq 1..submitted
    /\ age \in [Events -> 0..2]
    /\ users \subseteq Students /\ asked \subseteq Students
    /\ purging \in asked \cup {NoOne}
    /\ sweep \in [pc : {"idle", "blobs"}, todo : SUBSET (1..submitted)]

\* A row younger than the retention of pictures refers to pictures that are
\* on the disk, whatever fails, stops or crashes between the picture and the
\* row, unless its student asked for deletion: "any live_crop_ref in the
\* table is guaranteed to resolve on disk" of the worker.
YoungRowsResolve ==
    \A e \in rows : age[e] = 0 /\ SubjectOf[e] \notin asked => Crops(e) \subseteq files

\* What the writer accepted does not linger in memory: it is written, or
\* discarded by a failure or a stop, however the traffic is.
NothingLingers == \A e \in Events : InMemory(e) ~> ~InMemory(e)

\* Rows past their retention are deleted, as the sweep promises with two
\* passes of which the first failing does not block the second.
ExpiredRowsGo == \A e \in Events : (e \in rows /\ age[e] = 2) ~> e \notin rows

\* Every reference resolves, at any age.
RefsResolve == CropsOf(rows) \subseteq files

\* A student who was deregistered has no evidence left.
Forgotten ==
    \A s \in asked : purging # s =>
        \A e \in Events : SubjectOf[e] = s => e \notin rows /\ Crops(e) \cap files = {}

\* What stop() finds in the queue or in the batch reaches the table.
StopDrains ==
    [][StopCancels => \A e \in ToSet(queue) \cup ToSet(batch) : insertion # "none"]_vars

=============================================================================
