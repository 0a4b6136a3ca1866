---------------------------- MODULE FaceRegistry ----------------------------
(***************************************************************************)
(* Who the gateway can put a name to.  The same knowledge is kept in four  *)
(* places: rows of face_embeddings (each remembers the position its vector *)
(* had in the index when it was written), the FAISS index in memory, the   *)
(* map from positions to users, and the index file.  Handlers on the event *)
(* loop (registration, deletion, CCTV enrolment, reloads announced over    *)
(* Redis) and one worker thread (automatic enrolment) change them.         *)
(*                                                                         *)
(* A vector is represented by the user whose face it is, and one vector    *)
(* stands for all the vectors one operation adds.  Positions count from 1. *)
(* The loop runs one handler at a time; the steps of a handler are cut     *)
(* where the worker can get in between (at the index lock and at commits). *)
(***************************************************************************)
EXTENDS Naturals, Sequences, FiniteSets, SequencesExt, TLC

CONSTANTS
    Users,          \* students
    None,           \* no user
    MaxVectors,     \* bound: nothing is added beyond this many positions
    MaxLabel,       \* bound: CCTV captures of one user before an enrolment
    MaxNotices,     \* bound: reload announcements waiting
    MaxUploads      \* bound: requests of one user reading images at a time

ASSUME FaceAssumption ==
    /\ None \notin Users
    /\ {MaxVectors, MaxLabel, MaxNotices, MaxUploads} \subseteq Nat

VARIABLES
    reg,        \* face_registrations: "none", "active" or "inactive" per user
    rows,       \* face_embeddings: set of [user, fid, label]
    index,      \* FAISSManager.index: whose face is at each position
    user_map,   \* FAISSManager.user_map
    disk,       \* the index file
    notices,    \* messages published on faiss_reload and not yet delivered
    upload,     \* requests whose images are being read, per user
    loop,       \* the handler the event loop is in
    queue,      \* batches submitted to the enrolment worker, by user
    worker,     \* the batch the worker is committing
    in_flight,  \* users with commit_in_flight set
    reloaded    \* history: a reload was processed since the last start

stores == <<reg, rows>>
memory == <<index, user_map, disk, notices>>
tasks == <<upload, queue, worker, in_flight>>
vars == <<stores, memory, tasks, loop, reloaded>>

Row == [user : Users, fid : Nat \ {0}, label : Nat]
IdleLoop == [op |-> "idle", user |-> None, step |-> "", fid |-> 0, owners |-> <<>>]
IdleWorker == [user |-> None, step |-> "idle", fid |-> 0, victims |-> {},
               orphaned |-> FALSE]

(* Types, and commit_in_flight is set exactly while the student's batch    *)
(* waits or is being committed: no refusal, failure or deletion in between *)
(* leaves the flag behind, which would end the student's enrolment.        *)
TypeOK ==
    /\ reg \in [Users -> {"none", "active", "inactive"}]
    /\ rows \subseteq Row
    /\ index \in Seq(Users) /\ disk \in Seq(Users)
    /\ DOMAIN user_map \subseteq Nat \ {0} /\ Range(user_map) \subseteq Users
    /\ notices \in Nat
    /\ upload \in [Users -> 0..MaxUploads]
    /\ queue \in Seq(Users)
    /\ in_flight = Range(queue) \cup ({worker.user} \ {None})
    /\ reloaded \in BOOLEAN

---------------------------------------------------------------------------
(* Rows.                                                                   *)

RowsOf(u) == {r \in rows : r.user = u}
\* Faulty variant: deleted registrations are read too.
AllRows == rows
ActiveRows == {r \in rows : reg[r.user] = "active"}
Phone == 0
NextPosition == Len(index) + 1
NextLabel(u) == 1 + Max({Phone} \cup {r.label : r \in RowsOf(u)})

(* Bounds on what an enrolment may start from. *)
RoomFor(u) == NextPosition <= MaxVectors /\ NextLabel(u) <= MaxLabel

(* The owners of the active rows, as read: a query without ORDER BY        *)
(* returns the rows in any order.                                          *)
OwnersOf(order) == [i \in DOMAIN order |-> order[i].user]
Collected == {OwnersOf(order) : order \in SetToSeqs(ActiveRows)}

(* The maps that reading S row by row can give: the last row read with a   *)
(* position wins.                                                          *)
MapsFrom(S) ==
    {f \in [{r.fid : r \in S} -> {r.user : r \in S}] :
        \A p \in DOMAIN f : \E r \in S : r.fid = p /\ r.user = f[p]}

---------------------------------------------------------------------------
(* The index manager.                                                      *)

(* add_batch: the position is the size of the index, under the lock.       *)
With(f, p, u) == [q \in DOMAIN f \cup {p} |-> IF q = p THEN u ELSE f[q]]
\* Faulty variant: the position is the size of the map.
AddVectorByMap(u) ==
    /\ index' = Append(index, u)
    /\ user_map' = With(user_map, Cardinality(DOMAIN user_map) + 1, u)
AddVector(u) ==
    /\ index' = Append(index, u)
    /\ user_map' = With(user_map, NextPosition, u)

(* remove: only the map forgets; the vector stays in the index.            *)
Without(f, positions) == [p \in DOMAIN f \ positions |-> f[p]]

(* save announces the file to every process, this one too.                 *)
Announced == IF notices < MaxNotices THEN notices + 1 ELSE notices

(* rebuild and save, from what was collected before the lock was taken.    *)
ReplaceBy(owners) == index' = owners /\ user_map' = owners /\ disk' = owners

---------------------------------------------------------------------------
Init ==
    /\ reg = [u \in Users |-> "none"]
    /\ rows = {}
    /\ index = <<>> /\ user_map = <<>> /\ disk = <<>>
    /\ notices = 0
    /\ upload = [u \in Users |-> 0]
    /\ loop = IdleLoop
    /\ queue = <<>>
    /\ worker = IdleWorker
    /\ in_flight = {}
    /\ reloaded = FALSE

LoopAt(op, step) == loop.op = op /\ loop.step = step
GoTo(step) == loop' = [loop EXCEPT !.step = step]
LoopFree == loop.op = "idle"
Begins(op, u, step) ==
    loop' = [op |-> op, user |-> u, step |-> step, fid |-> 0, owners |-> <<>>]
Done == loop' = IdleLoop

(* Deleting a registration leaves a batch being committed without one.     *)
Orphaned(u) == IF worker.user = u THEN [worker EXCEPT !.orphaned = TRUE] ELSE worker

---------------------------------------------------------------------------
(* Registration.  The test for an existing one precedes the upload.        *)

RegisterChecks(u) ==
    /\ LoopFree
    /\ reg[u] # "active"
    /\ upload[u] < MaxUploads
    /\ upload' = [upload EXCEPT ![u] = @ + 1]
    /\ UNCHANGED <<stores, memory, queue, worker, in_flight, loop, reloaded>>

(* The images are in: some may be unusable, or look spoofed.               *)
UploadEnds(u) ==
    /\ LoopFree
    /\ upload[u] > 0
    /\ upload' = [upload EXCEPT ![u] = @ - 1]
    /\ \/ NextPosition <= MaxVectors /\ Begins("register", u, "index")
       \/ UNCHANGED loop
    /\ UNCHANGED <<stores, memory, queue, worker, in_flight, reloaded>>

Index(op) ==
    /\ LoopAt(op, "index")
    /\ AddVector(loop.user)
    /\ loop' = [loop EXCEPT !.step = "commit", !.fid = NextPosition]
    /\ UNCHANGED <<stores, disk, notices, tasks, reloaded>>

(* _create_no_commit deletes what registration the user had, rows and all. *)
CommitRegistration ==
    /\ LoopAt("register", "commit")
    /\ LET u == loop.user IN
       /\ reg' = [reg EXCEPT ![u] = "active"]
       /\ rows' = (rows \ RowsOf(u)) \cup {[user |-> u, fid |-> loop.fid, label |-> Phone]}
       /\ worker' = Orphaned(u)
    /\ GoTo("save")
    /\ UNCHANGED <<memory, upload, queue, in_flight, reloaded>>

Save(op) ==
    /\ LoopAt(op, "save")
    /\ disk' = index
    /\ notices' = Announced
    /\ Done
    /\ UNCHANGED <<reg, rows, index, user_map, tasks, reloaded>>

(* The commit or the save failed: forget the position and rebuild.         *)
RollBack(op) ==
    /\ \/ LoopAt(op, "commit")
       \/ LoopAt(op, "save")
    /\ user_map' = Without(user_map, {loop.fid})
    /\ GoTo("collect")
    /\ UNCHANGED <<stores, index, disk, notices, tasks, reloaded>>

(* rebuild_faiss_index reads the rows first and takes the lock later.      *)
Collect ==
    /\ loop.step = "collect"
    /\ \E owners \in Collected :
          loop' = [loop EXCEPT !.step = "replace", !.owners = owners]
    /\ UNCHANGED <<stores, memory, tasks, reloaded>>

Replace ==
    /\ loop.step = "replace"
    /\ ReplaceBy(loop.owners)
    /\ notices' = Announced
    /\ Done
    /\ upload' = IF loop.op = "reregister"
                 THEN [upload EXCEPT ![loop.user] = @ + 1] ELSE upload
    /\ UNCHANGED <<stores, queue, worker, in_flight, reloaded>>

(* Deletion on request keeps the rows and makes the registration inactive; *)
(* registering again deletes them.                                         *)
DeregisterBegins(u) ==
    /\ LoopFree
    /\ reg[u] = "active"
    /\ reg' = [reg EXCEPT ![u] = "inactive"]
    /\ Begins("deregister", u, "collect")
    /\ UNCHANGED <<rows, memory, tasks, reloaded>>

ReregisterBegins(u) ==
    /\ LoopFree
    /\ upload[u] < MaxUploads
    /\ IF reg[u] = "active"
       THEN /\ reg' = [reg EXCEPT ![u] = "none"]
            /\ rows' = rows \ RowsOf(u)
            /\ worker' = Orphaned(u)
       ELSE UNCHANGED <<reg, rows, worker>>
    /\ Begins("reregister", u, "collect")
    /\ UNCHANGED <<memory, upload, queue, in_flight, reloaded>>

(* An operator enrols a student from the camera: the handler captures      *)
(* without ever giving up the loop.                                        *)
EnrollBegins(u) ==
    /\ LoopFree
    /\ reg[u] = "active"
    /\ RoomFor(u)
    /\ Begins("enroll", u, "index")
    /\ UNCHANGED <<stores, memory, tasks, reloaded>>

CommitEnrolment ==
    /\ LoopAt("enroll", "commit")
    /\ rows' = rows \cup {[user |-> loop.user, fid |-> loop.fid, label |-> NextLabel(loop.user)]}
    /\ GoTo("save")
    /\ UNCHANGED <<reg, memory, tasks, reloaded>>

---------------------------------------------------------------------------
(* A reload: first the index from its file, then the map from the rows.    *)

ReloadIndex ==
    /\ LoopFree
    /\ notices > 0
    /\ notices' = notices - 1
    /\ index' = disk
    /\ reloaded' = TRUE
    /\ Begins("reload", None, "map")
    /\ UNCHANGED <<stores, user_map, disk, tasks>>

rebuild_user_map_from_db ==
    /\ LoopAt("reload", "map")
    /\ user_map' \in MapsFrom(ActiveRows)
    /\ Done
    /\ UNCHANGED <<stores, index, disk, notices, tasks, reloaded>>

---------------------------------------------------------------------------
(* Automatic enrolment: the tracker fills a buffer and submits it, a       *)
(* single worker commits one batch after the other.                        *)

SubmitBatch(u) ==
    /\ u \notin in_flight
    /\ u \in Range(user_map)
    /\ in_flight' = in_flight \cup {u}
    /\ queue' = Append(queue, u)
    /\ UNCHANGED <<stores, memory, upload, worker, loop, reloaded>>

\* Faulty variant: the flag is only cleared by the next restart.
WorkerEndsBusy(u) == worker' = IdleWorker /\ UNCHANGED in_flight

WorkerEnds(u) ==
    /\ worker' = IdleWorker
    /\ in_flight' = in_flight \ {u}

(* Refused: no registration, too unlike the phone images, too like another *)
(* student, or nothing that may be replaced.  Otherwise at the cap some    *)
(* earlier capture is chosen as a victim.                                  *)
WorkerBegins ==
    /\ worker.step = "idle" /\ queue # <<>>
    /\ queue' = Tail(queue)
    /\ LET u == Head(queue) IN
       \/ WorkerEnds(u)
       \/ /\ reg[u] = "active" /\ RoomFor(u)
          /\ \E victims \in {{}} \cup {{r} : r \in {x \in RowsOf(u) : x.label # Phone}} :
                worker' = [user |-> u, step |-> "evict", fid |-> 0, orphaned |-> FALSE,
                           victims |-> {r.fid : r \in victims}]
          /\ UNCHANGED in_flight
    /\ UNCHANGED <<stores, memory, upload, loop, reloaded>>

WorkerEvicts ==
    /\ worker.step = "evict"
    /\ user_map' = Without(user_map, worker.victims)
    /\ worker' = [worker EXCEPT !.step = "index"]
    /\ UNCHANGED <<stores, index, disk, notices, upload, queue, in_flight, loop, reloaded>>

WorkerIndexes ==
    /\ worker.step = "index"
    /\ AddVector(worker.user)
    /\ worker' = [worker EXCEPT !.step = "commit", !.fid = NextPosition]
    /\ UNCHANGED <<stores, disk, notices, upload, queue, in_flight, loop, reloaded>>

(* The victims are deleted by position alone, whoever they belong to.      *)
WorkerCommits ==
    /\ worker.step = "commit" /\ ~worker.orphaned
    /\ rows' = {r \in rows : r.fid \notin worker.victims} \cup
               {[user |-> worker.user, fid |-> worker.fid, label |-> NextLabel(worker.user)]}
    /\ worker' = [worker EXCEPT !.step = "save", !.victims = {}]
    /\ UNCHANGED <<reg, memory, upload, queue, in_flight, loop, reloaded>>

(* Saved from a thread without an event loop: nobody is told.              *)
WorkerSaves ==
    /\ worker.step = "save"
    /\ disk' = index
    /\ WorkerEnds(worker.user)
    /\ UNCHANGED <<reg, rows, index, user_map, notices, upload, queue, loop, reloaded>>

WorkerFails ==
    /\ worker.step \in {"commit", "save"}
    /\ user_map' = Without(user_map, {worker.fid})
    /\ WorkerEnds(worker.user)
    /\ UNCHANGED <<reg, rows, index, disk, notices, upload, queue, loop, reloaded>>

---------------------------------------------------------------------------
(* The gateway goes down, with or without its shutdown code, and starts:   *)
(* load, map from the rows, reconcile.  Without an active registration     *)
(* reconcile leaves the loaded index alone.                                *)

\* Faulty variant: nothing is rebuilt when the sizes agree.
ReconcileByCount(loaded) ==
    IF Len(loaded) = Cardinality(ActiveRows)
    THEN index' = loaded /\ disk' = loaded /\ user_map' \in MapsFrom(ActiveRows) /\ notices' = 0
    ELSE /\ \E owners \in Collected : ReplaceBy(owners)
         /\ notices' \in {0, 1}

Reconcile(loaded) ==
    IF ActiveRows = {}
    THEN /\ index' = loaded /\ disk' = loaded
         /\ user_map' = <<>>
         /\ notices' = 0
    ELSE /\ \E owners \in Collected : ReplaceBy(owners)
         /\ notices' \in {0, 1}

Restart ==
    /\ upload' = [u \in Users |-> 0]
    /\ loop' = IdleLoop
    /\ queue' = <<>> /\ worker' = IdleWorker /\ in_flight' = {}
    /\ reloaded' = FALSE
    /\ UNCHANGED stores
    /\ \E loaded \in {disk, index} : Reconcile(loaded)

---------------------------------------------------------------------------
WorkerStep == WorkerBegins \/ WorkerEvicts \/ WorkerIndexes \/ WorkerCommits
              \/ WorkerSaves \/ WorkerFails
HandlerStep ==
    \/ \E op \in {"register", "enroll"} : Index(op) \/ Save(op) \/ RollBack(op)
    \/ CommitRegistration \/ CommitEnrolment
    \/ Collect \/ Replace
    \/ rebuild_user_map_from_db
Request ==
    \E u \in Users : \/ RegisterChecks(u) \/ UploadEnds(u) \/ DeregisterBegins(u)
                     \/ ReregisterBegins(u) \/ EnrollBegins(u) \/ SubmitBatch(u)

Next == WorkerStep \/ HandlerStep \/ Request \/ ReloadIndex \/ Restart

Spec == Init /\ [][Next]_vars

---------------------------------------------------------------------------
(* Every position with a name has a face, and it is the face of that name. *)
MapNamesOwners ==
    \A p \in DOMAIN user_map : p \in DOMAIN index /\ index[p] = user_map[p]

(* A student becomes recognisable only by an operation for that student or *)
(* while actively registered: nothing brings back a deleted one in passing.*)
OnlyEnrolmentNames ==
    [][\A u \in Users :
          u \notin Range(user_map) /\ u \in Range(user_map') =>
              reg[u] = "active" \/ u \in {loop.user, worker.user}]_vars

(* Whatever happened to index, file and map before, after a restart every  *)
(* student with an active registration has a position of their own.        *)
Recognisable(u) ==
    \E p \in DOMAIN user_map : p \in DOMAIN index /\ {user_map[p], index[p]} = {u}
RestartHeals ==
    [][Restart =>
          (MapNamesOwners /\ \A r \in ActiveRows : Recognisable(r.user))']_vars

=============================================================================
