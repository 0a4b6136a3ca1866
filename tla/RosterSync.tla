------------------------------ MODULE RosterSync ------------------------------
(***************************************************************************)
(* The on-premises database (the "Mac") pushes all of its staff, rooms and *)
(* schedules to the public server (the "VPS") every few minutes.  A table  *)
(* maps a primary key to what the database keeps unique or refers to: a    *)
(* user's email, a room's name, a schedule's teacher and room.             *)
(* faculty_records are synchronised as rooms are, and nothing refers to    *)
(* them.                                                                   *)
(***************************************************************************)
EXTENDS Naturals, FiniteSets, Functions

CONSTANTS
    UserIds, RoomIds, ScheduleIds,  \* bounds: primary keys, in their order
    Emails, Names,
    MaxEdits,                       \* bound: changes made on the Mac
    MaxInFlight                     \* bound: pushes the VPS has not answered

ASSUME SyncAssumption ==
    /\ UserIds \cup RoomIds \cup ScheduleIds \subseteq Nat
    /\ {} \notin {RoomIds, ScheduleIds, Names}
    /\ {MaxEdits, MaxInFlight} \subseteq Nat

VARIABLES
    mac,        \* the on-premises tables
    vps,        \* the public server's
    sender,     \* run_vps_sync: idle, between its queries, or awaiting an answer
    parents,    \* the users and rooms it has read
    requests,   \* pushes under way, the one awaited and ones given up on
    edits       \* changes made so far
vars == <<mac, vps, sender, parents, requests, edits>>

\* Rows written over a table, and a table of one row.
Over(new, old) ==
    [k \in DOMAIN new \cup DOMAIN old |-> IF k \in DOMAIN new THEN new[k] ELSE old[k]]
One(key, row) == [k \in {key} |-> row]

Empty == [users |-> <<>>, rooms |-> <<>>, schedules |-> <<>>]

(* What the database itself enforces: unique columns and foreign keys.     *)
Sound(db) ==
    /\ IsInjective(db.users) /\ IsInjective(db.rooms)
    /\ \A s \in DOMAIN db.schedules :
           db.schedules[s].faculty \in DOMAIN db.users /\ db.schedules[s].room \in DOMAIN db.rooms

Tables(db) ==
    /\ DOMAIN db.users \subseteq UserIds /\ Range(db.users) \subseteq Emails
    /\ DOMAIN db.rooms \subseteq RoomIds /\ Range(db.rooms) \subseteq Names
    /\ DOMAIN db.schedules \subseteq ScheduleIds
    /\ Range(db.schedules) \subseteq [faculty : UserIds, room : RoomIds]

TypeOK ==
    /\ Tables(mac) /\ Sound(mac)
    /\ Tables(vps) /\ Sound(vps)
    /\ sender \in {"idle", "read", "wait"}
    /\ DOMAIN parents \subseteq {"users", "rooms"}
    /\ \A r \in requests : Tables(r)
    /\ edits \in 0..MaxEdits

(* The Mac is new or in use.  The VPS is new, in step, or seeded by a      *)
(* script of its own, which makes keys of its own.                         *)
InUse(user, email) ==
    LET room == CHOOSE r \in RoomIds : TRUE IN
    [users |-> One(user, email),
     rooms |-> One(room, CHOOSE n \in Names : TRUE),
     schedules |-> One(CHOOSE s \in ScheduleIds : TRUE, [faculty |-> user, room |-> room])]
Init ==
    /\ \E u \in UserIds, email \in Emails :
           /\ mac \in {Empty, InUse(u, email)}
           /\ \/ vps \in {Empty, mac}
              \/ \E v \in UserIds \ {u}, key \in Emails : vps = [Empty EXCEPT !.users = One(v, key)]
    /\ sender = "idle" /\ parents = <<>> /\ requests = {} /\ edits = 0

---------------------------------------------------------------------------
(* Changes on the Mac.  Rows are only deleted by scripts: through the API  *)
(* users, rooms and schedules are deactivated and stay.                    *)
Edits(db) ==
    /\ edits < MaxEdits /\ edits' = edits + 1
    /\ db # mac /\ Sound(db) /\ mac' = db
    /\ UNCHANGED <<vps, sender, parents, requests>>

SaveUser == \E u \in UserIds, e \in Emails : Edits([mac EXCEPT !.users = Over(One(u, e), @)])
SaveRoom == \E r \in RoomIds, n \in Names : Edits([mac EXCEPT !.rooms = Over(One(r, n), @)])
SaveSchedule ==
    \E s \in ScheduleIds, u \in UserIds, r \in RoomIds :
        Edits([mac EXCEPT !.schedules = Over(One(s, [faculty |-> u, room |-> r]), @)])
DeleteUser ==
    \E u \in DOMAIN mac.users : Edits([mac EXCEPT !.users = Restrict(@, DOMAIN @ \ {u})])

---------------------------------------------------------------------------
(* run_vps_sync: one at a time.  Each table is read by a query of its own, *)
(* and other connections commit between them.                              *)
ReadParents ==
    /\ sender = "idle" /\ sender' = "read"
    /\ parents' = [users |-> mac.users, rooms |-> mac.rooms]
    /\ UNCHANGED <<mac, vps, requests, edits>>

Push ==
    /\ sender = "read" /\ Cardinality(requests) < MaxInFlight
    /\ sender' = "wait" /\ parents' = <<>>
    /\ requests' = requests \cup
           {[users |-> parents.users, rooms |-> parents.rooms, schedules |-> mac.schedules]}
    /\ UNCHANGED <<mac, vps, edits>>

(* The sender's timeout: the VPS may yet receive and apply what it sent.   *)
TimeOut ==
    /\ sender = "wait" /\ sender' = "idle"
    /\ UNCHANGED <<mac, vps, parents, requests, edits>>

Lose ==
    /\ \E r \in requests : requests' = requests \ {r}
    /\ sender' = IF sender = "wait" THEN "idle" ELSE sender
    /\ UNCHANGED <<mac, vps, parents, edits>>

---------------------------------------------------------------------------
(* upsert_sync.  A flush writes updates before inserts, rows in the order  *)
(* of their keys, and the database compares each with the table as it is   *)
(* at that moment.                                                         *)
Earlier(table, j, k) ==
    IF (j \in DOMAIN table) = (k \in DOMAIN table) THEN j < k ELSE j \in DOMAIN table
Written(table, incoming) ==
    \A k \in DOMAIN incoming : \A j \in (DOMAIN table \cup DOMAIN incoming) \ {k} :
        IF j \in DOMAIN incoming /\ Earlier(table, j, k)
        THEN incoming[j] # incoming[k]
        ELSE j \in DOMAIN table => table[j] # incoming[k]

(* _delete_stale_*: an empty table takes nothing away.                     *)
\* Faulty variant: rows that are not in the push stay.
KeptAll(table, incoming) == table
Kept(table, incoming) ==
    IF incoming = <<>> THEN table ELSE Restrict(table, DOMAIN table \cap DOMAIN incoming)

\* Faulty variant: users are kept by the keys of the rooms.
AppliedMixed(db, r) ==
    LET users == Over(r.users, db.users)
        rooms == Over(r.rooms, db.rooms)
        schedules == Over(r.schedules, db.schedules) IN
    [users |-> Kept(users, r.rooms), rooms |-> Kept(rooms, r.rooms),
     schedules |-> Kept(schedules, r.schedules)]

Applied(db, r) ==
    LET users == Over(r.users, db.users)
        rooms == Over(r.rooms, db.rooms)
        schedules == Over(r.schedules, db.schedules) IN
    [users |-> Kept(users, r.users), rooms |-> Kept(rooms, r.rooms),
     schedules |-> Kept(schedules, r.schedules)]

(* Every check of the database, in one transaction: the unique columns as  *)
(* the rows are written, the foreign keys as children are written and      *)
(* parents deleted.                                                        *)
Accepted(db, r) ==
    /\ r.users # <<>>
    /\ Written(db.users, r.users) /\ Written(db.rooms, r.rooms)
    /\ Sound(Applied(db, r))

UpsertSync ==
    /\ \E r \in requests :
           /\ requests' = requests \ {r}
           /\ vps' = IF Accepted(vps, r) THEN Applied(vps, r) ELSE vps
    /\ sender' \in {sender} \cup (IF sender = "wait" THEN {"idle"} ELSE {})
    /\ UNCHANGED <<mac, parents, edits>>

Edit == SaveUser \/ SaveRoom \/ SaveSchedule \/ DeleteUser
Next == Edit \/ ReadParents \/ Push \/ TimeOut \/ Lose \/ UpsertSync

Spec == Init /\ [][Next]_vars

(* The job fires every interval, its request is answered or times out, and *)
(* a link that goes on being tried gets a push through now and then.       *)
Fairness ==
    /\ WF_vars(ReadParents) /\ WF_vars(Push) /\ WF_vars(TimeOut)
    /\ SF_vars(UpsertSync)
FairSpec == Spec /\ Fairness

---------------------------------------------------------------------------
(* A push never leaves the public server without an account to sign in     *)
(* with, however broken, late or old it is.                                *)
NeverWiped == [][vps.users # <<>> => vps'.users # <<>>]_vars

(* Once the Mac is quiet the VPS mirrors it, whatever was lost, given up   *)
(* on, torn between two queries or overtaken; except where the VPS holds   *)
(* an email or a name under another key than the Mac, or where the Mac     *)
(* has a table that is empty.                                              *)
Clash ==
    \/ \E i \in DOMAIN mac.users, j \in DOMAIN vps.users : i # j /\ mac.users[i] = vps.users[j]
    \/ \E i \in DOMAIN mac.rooms, j \in DOMAIN vps.rooms : i # j /\ mac.rooms[i] = vps.rooms[j]
Incomplete == mac.users = <<>> \/ mac.rooms = <<>> \/ mac.schedules = <<>>
Converges == <>[](vps = mac \/ Clash \/ Incomplete)

(* Said by the source and not so: "any row created directly on the VPS     *)
(* that isn't in the next push is deleted" (config.py:897).  A row with an *)
(* email of the Mac's under another key, as the seed script makes them,    *)
(* fails that push and every later one: the upserts come first.            *)
Mirrored == <>[](vps = mac \/ Incomplete)

=============================================================================
