-------------------------- MODULE RosterSyncProofs --------------------------
(***************************************************************************)
(* Both databases stay sound, and no push leaves the public server without *)
(* accounts, for any keys, emails, rooms, edits and pushes in flight.      *)
(***************************************************************************)
EXTENDS RosterSync, TLAPS

-----------------------------------------------------------------------------
(* Tables                                                                   *)

Partial(S, T) == UNION {[D -> T] : D \in SUBSET S}

ParentType == [users : Partial(UserIds, Emails), rooms : Partial(RoomIds, Names)]
DbType == [users : Partial(UserIds, Emails), rooms : Partial(RoomIds, Names),
           schedules : Partial(ScheduleIds, [faculty : UserIds, room : RoomIds])]

LEMMA PartialFacts ==
    ASSUME NEW S, NEW T, NEW f \in Partial(S, T)
    PROVE  /\ DOMAIN f \subseteq S /\ f = [x \in DOMAIN f |-> f[x]]
           /\ \A x \in DOMAIN f : f[x] \in T
           /\ Range(f) \subseteq T
BY DEF Partial, Range

LEMMA OverType ==
    ASSUME NEW S, NEW T, NEW f \in Partial(S, T), NEW g \in Partial(S, T)
    PROVE  /\ Over(f, g) \in Partial(S, T)
           /\ DOMAIN Over(f, g) = DOMAIN f \cup DOMAIN g
<1>1. /\ DOMAIN f \subseteq S /\ DOMAIN g \subseteq S
      /\ \A x \in DOMAIN f : f[x] \in T
      /\ \A x \in DOMAIN g : g[x] \in T
  BY PartialFacts
<1>2. Over(f, g) \in [DOMAIN f \cup DOMAIN g -> T]
  BY <1>1 DEF Over
<1>3. DOMAIN f \cup DOMAIN g \in SUBSET S
  BY <1>1
<1> QED
  BY <1>2, <1>3 DEF Partial

LEMMA OneType ==
    ASSUME NEW S, NEW T, NEW k \in S, NEW row \in T
    PROVE  One(k, row) \in Partial(S, T) /\ IsInjective(One(k, row))
           /\ DOMAIN One(k, row) = {k} /\ One(k, row)[k] = row
<1>1. One(k, row) \in [{k} -> T] /\ {k} \in SUBSET S
  BY DEF One
<1> QED
  BY <1>1 DEF Partial, One, IsInjective

LEMMA RestrictType ==
    ASSUME NEW S, NEW T, NEW f \in Partial(S, T), NEW D \in SUBSET DOMAIN f
    PROVE  Restrict(f, D) \in Partial(S, T) /\ DOMAIN Restrict(f, D) = D
<1>1. DOMAIN f \subseteq S /\ \A x \in DOMAIN f : f[x] \in T
  BY PartialFacts
<1>2. Restrict(f, D) \in [D -> T] /\ D \in SUBSET S
  BY <1>1 DEF Restrict
<1> QED
  BY <1>2 DEF Partial

LEMMA KeptType ==
    ASSUME NEW S, NEW T, NEW f \in Partial(S, T), NEW g \in Partial(S, T)
    PROVE  Kept(f, g) \in Partial(S, T)
<1>1. DOMAIN f \cap DOMAIN g \in SUBSET DOMAIN f
  OBVIOUS
<1> QED
  BY <1>1, RestrictType DEF Kept

LEMMA EmptyTable ==
    ASSUME NEW S, NEW T
    PROVE  <<>> \in Partial(S, T) /\ IsInjective(<<>>)
<1>1. <<>> \in [{} -> T]
  OBVIOUS
<1> QED
  BY <1>1 DEF Partial, IsInjective

\* What is not the empty table has a row.
LEMMA NonEmptyTable ==
    ASSUME NEW S, NEW T, NEW f \in Partial(S, T)
    PROVE  f # <<>> <=> DOMAIN f # {}
<1>1. f = [x \in DOMAIN f |-> f[x]]
  BY PartialFacts
<1>2. DOMAIN f = {} => f = <<>>
  BY <1>1
<1>3. f = <<>> => DOMAIN f = {}
  OBVIOUS
<1> QED
  BY <1>2, <1>3

LEMMA AppliedType ==
    ASSUME NEW db \in DbType, NEW r \in DbType
    PROVE  Applied(db, r) \in DbType
<1>1. /\ db.users \in Partial(UserIds, Emails) /\ r.users \in Partial(UserIds, Emails)
      /\ db.rooms \in Partial(RoomIds, Names) /\ r.rooms \in Partial(RoomIds, Names)
      /\ db.schedules \in Partial(ScheduleIds, [faculty : UserIds, room : RoomIds])
      /\ r.schedules \in Partial(ScheduleIds, [faculty : UserIds, room : RoomIds])
  BY DEF DbType
<1>2. Kept(Over(r.users, db.users), r.users) \in Partial(UserIds, Emails)
  BY <1>1, OverType, KeptType
<1>3. Kept(Over(r.rooms, db.rooms), r.rooms) \in Partial(RoomIds, Names)
  BY <1>1, OverType, KeptType
<1>4. Kept(Over(r.schedules, db.schedules), r.schedules)
        \in Partial(ScheduleIds, [faculty : UserIds, room : RoomIds])
  BY <1>1, OverType, KeptType
<1> QED
  BY <1>2, <1>3, <1>4 DEF Applied, DbType

\* An accepted push keeps at least the accounts it contains.
LEMMA AcceptedKeepsUsers ==
    ASSUME NEW db \in DbType, NEW r \in DbType, Accepted(db, r)
    PROVE  Applied(db, r).users # <<>>
<1>1. db.users \in Partial(UserIds, Emails) /\ r.users \in Partial(UserIds, Emails)
  BY DEF DbType
<1>2. DOMAIN r.users # {} /\ r.users # <<>>
  BY <1>1, NonEmptyTable DEF Accepted
<1> DEFINE written == Over(r.users, db.users)
<1>3. DOMAIN written = DOMAIN r.users \cup DOMAIN db.users
  BY DEF Over
<1>4. Applied(db, r).users = Restrict(written, DOMAIN written \cap DOMAIN r.users)
  BY <1>2 DEF Applied, Kept
<1> HIDE DEF written
<1>5. DOMAIN written \cap DOMAIN r.users = DOMAIN r.users
  BY <1>3
<1>6. DOMAIN Applied(db, r).users = DOMAIN r.users
  BY <1>4, <1>5 DEF Restrict
<1> QED
  BY <1>2, <1>6

-----------------------------------------------------------------------------
(* The inductive invariant                                                  *)

SyncInv ==
    /\ mac \in DbType /\ Sound(mac)
    /\ vps \in DbType /\ Sound(vps)
    /\ requests \subseteq DbType
    /\ sender \in {"idle", "read", "wait"}
    /\ parents \in ParentType \cup {<<>>}
    /\ sender = "read" => parents \in ParentType
    /\ edits \in 0..MaxEdits

LEMMA DbIsTables ==
    ASSUME NEW db \in DbType
    PROVE  Tables(db)
<1>1. /\ db.users \in Partial(UserIds, Emails) /\ db.rooms \in Partial(RoomIds, Names)
      /\ db.schedules \in Partial(ScheduleIds, [faculty : UserIds, room : RoomIds])
  BY DEF DbType
<1>2. DOMAIN db.users \subseteq UserIds /\ Range(db.users) \subseteq Emails
  BY <1>1, PartialFacts
<1>3. DOMAIN db.rooms \subseteq RoomIds /\ Range(db.rooms) \subseteq Names
  BY <1>1, PartialFacts
<1>4. /\ DOMAIN db.schedules \subseteq ScheduleIds
      /\ Range(db.schedules) \subseteq [faculty : UserIds, room : RoomIds]
  <2> DEFINE rows == [faculty : UserIds, room : RoomIds]
  <2>1. db.schedules \in Partial(ScheduleIds, rows)
    BY <1>1
  <2> HIDE DEF rows
  <2>2. DOMAIN db.schedules \subseteq ScheduleIds /\ Range(db.schedules) \subseteq rows
    BY <2>1, PartialFacts
  <2> QED
    BY <2>2 DEF rows
<1> QED
  BY <1>2, <1>3, <1>4 DEF Tables

LEMMA InvImpliesType == SyncInv => TypeOK
<1>1. ASSUME parents \in ParentType \cup {<<>>} PROVE DOMAIN parents \subseteq {"users", "rooms"}
  BY <1>1 DEF ParentType
<1> QED
  BY <1>1, DbIsTables DEF SyncInv, TypeOK

LEMMA InitInv == Init => SyncInv
<1> SUFFICES ASSUME Init PROVE SyncInv
  OBVIOUS
<1>1. PICK u \in UserIds, email \in Emails :
        /\ mac \in {Empty, InUse(u, email)}
        /\ \/ vps \in {Empty, mac}
           \/ \E v \in UserIds \ {u}, key \in Emails : vps = [Empty EXCEPT !.users = One(v, key)]
  BY DEF Init
<1> DEFINE room == CHOOSE r \in RoomIds : TRUE
           name == CHOOSE n \in Names : TRUE
           schedule == CHOOSE s \in ScheduleIds : TRUE
<1>2. room \in RoomIds /\ name \in Names /\ schedule \in ScheduleIds
  BY SyncAssumption DEF SyncAssumption
<1>3. Empty \in DbType /\ Sound(Empty)
  BY EmptyTable DEF Empty, DbType, Sound
<1>4. InUse(u, email) \in DbType /\ Sound(InUse(u, email))
  <2> DEFINE row == [faculty |-> u, room |-> room]
  <2>1. InUse(u, email) = [users |-> One(u, email), rooms |-> One(room, name),
                           schedules |-> One(schedule, row)]
    BY DEF InUse
  <2>2. row \in [faculty : UserIds, room : RoomIds]
    BY <1>2
  <2> HIDE DEF room, name, schedule
  <2>3. /\ One(u, email) \in Partial(UserIds, Emails) /\ IsInjective(One(u, email))
        /\ DOMAIN One(u, email) = {u}
    BY OneType
  <2>4. /\ One(room, name) \in Partial(RoomIds, Names) /\ IsInjective(One(room, name))
        /\ DOMAIN One(room, name) = {room}
    BY <1>2, OneType
  <2>5. /\ One(schedule, row) \in Partial(ScheduleIds, [faculty : UserIds, room : RoomIds])
        /\ DOMAIN One(schedule, row) = {schedule} /\ One(schedule, row)[schedule] = row
    <3> HIDE DEF row
    <3> QED
      BY <1>2, <2>2, OneType
  <2> QED
    BY <2>1, <2>3, <2>4, <2>5 DEF DbType, Sound
<1>5. ASSUME NEW v \in UserIds, NEW key \in Emails
      PROVE  /\ [Empty EXCEPT !.users = One(v, key)] \in DbType
             /\ Sound([Empty EXCEPT !.users = One(v, key)])
  <2>1. [Empty EXCEPT !.users = One(v, key)]
          = [users |-> One(v, key), rooms |-> <<>>, schedules |-> <<>>]
    BY DEF Empty
  <2>2. One(v, key) \in Partial(UserIds, Emails) /\ IsInjective(One(v, key))
    BY OneType
  <2>3. /\ <<>> \in Partial(RoomIds, Names) /\ IsInjective(<<>>)
        /\ <<>> \in Partial(ScheduleIds, [faculty : UserIds, room : RoomIds])
    BY EmptyTable
  <2>4. [users |-> One(v, key), rooms |-> <<>>, schedules |-> <<>>] \in DbType
    BY <2>2, <2>3 DEF DbType
  <2>5. Sound([users |-> One(v, key), rooms |-> <<>>, schedules |-> <<>>])
    BY <2>2, <2>3 DEF Sound
  <2> QED
    BY <2>1, <2>4, <2>5
<1>6. edits = 0 /\ 0 \in 0..MaxEdits
  BY SyncAssumption DEF Init, SyncAssumption
<1> QED
  BY <1>1, <1>3, <1>4, <1>5, <1>6 DEF Init, SyncInv

LEMMA EditsInv ==
    ASSUME SyncInv, NEW db \in DbType, Edits(db)
    PROVE  SyncInv'
<1>1. edits' \in 0..MaxEdits
  BY SyncAssumption DEF SyncAssumption, Edits, SyncInv
<1> QED
  BY <1>1 DEF Edits, SyncInv

LEMMA EditStep ==
    ASSUME SyncInv, Edit
    PROVE  SyncInv'
<1>0. /\ mac \in DbType
      /\ mac.users \in Partial(UserIds, Emails) /\ mac.rooms \in Partial(RoomIds, Names)
      /\ mac.schedules \in Partial(ScheduleIds, [faculty : UserIds, room : RoomIds])
  BY DEF SyncInv, DbType
<1>1. CASE SaveUser
  <2>1. PICK u \in UserIds, e \in Emails : Edits([mac EXCEPT !.users = Over(One(u, e), @)])
    BY <1>1 DEF SaveUser
  <2>2. Over(One(u, e), mac.users) \in Partial(UserIds, Emails)
    BY <1>0, OneType, OverType
  <2>3. [mac EXCEPT !.users = Over(One(u, e), @)] \in DbType
    BY <1>0, <2>2 DEF DbType
  <2> QED
    BY <2>1, <2>3, EditsInv
<1>2. CASE SaveRoom
  <2>1. PICK r \in RoomIds, n \in Names : Edits([mac EXCEPT !.rooms = Over(One(r, n), @)])
    BY <1>2 DEF SaveRoom
  <2>2. Over(One(r, n), mac.rooms) \in Partial(RoomIds, Names)
    BY <1>0, OneType, OverType
  <2>3. [mac EXCEPT !.rooms = Over(One(r, n), @)] \in DbType
    BY <1>0, <2>2 DEF DbType
  <2> QED
    BY <2>1, <2>3, EditsInv
<1>3. CASE SaveSchedule
  <2>1. PICK s \in ScheduleIds, u \in UserIds, r \in RoomIds :
          Edits([mac EXCEPT !.schedules = Over(One(s, [faculty |-> u, room |-> r]), @)])
    BY <1>3 DEF SaveSchedule
  <2>2. [faculty |-> u, room |-> r] \in [faculty : UserIds, room : RoomIds]
    OBVIOUS
  <2>3. Over(One(s, [faculty |-> u, room |-> r]), mac.schedules)
          \in Partial(ScheduleIds, [faculty : UserIds, room : RoomIds])
    BY <1>0, <2>2, OneType, OverType
  <2>4. [mac EXCEPT !.schedules = Over(One(s, [faculty |-> u, room |-> r]), @)] \in DbType
    BY <1>0, <2>3 DEF DbType
  <2> QED
    BY <2>1, <2>4, EditsInv
<1>4. CASE DeleteUser
  <2>1. PICK u \in DOMAIN mac.users :
          Edits([mac EXCEPT !.users = Restrict(@, DOMAIN @ \ {u})])
    BY <1>4 DEF DeleteUser
  <2>2. Restrict(mac.users, DOMAIN mac.users \ {u}) \in Partial(UserIds, Emails)
    BY <1>0, RestrictType
  <2>3. [mac EXCEPT !.users = Restrict(@, DOMAIN @ \ {u})] \in DbType
    BY <1>0, <2>2 DEF DbType
  <2> QED
    BY <2>1, <2>3, EditsInv
<1> QED
  BY <1>1, <1>2, <1>3, <1>4 DEF Edit

LEMMA SyncStep == SyncInv /\ [Next]_vars => SyncInv'
<1> SUFFICES ASSUME SyncInv, [Next]_vars PROVE SyncInv'
  OBVIOUS
<1>0. mac \in DbType /\ vps \in DbType /\ requests \subseteq DbType
  BY DEF SyncInv
<1>1. CASE ReadParents
  <2>1. [users |-> mac.users, rooms |-> mac.rooms] \in ParentType
    BY <1>0 DEF DbType, ParentType
  <2> QED
    BY <1>1, <2>1 DEF ReadParents, SyncInv
<1>2. CASE Push
  <2>1. parents \in ParentType
    BY <1>2 DEF Push, SyncInv
  <2>2. [users |-> parents.users, rooms |-> parents.rooms, schedules |-> mac.schedules]
          \in DbType
    BY <1>0, <2>1 DEF ParentType, DbType
  <2> QED
    BY <1>2, <2>2 DEF Push, SyncInv
<1>3. CASE TimeOut
  BY <1>3 DEF TimeOut, SyncInv
<1>4. CASE Lose
  BY <1>4 DEF Lose, SyncInv
<1>5. CASE UpsertSync
  <2>1. PICK r \in requests :
          /\ requests' = requests \ {r}
          /\ vps' = IF Accepted(vps, r) THEN Applied(vps, r) ELSE vps
    BY <1>5 DEF UpsertSync
  <2>2. vps' \in DbType /\ Sound(vps')
    BY <1>0, <2>1, AppliedType DEF Accepted, SyncInv
  <2>3. sender' \in {sender, "idle"} /\ UNCHANGED <<mac, parents, edits>>
    BY <1>5 DEF UpsertSync
  <2> QED
    BY <2>1, <2>2, <2>3 DEF SyncInv
<1>6. CASE UNCHANGED vars
  BY <1>6 DEF vars, SyncInv
<1> QED
  BY <1>1, <1>2, <1>3, <1>4, <1>5, <1>6, EditStep DEF Next

\* Both databases keep their unique columns and foreign keys, through torn,
\* late and repeated pushes, for any keys and any number of edits.
THEOREM TypeCorrect == Spec => []TypeOK
BY InitInv, SyncStep, InvImpliesType, PTL DEF Spec

LEMMA PushesKeepUsers ==
    ASSUME SyncInv, [Next]_vars
    PROVE  vps.users # <<>> => vps'.users # <<>>
<1>1. CASE UpsertSync
  <2>1. PICK r \in requests : vps' = IF Accepted(vps, r) THEN Applied(vps, r) ELSE vps
    BY <1>1 DEF UpsertSync
  <2> QED
    BY <2>1, AcceptedKeepsUsers DEF SyncInv
<1>2. CASE ~UpsertSync
  <2>1. vps' = vps
    BY <1>2 DEF Next, vars, Edit, SaveUser, SaveRoom, SaveSchedule, DeleteUser, Edits,
                ReadParents, Push, TimeOut, Lose
  <2> QED
    BY <2>1
<1> QED
  BY <1>1, <1>2

\* No push leaves the public server without an account.
THEOREM PushesNeverWipe == Spec => NeverWiped
<1>1. SyncInv /\ [Next]_vars => [vps.users # <<>> => vps'.users # <<>>]_vars
  BY PushesKeepUsers
<1> QED
  BY <1>1, InitInv, SyncStep, PTL DEF Spec, NeverWiped

=============================================================================
