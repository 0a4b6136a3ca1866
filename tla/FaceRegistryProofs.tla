-------------------------- MODULE FaceRegistryProofs --------------------------
(***************************************************************************)
(* Theorems about FaceRegistry and FaceQueries, for any students, any      *)
(* number of positions, captures and announcements: the types with the     *)
(* flags of automatic enrolment, who may gain a name, what a restart       *)
(* repairs, and what an answer says before anything has been reloaded.     *)
(***************************************************************************)
EXTENDS FaceQueries, FiniteSetTheorems, WellFoundedInduction, TLAPS

Ops == {"register", "enroll", "deregister", "reregister"}
Steps == {"index", "commit", "save", "collect", "replace", "map"}

(* One row more never makes the next label undefined.                      *)
RowsBounded ==
    /\ IsFiniteSet(rows)
    /\ \E n \in Nat : \A r \in rows : r.label <= n

(* What a handler knows of the student it serves, and of the position it   *)
(* was given.                                                              *)
HandlerSound ==
    /\ loop \in [op : Ops \cup {"idle", "reload"}, user : Users \cup {None},
                 step : Steps \cup {""}, fid : Nat, owners : Seq(Users)]
    /\ loop.op \in Ops <=> loop.user \in Users
    /\ loop.op = "idle" <=> loop.step = ""
    /\ loop.op = "reload" <=> loop.step = "map"
    /\ loop.step \in {"commit", "save"} => loop.fid # 0
    /\ loop.op = "reregister" => upload[loop.user] < MaxUploads

(* What a rebuild has read is still true when the rebuild takes the lock.  *)
NothingStale ==
    loop.step = "replace" => \A u \in Range(loop.owners) : reg[u] = "active"

(* A student's batch is submitted once and committed once.                 *)
WorkerSound ==
    /\ worker \in [user : Users \cup {None}, fid : Nat, victims : SUBSET Nat,
                   step : {"idle", "evict", "index", "commit", "save"}, orphaned : BOOLEAN]
    /\ worker.user = None <=> worker.step = "idle"
    /\ worker.step \in {"commit", "save"} => worker.fid # 0
    /\ IsInjective(queue)
    /\ worker.user \notin Range(queue)

(* Only a reload takes the index and its map from two different places.    *)
NamesUntilReload ==
    /\ loop.op = "reload" => reloaded
    /\ ~reloaded => MapNamesOwners

FaceInv ==
    /\ TypeOK /\ RowsBounded /\ HandlerSound /\ NothingStale /\ WorkerSound
    /\ NamesUntilReload

---------------------------------------------------------------------------
(* Helpers.                                                                *)

(* A bounded set of numbers that is not empty has a greatest element, and  *)
(* Max is it.                                                              *)
LEMMA MaxIsGreatest ==
    ASSUME NEW S \in SUBSET Nat, S # {}, NEW n \in Nat, \A x \in S : x <= n
    PROVE  Max(S) \in S /\ \A x \in S : Max(S) >= x
<1> DEFINE Bounds == {m \in Nat : \A x \in S : x <= m}
<1>1. Bounds # {} /\ Bounds \subseteq Nat
  OBVIOUS
<1>2. PICK m \in Bounds : \A k \in Bounds : ~ (<<k, m>> \in OpToRel(<, Nat))
  <2> HIDE DEF Bounds
  <2> QED BY <1>1, NatLessThanWellFounded, WFMin
<1>3. m \in S
  <2>1. SUFFICES ASSUME m \notin S PROVE FALSE
    OBVIOUS
  <2>2. PICK y \in S : TRUE
    OBVIOUS
  <2>3. m \in Nat /\ m # 0 /\ \A x \in S : x <= m - 1
    BY <2>1, <2>2
  <2>4. m - 1 \in Bounds /\ m - 1 < m
    BY <2>3
  <2>5. <<m - 1, m>> \in OpToRel(<, Nat)
    BY <2>3, <2>4 DEF OpToRel
  <2> QED BY <1>2, <2>4, <2>5
<1>4. \E x \in S : \A y \in S : x >= y
  BY <1>2, <1>3
<1> HIDE DEF Bounds
<1> QED BY <1>4 DEF Max

LEMMA AppendToRange ==
    ASSUME NEW S, NEW s \in Seq(S), NEW x \in S
    PROVE  /\ Append(s, x) \in Seq(S)
           /\ Range(Append(s, x)) = Range(s) \cup {x}
           /\ IsInjective(s) /\ x \notin Range(s) => IsInjective(Append(s, x))
<1>1. /\ Append(s, x) \in Seq(S)
      /\ DOMAIN Append(s, x) = 1..(Len(s) + 1) /\ DOMAIN s = 1..Len(s) /\ Len(s) \in Nat
      /\ \A i \in 1..Len(s) : Append(s, x)[i] = s[i]
      /\ Append(s, x)[Len(s) + 1] = x
  OBVIOUS
<1>2. 1..(Len(s) + 1) = 1..Len(s) \cup {Len(s) + 1}
  BY <1>1
<1> QED BY <1>1, <1>2 DEF Range, IsInjective

LEMMA TailOfRange ==
    ASSUME NEW S, NEW s \in Seq(S), s # <<>>
    PROVE  /\ Head(s) \in S /\ Head(s) \in Range(s) /\ Tail(s) \in Seq(S)
           /\ Range(s) = Range(Tail(s)) \cup {Head(s)}
           /\ IsInjective(s) => IsInjective(Tail(s)) /\ Head(s) \notin Range(Tail(s))
<1>1. /\ Head(s) \in S /\ Head(s) = s[1] /\ Tail(s) \in Seq(S) /\ Len(s) \in Nat \ {0}
      /\ DOMAIN Tail(s) = 1..(Len(s) - 1) /\ DOMAIN s = 1..Len(s)
      /\ \A i \in 1..(Len(s) - 1) : Tail(s)[i] = s[i + 1]
  OBVIOUS
<1>2. Head(s) \in Range(s) /\ Range(Tail(s)) \subseteq Range(s)
  BY <1>1 DEF Range
<1>3. ASSUME NEW x \in Range(s) PROVE x \in Range(Tail(s)) \cup {Head(s)}
  <2>1. PICK i \in 1..Len(s) : x = s[i]
    BY <1>1 DEF Range
  <2>2. CASE i = 1
    BY <1>1, <2>1, <2>2
  <2>3. CASE i # 1
    <3>1. i - 1 \in 1..(Len(s) - 1) /\ Tail(s)[i - 1] = x
      BY <1>1, <2>1, <2>3
    <3> QED BY <3>1, <1>1 DEF Range
  <2> QED BY <2>2, <2>3
<1>4. ASSUME IsInjective(s) PROVE IsInjective(Tail(s)) /\ Head(s) \notin Range(Tail(s))
  <2>1. \A i, j \in 1..Len(s) : s[i] = s[j] => i = j
    BY <1>1, <1>4 DEF IsInjective
  <2>2. \A i, j \in 1..(Len(s) - 1) : s[i + 1] = s[j + 1] => i = j
    BY <1>1, <2>1
  <2>3. \A i \in 1..(Len(s) - 1) : s[i + 1] # s[1]
    BY <1>1, <2>1
  <2> QED BY <1>1, <2>2, <2>3 DEF IsInjective, Range
<1> QED BY <1>1, <1>2, <1>3, <1>4

(* What add_batch and remove make of the map.                              *)
LEMMA WithMap ==
    ASSUME NEW f, NEW p, NEW u
    PROVE  /\ DOMAIN With(f, p, u) = DOMAIN f \cup {p}
           /\ With(f, p, u)[p] = u
           /\ \A q \in DOMAIN f \ {p} : With(f, p, u)[q] = f[q]
           /\ Range(With(f, p, u)) \subseteq Range(f) \cup {u}
BY DEF With, Range

LEMMA WithoutMap ==
    ASSUME NEW f, NEW P
    PROVE  /\ DOMAIN Without(f, P) \subseteq DOMAIN f
           /\ \A q \in DOMAIN Without(f, P) : Without(f, P)[q] = f[q]
           /\ Range(Without(f, P)) \subseteq Range(f)
BY DEF Without, Range

LEMMA LabelsGrow ==
    ASSUME RowsBounded, rows \subseteq Row, NEW u \in Users
    PROVE  NextLabel(u) \in Nat
<1> DEFINE S == {Phone} \cup {r.label : r \in RowsOf(u)}
<1>1. S \in SUBSET Nat /\ S # {}
  BY DEF RowsOf, Row, Phone
<1>2. PICK n \in Nat : \A x \in S : x <= n
  BY DEF RowsBounded, RowsOf, Row, Phone
<1>3. Max(S) \in S
  <2> HIDE DEF S
  <2> QED BY <1>1, <1>2, MaxIsGreatest
<1> QED BY <1>1, <1>3 DEF NextLabel

LEMMA RowWritten ==
    ASSUME RowsBounded, rows \subseteq Row, NEW R \in SUBSET rows, NEW r \in Row,
           rows' = R \cup {r}
    PROVE  RowsBounded' /\ (rows \subseteq Row)'
<1>1. IsFiniteSet(rows')
  BY FS_Subset, FS_AddElement DEF RowsBounded
<1>2. \E n \in Nat : \A x \in rows' : x.label <= n
  <2>1. PICK n \in Nat : \A x \in rows : x.label <= n
    BY DEF RowsBounded
  <2>2. CASE r.label <= n
    BY <2>1, <2>2
  <2>3. CASE ~(r.label <= n)
    <3>1. r.label \in Nat /\ \A x \in rows : x.label \in Nat
      BY DEF Row
    <3>2. \A x \in rows' : x.label <= r.label
      BY <2>1, <2>3, <3>1
    <3> QED BY <3>1, <3>2
  <2> QED BY <2>2, <2>3
<1> QED BY <1>1, <1>2 DEF RowsBounded

LEMMA RowsDropped ==
    ASSUME RowsBounded, rows \subseteq Row, rows' \subseteq rows
    PROVE  RowsBounded' /\ (rows \subseteq Row)'
BY FS_Subset DEF RowsBounded

(* A rebuild reads an owner for every active row, and nothing else.        *)
LEMMA CollectedRows ==
    ASSUME RowsBounded, rows \subseteq Row, NEW owners \in Collected
    PROVE  /\ owners \in Seq(Users)
           /\ Range(owners) = {r.user : r \in ActiveRows}
<1>1. IsFiniteSet(ActiveRows) /\ Cardinality(ActiveRows) \in Nat
  BY FS_Subset, FS_CardinalityType DEF RowsBounded, ActiveRows
<1> DEFINE n == Cardinality(ActiveRows)
<1>2. PICK order \in SetToSeqs(ActiveRows) : owners = OwnersOf(order)
  BY DEF Collected
<1>3. order \in [1..n -> ActiveRows] /\ \A i, j \in 1..n : i # j => order[i] # order[j]
  BY <1>2 DEF SetToSeqs
<1>4. order \in Injection(1..n, ActiveRows)
  BY <1>3 DEF Injection, IsInjective
<1>5. Cardinality(1..n) = n
  BY <1>1, FS_Interval
<1>6. order \in Surjection(1..n, ActiveRows)
  BY <1>1, <1>4, <1>5, FS_Injection
<1>7. \A r \in ActiveRows : \E i \in 1..n : order[i] = r
  BY <1>6 DEF Surjection
<1>8. DOMAIN owners = 1..n /\ \A i \in 1..n : owners[i] = order[i].user
  BY <1>2, <1>3 DEF OwnersOf
<1>9. \A i \in 1..n : owners[i] \in Users
  BY <1>3, <1>8 DEF ActiveRows, Row
<1>10. owners = [i \in 1..n |-> owners[i]]
  BY <1>2, <1>3, <1>8 DEF OwnersOf
<1>11. owners \in Seq(Users)
  <2> HIDE DEF n
  <2>1. n \in Nat
    BY <1>1 DEF n
  <2>2. [i \in 1..n |-> owners[i]] \in Seq(Users)
    BY <1>9, <2>1
  <2> QED BY <1>10, <2>2
<1>12. Range(owners) = {r.user : r \in ActiveRows}
  BY <1>3, <1>7, <1>8 DEF Range
<1> QED BY <1>11, <1>12

---------------------------------------------------------------------------
(* The position of a new vector is the next of the index, whatever the map *)
(* has forgotten: a name is put to the face that was added.                *)
LEMMA VectorAdded ==
    ASSUME TypeOK, NEW u \in Users, AddVector(u)
    PROVE  /\ index' \in Seq(Users)
           /\ (DOMAIN user_map \subseteq Nat \ {0} /\ Range(user_map) \subseteq Users)'
           /\ MapNamesOwners => MapNamesOwners'
           /\ Range(user_map') \subseteq Range(user_map) \cup {u}
           /\ NextPosition \in Nat \ {0}
<1>1. /\ index' = Append(index, u) /\ index \in Seq(Users)
      /\ user_map' = With(user_map, NextPosition, u)
  BY DEF AddVector, TypeOK
<1>2. /\ index' \in Seq(Users) /\ Len(index) \in Nat /\ NextPosition = Len(index) + 1
      /\ DOMAIN index = 1..Len(index) /\ DOMAIN index' = 1..(Len(index) + 1)
      /\ \A i \in 1..Len(index) : index'[i] = index[i]
      /\ index'[Len(index) + 1] = u
  BY <1>1 DEF NextPosition
<1>3. /\ DOMAIN user_map' = DOMAIN user_map \cup {NextPosition}
      /\ user_map'[NextPosition] = u
      /\ \A q \in DOMAIN user_map \ {NextPosition} : user_map'[q] = user_map[q]
      /\ Range(user_map') \subseteq Range(user_map) \cup {u}
  <2> DEFINE f == With(user_map, NextPosition, u)
  <2>1. /\ DOMAIN f = DOMAIN user_map \cup {NextPosition}
        /\ f[NextPosition] = u
        /\ \A q \in DOMAIN user_map \ {NextPosition} : f[q] = user_map[q]
        /\ Range(f) \subseteq Range(user_map) \cup {u}
    BY WithMap, Zenon
  <2> QED BY <1>1, <2>1
<1>4. ASSUME MapNamesOwners PROVE MapNamesOwners'
  <2>1. ASSUME NEW p \in DOMAIN user_map'
        PROVE  p \in DOMAIN index' /\ index'[p] = user_map'[p]
    <3>1. CASE p = NextPosition
      BY <1>2, <1>3, <3>1
    <3>2. CASE p # NextPosition
      <4>1. p \in DOMAIN index /\ index[p] = user_map[p] /\ user_map'[p] = user_map[p]
        BY <1>3, <1>4, <2>1, <3>2 DEF MapNamesOwners
      <4> QED BY <4>1, <1>2
    <3> QED BY <3>1, <3>2
  <2> QED BY <2>1 DEF MapNamesOwners
<1>5. (DOMAIN user_map \subseteq Nat \ {0} /\ Range(user_map) \subseteq Users)'
  BY <1>2, <1>3 DEF TypeOK
<1> QED BY <1>2, <1>3, <1>4, <1>5

LEMMA NamesForgotten ==
    ASSUME TypeOK, NEW P, user_map' = Without(user_map, P), index' = index
    PROVE  /\ (DOMAIN user_map \subseteq Nat \ {0} /\ Range(user_map) \subseteq Users)'
           /\ MapNamesOwners => MapNamesOwners'
BY WithoutMap DEF TypeOK, MapNamesOwners

(* A rebuild gives every position the name of its face.                    *)
LEMMA Rebuilt ==
    ASSUME NEW owners \in Seq(Users), ReplaceBy(owners)
    PROVE  /\ index' \in Seq(Users) /\ disk' \in Seq(Users)
           /\ (DOMAIN user_map \subseteq Nat \ {0} /\ Range(user_map) \subseteq Users)'
           /\ MapNamesOwners'
           /\ Range(user_map') = Range(owners)
<1>1. DOMAIN owners = 1..Len(owners) /\ Len(owners) \in Nat
  OBVIOUS
<1>2. Range(owners) \subseteq Users
  BY <1>1 DEF Range
<1> QED BY <1>1, <1>2 DEF ReplaceBy, MapNamesOwners

---------------------------------------------------------------------------
(* Steps.                                                                  *)

(* Who gains a name in a step.                                             *)
NamesGained ==
    \A u \in Users :
        u \notin Range(user_map) /\ u \in Range(user_map') =>
            reg[u] = "active" \/ u \in {loop.user, worker.user}

(* What a step leaves alone keeps what is known of it.                     *)
LEMMA Framed ==
    ASSUME FaceInv
    PROVE  /\ rows' = rows => RowsBounded'
           /\ loop' = loop /\ upload' = upload => HandlerSound'
           /\ loop' = loop /\ reg' = reg => NothingStale'
           /\ worker' = worker /\ queue' = queue => WorkerSound'
           /\ loop' = loop /\ reloaded' = reloaded /\ index' = index /\ user_map' = user_map
                => NamesUntilReload'
           /\ user_map' = user_map => NamesGained
BY DEF FaceInv, RowsBounded, HandlerSound, NothingStale, WorkerSound, NamesUntilReload,
       MapNamesOwners, NamesGained

LEMMA OrphanedBatch ==
    ASSUME WorkerSound, NEW u, worker' = Orphaned(u), queue' = queue
    PROVE  WorkerSound' /\ worker'.user = worker.user
BY DEF WorkerSound, Orphaned

(* A request that only begins an operation.                                *)
LEMMA Beginning ==
    ASSUME HandlerSound, NEW op \in Ops \cup {"reload"}, NEW u \in Users \cup {None},
           op \in Ops <=> u \in Users, NEW step \in Steps,
           op = "reload" <=> step = "map", step \notin {"commit", "save", "replace"},
           op = "reregister" => upload'[u] < MaxUploads,
           Begins(op, u, step)
    PROVE  HandlerSound' /\ NothingStale' /\ loop' = [op |-> op, user |-> u, step |-> step,
                                                      fid |-> 0, owners |-> <<>>]
<1>1. loop' = [op |-> op, user |-> u, step |-> step, fid |-> 0, owners |-> <<>>]
  BY DEF Begins
<1>2. <<>> \in Seq(Users)
  OBVIOUS
<1> QED BY <1>1, <1>2 DEF HandlerSound, NothingStale, Ops, Steps

LEMMA Finished ==
    ASSUME loop' = IdleLoop PROVE HandlerSound' /\ NothingStale'
<1>1. <<>> \in Seq(Users)
  OBVIOUS
<1> QED BY <1>1, FaceAssumption DEF IdleLoop, HandlerSound, NothingStale, Ops, Steps

LEMMA InitHolds == Init => FaceInv
<1> SUFFICES ASSUME Init PROVE FaceInv
  OBVIOUS
<1>1. TypeOK
  <2>1. DOMAIN <<>> = {} /\ <<>> \in Seq(Users) /\ Range(<<>>) = {}
    BY DEF Range
  <2>2. in_flight = Range(queue) \cup ({worker.user} \ {None})
    BY <2>1 DEF Init, IdleWorker
  <2>3. DOMAIN user_map \subseteq Nat \ {0} /\ Range(user_map) \subseteq Users
    BY <2>1 DEF Init
  <2>4. upload \in [Users -> 0..MaxUploads] /\ reg \in [Users -> {"none", "active", "inactive"}]
    BY FaceAssumption DEF Init
  <2>5. rows = {} /\ index = <<>> /\ disk = <<>> /\ notices = 0 /\ reloaded = FALSE /\ queue = <<>>
    BY DEF Init
  <2> QED BY <2>1, <2>2, <2>3, <2>4, <2>5 DEF TypeOK
<1>2. RowsBounded
  BY FS_EmptySet DEF Init, RowsBounded
<1>3. HandlerSound /\ NothingStale
  <2>1. <<>> \in Seq(Users)
    OBVIOUS
  <2> QED BY <2>1, FaceAssumption DEF Init, IdleLoop, HandlerSound, NothingStale, Ops, Steps
<1>4. WorkerSound
  BY FaceAssumption DEF Init, IdleWorker, WorkerSound, IsInjective, Range
<1>5. NamesUntilReload
  BY DEF Init, IdleLoop, NamesUntilReload, MapNamesOwners
<1> QED BY <1>1, <1>2, <1>3, <1>4, <1>5 DEF FaceInv

LEMMA RegisterChecksKeeps ==
    ASSUME FaceInv, NEW u \in Users, RegisterChecks(u) PROVE FaceInv' /\ NamesGained
<1> USE DEF RegisterChecks, stores, memory
<1>1. TypeOK'
  BY FaceAssumption DEF FaceInv, TypeOK
<1>2. HandlerSound'
  BY DEF FaceInv, HandlerSound, LoopFree
<1> QED BY <1>1, <1>2, Framed DEF FaceInv

LEMMA UploadEndsKeeps ==
    ASSUME FaceInv, NEW u \in Users, UploadEnds(u) PROVE FaceInv' /\ NamesGained
<1> USE DEF UploadEnds, stores, memory
<1>1. TypeOK'
  BY FaceAssumption DEF FaceInv, TypeOK
<1>2. HandlerSound' /\ NothingStale' /\ NamesUntilReload'
  <2>1. CASE Begins("register", u, "index")
    <3>1. HandlerSound' /\ NothingStale'
      BY <2>1, Beginning DEF FaceInv, Ops, Steps
    <3>2. NamesUntilReload'
      BY <2>1 DEF FaceInv, Begins, NamesUntilReload, MapNamesOwners
    <3> QED BY <3>1, <3>2
  <2>2. CASE UNCHANGED loop
    <3>1. HandlerSound'
      BY <2>2 DEF FaceInv, HandlerSound, LoopFree
    <3> QED BY <2>2, <3>1, Framed
  <2> QED BY <2>1, <2>2
<1> QED BY <1>1, <1>2, Framed DEF FaceInv

LEMMA DeregisterKeeps ==
    ASSUME FaceInv, NEW u \in Users, DeregisterBegins(u) PROVE FaceInv' /\ NamesGained
<1> USE DEF DeregisterBegins, memory, tasks
<1>1. TypeOK'
  BY DEF FaceInv, TypeOK
<1>2. HandlerSound' /\ NothingStale'
  BY Beginning DEF FaceInv, Ops, Steps
<1>3. NamesUntilReload'
  BY DEF FaceInv, Begins, NamesUntilReload, MapNamesOwners
<1> QED BY <1>1, <1>2, <1>3, Framed DEF FaceInv

LEMMA ReregisterKeeps ==
    ASSUME FaceInv, NEW u \in Users, ReregisterBegins(u) PROVE FaceInv' /\ NamesGained
<1> USE DEF ReregisterBegins, memory
<1>1. /\ reg' \in [Users -> {"none", "active", "inactive"}] /\ rows' \subseteq rows
      /\ worker' = worker \/ worker' = Orphaned(u)
  BY DEF FaceInv, TypeOK, RowsOf
<1>2. WorkerSound' /\ worker'.user = worker.user
  BY <1>1, OrphanedBatch DEF FaceInv, WorkerSound
<1>3. RowsBounded' /\ (rows \subseteq Row)'
  BY <1>1, RowsDropped DEF FaceInv, TypeOK
<1>4. TypeOK'
  BY <1>1, <1>2, <1>3 DEF FaceInv, TypeOK
<1>5. HandlerSound' /\ NothingStale'
  BY Beginning DEF FaceInv, Ops, Steps
<1>6. NamesUntilReload'
  BY DEF FaceInv, Begins, NamesUntilReload, MapNamesOwners
<1> QED BY <1>2, <1>3, <1>4, <1>5, <1>6, Framed DEF FaceInv

LEMMA EnrollBeginsKeeps ==
    ASSUME FaceInv, NEW u \in Users, EnrollBegins(u) PROVE FaceInv' /\ NamesGained
<1> USE DEF EnrollBegins, stores, memory, tasks
<1>1. TypeOK'
  BY DEF FaceInv, TypeOK
<1>2. HandlerSound' /\ NothingStale'
  BY Beginning DEF FaceInv, Ops, Steps
<1>3. NamesUntilReload'
  BY DEF FaceInv, Begins, NamesUntilReload, MapNamesOwners
<1> QED BY <1>1, <1>2, <1>3, Framed DEF FaceInv

LEMMA IndexKeeps ==
    ASSUME FaceInv, NEW op \in {"register", "enroll"}, Index(op) PROVE FaceInv' /\ NamesGained
<1> USE DEF Index, LoopAt, stores, tasks
<1>1. loop.user \in Users
  BY DEF FaceInv, HandlerSound, Ops
<1>2. /\ index' \in Seq(Users)
      /\ (DOMAIN user_map \subseteq Nat \ {0} /\ Range(user_map) \subseteq Users)'
      /\ MapNamesOwners => MapNamesOwners'
      /\ Range(user_map') \subseteq Range(user_map) \cup {loop.user}
      /\ NextPosition \in Nat \ {0}
  BY <1>1, VectorAdded DEF FaceInv
<1>3. TypeOK'
  BY <1>2 DEF FaceInv, TypeOK
<1>4. HandlerSound' /\ NothingStale'
  BY <1>2 DEF FaceInv, HandlerSound, NothingStale, Ops, Steps
<1>5. NamesUntilReload' /\ NamesGained
  BY <1>2 DEF FaceInv, NamesUntilReload, NamesGained
<1> QED BY <1>3, <1>4, <1>5, Framed DEF FaceInv

LEMMA CommitRegistrationKeeps ==
    ASSUME FaceInv, CommitRegistration PROVE FaceInv' /\ NamesGained
<1> USE DEF CommitRegistration, LoopAt, GoTo, memory
<1> DEFINE r == [user |-> loop.user, fid |-> loop.fid, label |-> Phone]
<1>1. r \in Row /\ loop.user \in Users
  BY DEF FaceInv, HandlerSound, Ops, Row, Phone
<1>2. rows' = (rows \ RowsOf(loop.user)) \cup {r}
  OBVIOUS
<1>3. RowsBounded' /\ (rows \subseteq Row)'
  <2> HIDE DEF r
  <2> QED BY <1>1, <1>2, RowWritten DEF FaceInv, TypeOK
<1>4. WorkerSound' /\ worker'.user = worker.user
  BY OrphanedBatch DEF FaceInv
<1>5. TypeOK'
  BY <1>1, <1>3, <1>4 DEF FaceInv, TypeOK
<1>6. HandlerSound' /\ NothingStale' /\ NamesUntilReload'
  BY DEF FaceInv, HandlerSound, NothingStale, NamesUntilReload, MapNamesOwners, Ops, Steps
<1> QED BY <1>3, <1>4, <1>5, <1>6, Framed DEF FaceInv

LEMMA CommitEnrolmentKeeps ==
    ASSUME FaceInv, CommitEnrolment PROVE FaceInv' /\ NamesGained
<1> USE DEF CommitEnrolment, LoopAt, GoTo, memory, tasks
<1> DEFINE r == [user |-> loop.user, fid |-> loop.fid, label |-> NextLabel(loop.user)]
<1>1. r \in Row
  <2>1. loop.user \in Users /\ loop.fid \in Nat \ {0}
    BY DEF FaceInv, HandlerSound, Ops
  <2>2. NextLabel(loop.user) \in Nat
    BY <2>1, LabelsGrow DEF FaceInv, TypeOK
  <2> QED BY <2>1, <2>2 DEF Row
<1>2. rows' = rows \cup {r}
  OBVIOUS
<1>3. RowsBounded' /\ (rows \subseteq Row)'
  <2> HIDE DEF r
  <2> QED BY <1>1, <1>2, RowWritten DEF FaceInv, TypeOK
<1>4. TypeOK'
  BY <1>3 DEF FaceInv, TypeOK
<1>5. HandlerSound' /\ NothingStale' /\ NamesUntilReload'
  BY DEF FaceInv, HandlerSound, NothingStale, NamesUntilReload, MapNamesOwners, Ops, Steps
<1> QED BY <1>3, <1>4, <1>5, Framed DEF FaceInv

LEMMA SaveKeeps ==
    ASSUME FaceInv, NEW op \in {"register", "enroll"}, Save(op) PROVE FaceInv' /\ NamesGained
<1> USE DEF Save, LoopAt, Done, tasks
<1>1. TypeOK'
  BY FaceAssumption DEF FaceInv, TypeOK, Announced
<1>2. HandlerSound' /\ NothingStale'
  BY Finished
<1>3. NamesUntilReload'
  BY DEF FaceInv, NamesUntilReload, MapNamesOwners, IdleLoop
<1> QED BY <1>1, <1>2, <1>3, Framed DEF FaceInv

LEMMA RollBackKeeps ==
    ASSUME FaceInv, NEW op \in {"register", "enroll"}, RollBack(op) PROVE FaceInv' /\ NamesGained
<1> USE DEF RollBack, LoopAt, GoTo, stores, tasks
<1>1. /\ (DOMAIN user_map \subseteq Nat \ {0} /\ Range(user_map) \subseteq Users)'
      /\ MapNamesOwners => MapNamesOwners'
  BY NamesForgotten DEF FaceInv
<1>2. TypeOK'
  BY <1>1 DEF FaceInv, TypeOK
<1>3. HandlerSound' /\ NothingStale'
  BY DEF FaceInv, HandlerSound, NothingStale, Ops, Steps
<1>4. NamesUntilReload' /\ NamesGained
  BY <1>1, WithoutMap DEF FaceInv, NamesUntilReload, NamesGained
<1> QED BY <1>2, <1>3, <1>4, Framed DEF FaceInv

LEMMA CollectKeeps ==
    ASSUME FaceInv, Collect PROVE FaceInv' /\ NamesGained
<1> USE DEF Collect, stores, memory, tasks
<1>1. PICK owners \in Collected :
        loop' = [loop EXCEPT !.step = "replace", !.owners = owners]
  OBVIOUS
<1>2. owners \in Seq(Users) /\ Range(owners) = {r.user : r \in ActiveRows}
  BY CollectedRows DEF FaceInv, TypeOK
<1>3. TypeOK'
  BY DEF FaceInv, TypeOK
<1>4. HandlerSound'
  BY <1>1, <1>2 DEF FaceInv, HandlerSound, Ops, Steps
<1>5. NothingStale'
  <2>1. loop'.owners = owners /\ reg' = reg
    BY <1>1 DEF FaceInv, HandlerSound
  <2>2. \A u \in Range(owners) : reg[u] = "active"
    BY <1>2 DEF ActiveRows
  <2> QED BY <2>1, <2>2 DEF NothingStale
<1>6. NamesUntilReload'
  BY <1>1 DEF FaceInv, HandlerSound, NamesUntilReload, MapNamesOwners
<1> QED BY <1>3, <1>4, <1>5, <1>6, Framed DEF FaceInv

LEMMA ReplaceKeeps ==
    ASSUME FaceInv, Replace PROVE FaceInv' /\ NamesGained
<1> USE DEF Replace, Done, stores
<1>1. loop.owners \in Seq(Users)
  BY DEF FaceInv, HandlerSound
<1>2. /\ index' \in Seq(Users) /\ disk' \in Seq(Users)
      /\ (DOMAIN user_map \subseteq Nat \ {0} /\ Range(user_map) \subseteq Users)'
      /\ MapNamesOwners'
      /\ Range(user_map') = Range(loop.owners)
  BY <1>1, Rebuilt
<1>3. upload' \in [Users -> 0..MaxUploads]
  <2>1. upload \in [Users -> 0..MaxUploads] /\ MaxUploads \in Nat
    BY FaceAssumption DEF FaceInv, TypeOK
  <2>2. CASE loop.op = "reregister"
    <3>1. loop.user \in Users /\ upload[loop.user] < MaxUploads
      BY <2>2 DEF FaceInv, HandlerSound, Ops
    <3>2. upload[loop.user] + 1 \in 0..MaxUploads
      BY <2>1, <3>1
    <3> QED BY <2>1, <2>2, <3>2
  <2> QED BY <2>1, <2>2
<1>4. TypeOK'
  BY <1>2, <1>3, FaceAssumption DEF FaceInv, TypeOK, Announced
<1>5. HandlerSound' /\ NothingStale'
  BY Finished
<1>6. NamesUntilReload' /\ NamesGained
  BY <1>2 DEF FaceInv, NamesUntilReload, NamesGained, NothingStale, IdleLoop
<1> QED BY <1>4, <1>5, <1>6, Framed DEF FaceInv

LEMMA ReloadKeeps ==
    ASSUME FaceInv, ReloadIndex PROVE FaceInv' /\ NamesGained
<1> USE DEF ReloadIndex, stores, tasks
<1>1. TypeOK'
  BY DEF FaceInv, TypeOK
<1>2. HandlerSound' /\ NothingStale'
  BY Beginning, FaceAssumption DEF FaceInv, Ops, Steps
<1>3. NamesUntilReload'
  BY DEF NamesUntilReload
<1> QED BY <1>1, <1>2, <1>3, Framed DEF FaceInv

LEMMA MapsKeep ==
    ASSUME FaceInv, rebuild_user_map_from_db PROVE FaceInv' /\ NamesGained
<1> USE DEF rebuild_user_map_from_db, LoopAt, Done, stores, tasks
<1>1. /\ DOMAIN user_map' \subseteq {r.fid : r \in ActiveRows}
      /\ Range(user_map') \subseteq {r.user : r \in ActiveRows}
  BY DEF MapsFrom, Range
<1>2. \A r \in ActiveRows : r.user \in Users /\ r.fid \in Nat \ {0} /\ reg[r.user] = "active"
  BY DEF FaceInv, TypeOK, Row, ActiveRows
<1>3. TypeOK'
  <2>1. (DOMAIN user_map \subseteq Nat \ {0} /\ Range(user_map) \subseteq Users)'
    BY <1>1, <1>2
  <2> QED BY <2>1 DEF FaceInv, TypeOK
<1>4. HandlerSound' /\ NothingStale'
  BY Finished
<1>5. NamesUntilReload' /\ NamesGained
  BY <1>1, <1>2 DEF FaceInv, NamesUntilReload, NamesGained, IdleLoop
<1> QED BY <1>3, <1>4, <1>5, Framed DEF FaceInv

LEMMA SubmitKeeps ==
    ASSUME FaceInv, NEW u \in Users, SubmitBatch(u) PROVE FaceInv' /\ NamesGained
<1> USE DEF SubmitBatch, stores, memory
<1>1. /\ queue' \in Seq(Users) /\ Range(queue') = Range(queue) \cup {u}
      /\ IsInjective(queue) /\ u \notin Range(queue) => IsInjective(queue')
  BY AppendToRange DEF FaceInv, TypeOK
<1>2. u \notin Range(queue) /\ u # worker.user
  BY FaceAssumption DEF FaceInv, TypeOK
<1>3. TypeOK'
  BY <1>1 DEF FaceInv, TypeOK
<1>4. WorkerSound'
  BY <1>1, <1>2 DEF FaceInv, WorkerSound
<1>5. HandlerSound'
  BY Framed
<1> QED BY <1>3, <1>4, <1>5, Framed DEF FaceInv

LEMMA WorkerBeginsKeeps ==
    ASSUME FaceInv, WorkerBegins PROVE FaceInv' /\ NamesGained
<1> USE DEF WorkerBegins, stores, memory
<1> DEFINE u == Head(queue)
<1>1. /\ u \in Users /\ u \in Range(queue) /\ queue' \in Seq(Users)
      /\ Range(queue) = Range(queue') \cup {u}
      /\ IsInjective(queue') /\ u \notin Range(queue')
  BY TailOfRange DEF FaceInv, TypeOK, WorkerSound
<1>2. in_flight = Range(queue) /\ worker.user = None
  BY FaceAssumption DEF FaceInv, TypeOK, WorkerSound
<1>3. None \notin Range(queue')
  <2>1. Range(queue') \subseteq Users
    BY <1>1 DEF Range
  <2> QED BY <2>1, FaceAssumption
<1>4. /\ WorkerSound'
      /\ in_flight' = Range(queue') \cup ({worker'.user} \ {None})
  <2>1. CASE WorkerEnds(u)
    <3>1. worker' = IdleWorker /\ in_flight' = in_flight \ {u}
      BY <2>1 DEF WorkerEnds
    <3>2. WorkerSound'
      BY <1>1, <1>3, <3>1 DEF WorkerSound, IdleWorker
    <3>3. in_flight' = Range(queue') \cup ({worker'.user} \ {None})
      BY <1>1, <1>2, <3>1 DEF IdleWorker
    <3> QED BY <3>2, <3>3
  <2>2. CASE ~WorkerEnds(u)
    <3>1. PICK victims \in {{}} \cup {{r} : r \in {x \in RowsOf(u) : x.label # Phone}} :
            /\ worker' = [user |-> u, step |-> "evict", fid |-> 0, orphaned |-> FALSE,
                          victims |-> {r.fid : r \in victims}]
            /\ in_flight' = in_flight
      BY <2>2
    <3>2. {r.fid : r \in victims} \in SUBSET Nat
      BY DEF FaceInv, TypeOK, RowsOf, Row
    <3>3. worker'.user = u /\ u # None
      BY <1>1, <3>1, FaceAssumption
    <3>4. WorkerSound'
      BY <1>1, <3>1, <3>2, <3>3 DEF WorkerSound
    <3>5. in_flight' = Range(queue') \cup ({worker'.user} \ {None})
      BY <1>1, <1>2, <3>1, <3>3
    <3> QED BY <3>4, <3>5
  <2> QED BY <2>1, <2>2
<1>5. TypeOK'
  BY <1>1, <1>4 DEF FaceInv, TypeOK
<1>6. HandlerSound'
  BY Framed
<1> QED BY <1>4, <1>5, <1>6, Framed DEF FaceInv

(* The end of a batch, however it ends, takes its flag with it.            *)
LEMMA WorkerDone ==
    ASSUME FaceInv, WorkerEnds(worker.user), queue' = queue
    PROVE  /\ WorkerSound'
           /\ in_flight' = Range(queue') \cup ({worker'.user} \ {None})
<1>1. worker' = IdleWorker /\ in_flight' = in_flight \ {worker.user}
  BY DEF WorkerEnds
<1>2. None \notin Range(queue)
  BY FaceAssumption DEF FaceInv, TypeOK, Range
<1>3. worker.user \notin Range(queue) /\ IsInjective(queue)
  BY DEF FaceInv, WorkerSound
<1>4. WorkerSound'
  BY <1>1, <1>2, <1>3 DEF WorkerSound, IdleWorker
<1>5. in_flight' = Range(queue') \cup ({worker'.user} \ {None})
  BY <1>1, <1>3 DEF IdleWorker, FaceInv, TypeOK
<1> QED BY <1>4, <1>5

LEMMA WorkerEvictsKeeps ==
    ASSUME FaceInv, WorkerEvicts PROVE FaceInv' /\ NamesGained
<1> USE DEF WorkerEvicts, stores
<1>1. /\ (DOMAIN user_map \subseteq Nat \ {0} /\ Range(user_map) \subseteq Users)'
      /\ MapNamesOwners => MapNamesOwners'
  BY NamesForgotten DEF FaceInv
<1>2. worker'.user = worker.user /\ WorkerSound'
  BY DEF FaceInv, WorkerSound
<1>3. TypeOK'
  BY <1>1, <1>2 DEF FaceInv, TypeOK
<1>4. NamesUntilReload' /\ NamesGained
  BY <1>1, WithoutMap DEF FaceInv, NamesUntilReload, NamesGained
<1> QED BY <1>2, <1>3, <1>4, Framed DEF FaceInv

LEMMA WorkerIndexesKeeps ==
    ASSUME FaceInv, WorkerIndexes PROVE FaceInv' /\ NamesGained
<1> USE DEF WorkerIndexes, stores
<1>1. worker.user \in Users
  BY DEF FaceInv, WorkerSound
<1>2. /\ index' \in Seq(Users)
      /\ (DOMAIN user_map \subseteq Nat \ {0} /\ Range(user_map) \subseteq Users)'
      /\ MapNamesOwners => MapNamesOwners'
      /\ Range(user_map') \subseteq Range(user_map) \cup {worker.user}
      /\ NextPosition \in Nat \ {0}
  BY <1>1, VectorAdded DEF FaceInv
<1>3. worker'.user = worker.user /\ WorkerSound'
  BY <1>2 DEF FaceInv, WorkerSound
<1>4. TypeOK'
  BY <1>2, <1>3 DEF FaceInv, TypeOK
<1>5. NamesUntilReload' /\ NamesGained
  BY <1>2 DEF FaceInv, NamesUntilReload, NamesGained
<1> QED BY <1>3, <1>4, <1>5, Framed DEF FaceInv

LEMMA WorkerCommitsKeeps ==
    ASSUME FaceInv, WorkerCommits PROVE FaceInv' /\ NamesGained
<1> USE DEF WorkerCommits, memory
<1> DEFINE r == [user |-> worker.user, fid |-> worker.fid, label |-> NextLabel(worker.user)]
           R == {x \in rows : x.fid \notin worker.victims}
<1>1. r \in Row
  <2>1. worker.user \in Users /\ worker.fid \in Nat \ {0}
    BY DEF FaceInv, WorkerSound
  <2>2. NextLabel(worker.user) \in Nat
    BY <2>1, LabelsGrow DEF FaceInv, TypeOK
  <2> QED BY <2>1, <2>2 DEF Row
<1>2. rows' = R \cup {r} /\ R \in SUBSET rows
  OBVIOUS
<1>3. RowsBounded' /\ (rows \subseteq Row)'
  <2> HIDE DEF r, R
  <2> QED BY <1>1, <1>2, RowWritten DEF FaceInv, TypeOK
<1>4. worker'.user = worker.user /\ WorkerSound'
  BY DEF FaceInv, WorkerSound
<1>5. TypeOK'
  BY <1>3, <1>4 DEF FaceInv, TypeOK
<1> QED BY <1>3, <1>4, <1>5, Framed DEF FaceInv

LEMMA WorkerSavesKeeps ==
    ASSUME FaceInv, WorkerSaves PROVE FaceInv' /\ NamesGained
<1> USE DEF WorkerSaves
<1>1. WorkerSound' /\ in_flight' = Range(queue') \cup ({worker'.user} \ {None})
  BY WorkerDone
<1>2. TypeOK'
  BY <1>1 DEF FaceInv, TypeOK
<1> QED BY <1>1, <1>2, Framed DEF FaceInv

LEMMA WorkerFailsKeeps ==
    ASSUME FaceInv, WorkerFails PROVE FaceInv' /\ NamesGained
<1> USE DEF WorkerFails
<1>1. /\ (DOMAIN user_map \subseteq Nat \ {0} /\ Range(user_map) \subseteq Users)'
      /\ MapNamesOwners => MapNamesOwners'
  BY NamesForgotten DEF FaceInv
<1>2. WorkerSound' /\ in_flight' = Range(queue') \cup ({worker'.user} \ {None})
  BY WorkerDone
<1>3. TypeOK'
  BY <1>1, <1>2 DEF FaceInv, TypeOK
<1>4. NamesUntilReload' /\ NamesGained
  BY <1>1, WithoutMap DEF FaceInv, NamesUntilReload, NamesGained
<1> QED BY <1>2, <1>3, <1>4, Framed DEF FaceInv

(* Whatever was loaded, a restart ends with the map of what it rebuilt.    *)
LEMMA RestartKeeps ==
    ASSUME FaceInv, Restart
    PROVE  /\ FaceInv' /\ NamesGained
           /\ MapNamesOwners' /\ \A r \in ActiveRows : r.user \in Range(user_map')
<1> USE DEF Restart, stores
<1>1. PICK loaded \in {disk, index} : Reconcile(loaded)
  OBVIOUS
<1>2. /\ index' \in Seq(Users) /\ disk' \in Seq(Users) /\ notices' \in Nat
      /\ (DOMAIN user_map \subseteq Nat \ {0} /\ Range(user_map) \subseteq Users)'
      /\ MapNamesOwners'
      /\ Range(user_map') = {r.user : r \in ActiveRows}
  <2>1. CASE ActiveRows = {}
    <3>1. DOMAIN <<>> = {} /\ Range(<<>>) = {}
      BY DEF Range
    <3>2. user_map' = <<>> /\ index' = loaded /\ disk' = loaded /\ notices' = 0
      BY <1>1, <2>1 DEF Reconcile
    <3> QED BY <2>1, <3>1, <3>2 DEF FaceInv, TypeOK, MapNamesOwners
  <2>2. CASE ActiveRows # {}
    <3>1. PICK owners \in Collected : ReplaceBy(owners) /\ notices' \in {0, 1}
      BY <1>1, <2>2 DEF Reconcile
    <3>2. owners \in Seq(Users) /\ Range(owners) = {r.user : r \in ActiveRows}
      BY CollectedRows DEF FaceInv, TypeOK
    <3> QED BY <3>1, <3>2, Rebuilt
  <2> QED BY <2>1, <2>2
<1>3. WorkerSound' /\ in_flight' = Range(queue') \cup ({worker'.user} \ {None})
  <2>1. <<>> \in Seq(Users) /\ DOMAIN <<>> = {} /\ Range(<<>>) = {} /\ IsInjective(<<>>)
    BY DEF Range, IsInjective
  <2> QED BY <2>1 DEF WorkerSound, IdleWorker
<1>4. TypeOK'
  <2>1. upload' \in [Users -> 0..MaxUploads] /\ queue' \in Seq(Users)
    BY FaceAssumption
  <2> QED BY <1>2, <1>3, <2>1 DEF FaceInv, TypeOK
<1>5. HandlerSound' /\ NothingStale'
  BY Finished
<1>6. NamesUntilReload' /\ NamesGained
  BY <1>2 DEF NamesUntilReload, NamesGained, IdleLoop, ActiveRows
<1>7. \A r \in ActiveRows : r.user \in Range(user_map')
  BY <1>2
<1> QED BY <1>2, <1>3, <1>4, <1>5, <1>6, <1>7, Framed DEF FaceInv

LEMMA StepHolds ==
    ASSUME FaceInv, [Next]_vars PROVE FaceInv' /\ NamesGained
<1>1. CASE UNCHANGED vars
  <2>1. TypeOK'
    BY <1>1 DEF FaceInv, TypeOK, vars, stores, memory, tasks
  <2> QED BY <1>1, <2>1, Framed DEF FaceInv, vars, stores, memory, tasks
<1>2. CASE WorkerStep
  BY <1>2, WorkerBeginsKeeps, WorkerEvictsKeeps, WorkerIndexesKeeps, WorkerCommitsKeeps,
     WorkerSavesKeeps, WorkerFailsKeeps DEF WorkerStep
<1>3. CASE HandlerStep
  BY <1>3, IndexKeeps, SaveKeeps, RollBackKeeps, CommitRegistrationKeeps, CommitEnrolmentKeeps,
     CollectKeeps, ReplaceKeeps, MapsKeep DEF HandlerStep
<1>4. CASE Request
  BY <1>4, RegisterChecksKeeps, UploadEndsKeeps, DeregisterKeeps, ReregisterKeeps,
     EnrollBeginsKeeps, SubmitKeeps DEF Request
<1>5. CASE ReloadIndex
  BY <1>5, ReloadKeeps
<1>6. CASE Restart
  BY <1>6, RestartKeeps
<1> QED BY <1>1, <1>2, <1>3, <1>4, <1>5, <1>6 DEF Next

LEMMA FaceInvHolds == Spec => []FaceInv
BY InitHolds, StepHolds, PTL DEF Spec

---------------------------------------------------------------------------
(* Rows, map, index and file keep their types, and commit_in_flight is set *)
(* exactly while a batch of the student waits or is being committed,       *)
(* whatever is refused, fails or is deleted in between (submit and the     *)
(* worker of auto_cctv_enroller.py).                                       *)
THEOREM TypeCorrect == Spec => []TypeOK
<1>1. FaceInv => TypeOK
  BY DEF FaceInv
<1> QED BY <1>1, FaceInvHolds, PTL

(* Nobody becomes recognisable but by an operation for them, or while      *)
(* actively registered: a rebuild, a reload, an eviction or a restart      *)
(* brings back no one whose registration was deleted (rebuild_faiss_index  *)
(* of face_service.py, rebuild_user_map_from_db of faiss_manager.py).      *)
THEOREM OnlyEnrolmentGivesNames == Spec => OnlyEnrolmentNames
<1> DEFINE Gain == \A u \in Users :
                     u \notin Range(user_map) /\ u \in Range(user_map') =>
                        reg[u] = "active" \/ u \in {loop.user, worker.user}
<1>1. FaceInv /\ [Next]_vars => [Gain]_vars
  BY StepHolds DEF NamesGained
<1> QED BY <1>1, FaceInvHolds, PTL DEF Spec, OnlyEnrolmentNames

(* However far index, file, map and rows had drifted apart, the start of   *)
(* the gateway leaves every student with an active registration a position *)
(* of their own, and no position with a wrong name                         *)
(* (reconcile_faiss_index of face_service.py).                             *)
THEOREM RestartsHeal == Spec => RestartHeals
<1> DEFINE Healed == (MapNamesOwners /\ \A r \in ActiveRows : Recognisable(r.user))'
<1>1. ASSUME FaceInv, Restart PROVE Healed
  <2>1. MapNamesOwners' /\ \A r \in ActiveRows : r.user \in Range(user_map')
    BY <1>1, RestartKeeps
  <2>2. ActiveRows' = ActiveRows
    BY <1>1 DEF Restart, stores, ActiveRows
  <2>3. ASSUME NEW r \in ActiveRows PROVE Recognisable(r.user)'
    <3>1. PICK p \in DOMAIN user_map' : user_map'[p] = r.user
      BY <2>1 DEF Range
    <3>2. p \in DOMAIN index' /\ index'[p] = r.user
      BY <2>1, <3>1 DEF MapNamesOwners
    <3> QED BY <3>1, <3>2 DEF Recognisable
  <2> QED BY <2>1, <2>2, <2>3
<1>2. FaceInv /\ [Next]_vars => [Restart => Healed]_vars
  BY <1>1
<1> QED BY <1>2, FaceInvHolds, PTL DEF Spec, RestartHeals

---------------------------------------------------------------------------
(* Answers.                                                                *)

LEMMA MaxOfOne ==
    ASSUME NEW n \in Nat PROVE Max({n}) = n
<1>1. \E x \in {n} : \A y \in {n} : x >= y
  OBVIOUS
<1> QED BY <1>1 DEF Max

(* Who is named by a search scored what the answer says.                   *)
ScoresAreTrue ==
    \A face \in Faces : \A decision \in search_with_margin(face) :
        decision.user_id # None => decision.confidence = face[decision.user_id]

(* While names and faces agree, a search knows of everybody it finds       *)
(* exactly what they scored.                                               *)
LEMMA BestIsScore ==
    ASSUME TypeOK, MapNamesOwners, NEW face \in Faces, NEW S, NEW threshold,
           NEW u \in DOMAIN Best(face, S, threshold)
    PROVE  u \in Users /\ Best(face, S, threshold)[u] = face[u]
<1> DEFINE hits == {p \in S \cap DOMAIN user_map : face[index[p]] >= threshold}
           Scores(v) == {face[index[p]] : p \in {q \in hits : user_map[q] = v}}
<1>1. Best(face, S, threshold) = [v \in {user_map[p] : p \in hits} |-> Max(Scores(v))]
  BY DEF Best
<1>2. PICK p \in hits : u = user_map[p]
  BY <1>1
<1>3. u \in Users
  BY <1>2 DEF TypeOK, Range
<1>4. \A q \in hits : user_map[q] = u => face[index[q]] = face[u]
  BY DEF MapNamesOwners
<1>5. Scores(u) = {face[u]}
  BY <1>2, <1>4
<1>6. face[u] \in Nat
  BY <1>3, FaceAssumption, QueryAssumption DEF Faces
<1>7. Best(face, S, threshold)[u] = Max(Scores(u))
  BY <1>1
<1> HIDE DEF Scores, hits
<1> QED BY <1>3, <1>5, <1>6, <1>7, MaxOfOne

LEMMA FoundIsScore ==
    ASSUME TypeOK, MapNamesOwners, NEW face \in Faces, NEW k, NEW threshold,
           NEW found \in search(face, k, threshold), NEW u \in DOMAIN found
    PROVE  u \in Users /\ found[u] = face[u]
<1> DEFINE enough == IF threshold = 0 THEN Threshold ELSE threshold
<1>1. PICK S \in Nearest(face, Smaller(k * Fetched, Len(index))) :
         found \in Leading(Best(face, S, enough), k)
  BY DEF search
<1> DEFINE best == Best(face, S, enough)
<1>2. PICK U \in SUBSET DOMAIN best : found = Restrict(best, U)
  <2> HIDE DEF best
  <2>1. found \in Leading(best, k)
    BY <1>1 DEF best
  <2> QED BY <2>1 DEF Leading, kSubset
<1>3. u \in DOMAIN best /\ found[u] = best[u]
  BY <1>2 DEF Restrict
<1> HIDE DEF enough
<1> QED BY <1>3, BestIsScore

LEMMA ScoresHold ==
    ASSUME TypeOK, MapNamesOwners PROVE ScoresAreTrue
<1>1. SUFFICES ASSUME NEW face \in Faces, NEW decision \in search_with_margin(face),
                      decision.user_id # None
               PROVE  decision.confidence = face[decision.user_id]
  BY DEF ScoresAreTrue
<1>2. PICK found \in search(face, TopK, 0) : decision \in Decisions(found, Threshold)
  BY DEF search_with_margin
<1>3. PICK u \in DOMAIN found :
         decision.user_id \in {None, u} /\ decision.confidence = found[u]
  <2>1. CASE found = <<>>
    BY <1>1, <1>2, <2>1 DEF Decisions
  <2>2. CASE found # <<>>
    <3>1. First(found) \subseteq DOMAIN found
      BY <2>2 DEF First
    <3> DEFINE Next2(u) == Max({0} \cup {found[v] : v \in DOMAIN found \ {u}})
               Decision(u) ==
                  IF found[u] < Threshold
                  THEN [user_id |-> None, confidence |-> found[u], is_ambiguous |-> FALSE]
                  ELSE [user_id |-> u, confidence |-> found[u],
                        is_ambiguous |-> found[u] - Next2(u) <= Margin]
    <3>2. \A u : Decision(u).user_id \in {None, u} /\ Decision(u).confidence = found[u]
      <4> HIDE DEF Next2
      <4> QED OBVIOUS
    <3>3. decision \in {Decision(u) : u \in First(found)}
      BY <1>2, <2>2, Zenon DEF Decisions
    <3> HIDE DEF Decision
    <3> QED BY <3>1, <3>2, <3>3
  <2> QED BY <2>1, <2>2
<1> QED BY <1>1, <1>3, FoundIsScore

(* Until a reload every position with a name has the face of that name,    *)
(* and who is named by a search scored what the answer says, whatever is   *)
(* registered, deleted, evicted, rolled back or restarted meanwhile        *)
(* (add_batch, remove, rebuild, search_with_margin of faiss_manager.py).   *)
THEOREM NamesOwnersUntilReload == Spec => [](~reloaded => MapNamesOwners /\ ScoresAreTrue)
<1>1. FaceInv => (~reloaded => MapNamesOwners /\ ScoresAreTrue)
  BY ScoresHold DEF FaceInv, NamesUntilReload
<1> QED BY <1>1, FaceInvHolds, PTL

(* Vectors the index still has and nobody's name leads to.                 *)
Forgotten == DOMAIN index \ DOMAIN user_map

LEMMA IndexFacts ==
    ASSUME TypeOK, MapNamesOwners
    PROVE  /\ DOMAIN index = 1..Len(index) /\ Len(index) \in Nat
           /\ \A p \in DOMAIN index : index[p] \in Users
           /\ IsFiniteSet(DOMAIN index) /\ Cardinality(DOMAIN index) = Len(index)
           /\ DOMAIN user_map \subseteq DOMAIN index
           /\ \A p \in DOMAIN user_map : user_map[p] = index[p] /\ user_map[p] \in Range(user_map)
           /\ Range(user_map) \subseteq Users /\ IsFiniteSet(Range(user_map))
<1>1. DOMAIN index = 1..Len(index) /\ Len(index) \in Nat
  BY DEF TypeOK
<1>2. \A p \in DOMAIN index : index[p] \in Users
  BY <1>1 DEF TypeOK
<1>3. IsFiniteSet(DOMAIN index) /\ Cardinality(DOMAIN index) = Len(index)
  <2>1. /\ IsFiniteSet(1..Len(index))
        /\ Cardinality(1..Len(index)) = IF 1 > Len(index) THEN 0 ELSE Len(index) - 1 + 1
    BY <1>1, FS_Interval
  <2> QED BY <1>1, <2>1
<1>4. /\ DOMAIN user_map \subseteq DOMAIN index
      /\ \A p \in DOMAIN user_map : user_map[p] = index[p] /\ user_map[p] \in Range(user_map)
      /\ Range(user_map) \subseteq Users
  BY DEF MapNamesOwners, Range, TypeOK
<1>5. IsFiniteSet(Range(user_map))
  <2> DEFINE owners == [p \in DOMAIN user_map |-> user_map[p]]
  <2>1. owners \in Surjection(DOMAIN user_map, Range(user_map))
    BY <1>4 DEF Surjection, Range
  <2>2. IsFiniteSet(DOMAIN user_map)
    BY <1>3, <1>4, FS_Subset
  <2> HIDE DEF owners
  <2> QED BY <2>1, <2>2, FS_Surjection
<1> QED BY <1>1, <1>2, <1>3, <1>4, <1>5

(* Whom a search knows of, in what was fetched from the index.             *)
LEMMA BestNames ==
    ASSUME TypeOK, MapNamesOwners, NEW face \in Faces, NEW S \in SUBSET DOMAIN index,
           NEW threshold \in Nat
    PROVE  /\ DOMAIN Best(face, S, threshold) \subseteq Range(user_map)
           /\ \A u \in DOMAIN Best(face, S, threshold) :
                 /\ face[u] >= threshold
                 /\ \E p \in S \cap DOMAIN user_map : user_map[p] = u
           /\ \A p \in S \cap DOMAIN user_map :
                 face[user_map[p]] >= threshold => user_map[p] \in DOMAIN Best(face, S, threshold)
<1> DEFINE hits == {p \in S \cap DOMAIN user_map : face[index[p]] >= threshold}
<1>1. DOMAIN Best(face, S, threshold) = {user_map[p] : p \in hits}
  BY DEF Best
<1>2. \A p \in DOMAIN user_map : user_map[p] = index[p] /\ user_map[p] \in Range(user_map)
  BY IndexFacts
<1> QED BY <1>1, <1>2

(* Nobody with a name scores more than the best of what was fetched: what  *)
(* is left in the index scores less than anything fetched.                 *)
LEMMA NobodyBetter ==
    ASSUME TypeOK, MapNamesOwners, NEW face \in Faces, NEW n, NEW S \in Nearest(face, n),
           NEW threshold \in Nat, NEW v \in DOMAIN Best(face, S, threshold),
           NEW w \in Range(user_map)
    PROVE  \E x \in DOMAIN Best(face, S, threshold) : face[x] >= face[w]
<1>1. /\ S \in SUBSET DOMAIN index
      /\ \A p \in S, q \in DOMAIN index \ S : face[index[p]] >= face[index[q]]
  BY DEF Nearest, kSubset
<1>2. /\ face[v] >= threshold /\ v \in Range(user_map)
      /\ \E p \in S \cap DOMAIN user_map : user_map[p] = v
  BY <1>1, BestNames
<1>3. PICK p \in S \cap DOMAIN user_map : user_map[p] = v
  BY <1>2
<1>4. PICK q \in DOMAIN user_map : user_map[q] = w
  BY DEF Range
<1>5. face[v] \in Nat /\ face[w] \in Nat
  BY <1>2, IndexFacts, QueryAssumption DEF Faces
<1>6. CASE q \in S
  <2>1. CASE face[w] >= threshold
    <3>1. w \in DOMAIN Best(face, S, threshold)
      BY <1>1, <1>4, <1>6, <2>1, BestNames
    <3> QED BY <1>5, <3>1
  <2>2. CASE face[w] < threshold
    BY <1>2, <1>5, <2>2
  <2> QED BY <1>5, <2>1, <2>2
<1>7. CASE q \notin S
  <2>1. face[index[p]] >= face[index[q]] /\ index[p] = v /\ index[q] = w
    BY <1>1, <1>3, <1>4, <1>7, IndexFacts
  <2> QED BY <2>1
<1> QED BY <1>6, <1>7

(* As long as fewer vectors are forgotten than fetched, they cannot crowd  *)
(* out the one face that is looked for.                                    *)
LEMMA NotCrowdedOut ==
    ASSUME TypeOK, MapNamesOwners, NEW face \in Faces, NEW n \in Nat,
           Cardinality(Forgotten) < n,
           NEW S \in Nearest(face, Smaller(n, Len(index))),
           NEW threshold \in Nat, NEW w \in Range(user_map), face[w] >= threshold,
           \A u \in Users \ {w} : face[u] < face[w]
    PROVE  w \in DOMAIN Best(face, S, threshold)
<1>1. /\ S \in SUBSET DOMAIN index /\ Cardinality(S) = Smaller(n, Len(index))
      /\ \A p \in S, q \in DOMAIN index \ S : face[index[p]] >= face[index[q]]
  BY DEF Nearest, kSubset
<1>2. PICK q \in DOMAIN user_map : user_map[q] = w
  BY DEF Range
<1>3. q \in DOMAIN index /\ index[q] = w /\ w \in Users
  BY <1>2, IndexFacts
<1>4. SUFFICES ASSUME w \notin DOMAIN Best(face, S, threshold) PROVE FALSE
  OBVIOUS
<1>5. \A p \in S \cap DOMAIN user_map : user_map[p] # w
  BY <1>1, <1>4, BestNames
<1>6. q \notin S
  BY <1>2, <1>5
<1>7. \A p \in S : index[p] = w
  <2>1. SUFFICES ASSUME NEW p \in S, index[p] # w PROVE FALSE
    OBVIOUS
  <2>2. index[p] \in Users /\ face[index[p]] >= face[w]
    BY <1>1, <1>3, <1>6, IndexFacts
  <2>3. face[index[p]] \in Nat /\ face[w] \in Nat
    BY <1>3, <2>2, QueryAssumption DEF Faces
  <2> QED BY <2>1, <2>2, <2>3
<1>8. S \subseteq Forgotten
  BY <1>1, <1>5, <1>7, IndexFacts DEF Forgotten
<1>9. IsFiniteSet(Forgotten) /\ Cardinality(S) <= Cardinality(Forgotten)
  <2>1. IsFiniteSet(Forgotten)
    BY IndexFacts, FS_Subset DEF Forgotten
  <2> QED BY <1>8, <2>1, FS_Subset
<1>10. Cardinality(S) = Len(index)
  <2>1. Cardinality(Forgotten) \in Nat /\ Len(index) \in Nat
    BY <1>9, IndexFacts, FS_CardinalityType
  <2> QED BY <1>1, <1>9, <2>1 DEF Smaller
<1>11. S = DOMAIN index
  BY <1>1, <1>10, IndexFacts, FS_Subset
<1> QED BY <1>3, <1>6, <1>11

(* A search takes somebody as long as there is anybody, and among those    *)
(* the best.                                                               *)
LEMMA FoundAreBest ==
    ASSUME TypeOK, MapNamesOwners, NEW face \in Faces, NEW k \in Nat \ {0},
           NEW found \in search(face, k, 0)
    PROVE  \E S \in Nearest(face, Smaller(k * Fetched, Len(index))) :
              /\ DOMAIN found \subseteq DOMAIN Best(face, S, Threshold)
              /\ \A u \in DOMAIN found : found[u] = face[u] /\ found[u] \in Nat
              /\ \A x \in DOMAIN Best(face, S, Threshold) :
                    \E u \in DOMAIN found : face[u] >= face[x]
<1>1. PICK S \in Nearest(face, Smaller(k * Fetched, Len(index))) :
         found \in Leading(Best(face, S, Threshold), k)
  BY DEF search
<1>2. S \in SUBSET DOMAIN index
  BY DEF Nearest, kSubset
<1> DEFINE best == Best(face, S, Threshold)
<1>3. /\ DOMAIN best \subseteq Range(user_map) /\ Threshold \in Nat
      /\ \A u \in DOMAIN best : u \in Users /\ best[u] = face[u] /\ face[u] \in Nat
  <2>1. Threshold \in Nat /\ MaxScore \in Nat
    BY QueryAssumption
  <2>2. \A u \in Users : face[u] \in Nat
    BY <2>1 DEF Faces
  <2>3. DOMAIN best \subseteq Range(user_map)
    BY <1>2, <2>1, BestNames
  <2>4. \A u \in DOMAIN best : u \in Users /\ best[u] = face[u]
    BY BestIsScore
  <2> HIDE DEF best
  <2> QED BY <2>1, <2>2, <2>3, <2>4
<1>4. IsFiniteSet(DOMAIN best)
  <2> HIDE DEF best
  <2> QED BY <1>3, IndexFacts, FS_Subset
<1> HIDE DEF best
<1>5. PICK U \in kSubset(Smaller(k, Cardinality(DOMAIN best)), DOMAIN best) :
         found = Restrict(best, U) /\ \A u \in U, v \in DOMAIN best \ U : best[u] >= best[v]
  BY <1>1 DEF Leading, best
<1>6. U \in SUBSET DOMAIN best /\ Cardinality(U) = Smaller(k, Cardinality(DOMAIN best))
  BY <1>5 DEF kSubset
<1>7. DOMAIN found = U /\ \A u \in U : found[u] = face[u] /\ found[u] \in Nat
  BY <1>3, <1>5, <1>6 DEF Restrict
<1>8. ASSUME NEW x \in DOMAIN best PROVE \E u \in U : face[u] >= face[x]
  <2>1. CASE x \in U
    BY <1>3, <2>1
  <2>2. CASE x \notin U
    <3>1. Cardinality(DOMAIN best) \in Nat /\ Cardinality(DOMAIN best) # 0
      BY <1>4, <1>8, FS_CardinalityType, FS_EmptySet
    <3>2. Cardinality(U) # 0
      BY <1>6, <3>1 DEF Smaller
    <3>3. PICK u \in U : TRUE
      BY <3>2, FS_EmptySet
    <3> QED BY <1>3, <1>5, <1>6, <2>2, <3>3
  <2> QED BY <2>1, <2>2
<1> QED BY <1>6, <1>7, <1>8 DEF best

(* What is decided of what a search found.                                 *)
LEMMA Decided ==
    ASSUME NEW face, NEW decision \in search_with_margin(face)
    PROVE  \E found \in search(face, TopK, 0) :
              \/ found = <<>> /\ decision.user_id = None
              \/ \E u \in DOMAIN found :
                    /\ found[u] = Max(Range(found))
                    /\ decision.user_id = IF found[u] < Threshold THEN None ELSE u
<1>1. PICK found \in search(face, TopK, 0) : decision \in Decisions(found, Threshold)
  BY DEF search_with_margin
<1>2. CASE found = <<>>
  BY <1>1, <1>2 DEF Decisions
<1>3. CASE found # <<>>
  <2> DEFINE Next2(u) == Max({0} \cup {found[v] : v \in DOMAIN found \ {u}})
             Decision(u) ==
                IF found[u] < Threshold
                THEN [user_id |-> None, confidence |-> found[u], is_ambiguous |-> FALSE]
                ELSE [user_id |-> u, confidence |-> found[u],
                      is_ambiguous |-> found[u] - Next2(u) <= Margin]
  <2>1. \A u : Decision(u).user_id = IF found[u] < Threshold THEN None ELSE u
    <3> HIDE DEF Next2
    <3> QED OBVIOUS
  <2>2. decision \in {Decision(u) : u \in First(found)}
    BY <1>1, <1>3, Zenon DEF Decisions
  <2> HIDE DEF Decision
  <2>3. PICK u \in First(found) :
           decision.user_id = IF found[u] < Threshold THEN None ELSE u
    BY <2>1, <2>2
  <2> QED BY <1>3, <2>3 DEF First
<1> QED BY <1>2, <1>3

(* Max of what was found, where found knows the scores.                    *)
LEMMA FirstIsBest ==
    ASSUME NEW face, NEW found, NEW u \in DOMAIN found, found[u] = Max(Range(found)),
           NEW m \in Nat,
           \A v \in DOMAIN found : found[v] = face[v] /\ found[v] \in 0..m
    PROVE  \A v \in DOMAIN found : face[u] >= face[v]
<1>1. Range(found) \in SUBSET Nat /\ Range(found) # {} /\ \A x \in Range(found) : x <= m
  BY DEF Range
<1>2. \A x \in Range(found) : Max(Range(found)) >= x
  BY <1>1, MaxIsGreatest
<1>3. \A v \in DOMAIN found : found[v] \in Range(found)
  BY DEF Range
<1> QED BY <1>2, <1>3

(* While the index names the students with an active registration, who a   *)
(* search names is who a scan of the phone images would name.              *)
LEMMA NamedIsMostAlike ==
    ASSUME TypeOK, MapNamesOwners, IndexIsOfRegistered, NEW face \in Faces,
           NEW decision \in search_with_margin(face), decision.user_id # None
    PROVE  decision.user_id \in MostAlike(face)
<1> DEFINE u == decision.user_id
<1> USE DEF IndexIsOfRegistered
<1>1. PICK found \in search(face, TopK, 0) :
         u \in DOMAIN found /\ found[u] = Max(Range(found))
  BY Decided
<1>2. TopK \in Nat \ {0} /\ Fetched \in Nat /\ Threshold \in Nat /\ MaxScore \in Nat
  BY QueryAssumption
<1>3. PICK S \in Nearest(face, Smaller(TopK * Fetched, Len(index))) :
         /\ DOMAIN found \subseteq DOMAIN Best(face, S, Threshold)
         /\ \A v \in DOMAIN found : found[v] = face[v] /\ found[v] \in Nat
         /\ \A x \in DOMAIN Best(face, S, Threshold) :
               \E v \in DOMAIN found : face[v] >= face[x]
  BY <1>2, FoundAreBest
<1>4. /\ S \in SUBSET DOMAIN index
      /\ DOMAIN Best(face, S, Threshold) \subseteq Range(user_map)
  <2>1. S \in SUBSET DOMAIN index
    BY DEF Nearest, kSubset
  <2> QED BY <1>2, <2>1, BestNames
<1>5. /\ \A v \in Range(user_map) : v \in Users /\ face[v] \in 0..MaxScore
      /\ MaxScore \in Nat
  BY <1>2, IndexFacts DEF Faces
<1>6. \A v \in DOMAIN found : face[u] >= face[v]
  <2>1. \A v \in DOMAIN found : found[v] = face[v] /\ found[v] \in 0..MaxScore
    BY <1>3, <1>4, <1>5
  <2> QED BY <1>1, <1>5, <2>1, FirstIsBest
<1>7. ASSUME NEW w \in PhoneEmbeddings PROVE face[u] >= face[w]
  <2>1. PICK x \in DOMAIN Best(face, S, Threshold) : face[x] >= face[w]
    BY <1>1, <1>2, <1>3, <1>7, NobodyBetter
  <2>2. PICK v \in DOMAIN found : face[v] >= face[x]
    BY <1>3, <2>1
  <2>3. face[u] >= face[v]
    BY <1>6, <2>2
  <2>4. {u, v, x, w} \subseteq Range(user_map)
    BY <1>1, <1>3, <1>4, <1>7, <2>1, <2>2
  <2>5. /\ face[u] \in 0..MaxScore /\ face[v] \in 0..MaxScore
        /\ face[x] \in 0..MaxScore /\ face[w] \in 0..MaxScore
    BY <1>5, <2>4
  <2> QED BY <1>2, <2>1, <2>2, <2>3, <2>5
<1> QED BY <1>1, <1>3, <1>4, <1>7 DEF MostAlike

(* The face of a student.                                                  *)
LEMMA FaceOfType ==
    ASSUME NEW u \in Users
    PROVE  /\ FaceOf(u) \in Faces /\ FaceOf(u)[u] = MaxScore
           /\ \A v \in Users \ {u} : FaceOf(u)[v] = 0
           /\ MaxScore \in Nat /\ Threshold \in Nat /\ 0 < Threshold /\ Threshold <= MaxScore
<1>1. MaxScore \in Nat /\ Threshold \in Nat /\ 0 < Threshold /\ Threshold <= MaxScore
  BY QueryAssumption
<1> QED BY <1>1 DEF FaceOf, Faces

(* It is the only thing a search for it can find, and is found if the      *)
(* index knows the student.                                                *)
LEMMA OwnFaceIsFound ==
    ASSUME TypeOK, MapNamesOwners, NEW k \in Nat \ {0}, NEW u \in Users,
           NEW found \in search(FaceOf(u), k, 0)
    PROVE  /\ DOMAIN found \subseteq {u} \cap Range(user_map)
           /\ \A v \in DOMAIN found : found[v] = MaxScore
           /\ u \in Range(user_map) /\ Cardinality(Forgotten) < k * Fetched
                 => DOMAIN found = {u}
<1> DEFINE face == FaceOf(u)
<1>1. /\ face \in Faces /\ face[u] = MaxScore /\ MaxScore \in Nat /\ Threshold \in Nat
      /\ 0 < Threshold /\ Threshold <= MaxScore
      /\ \A v \in Users \ {u} : face[v] = 0
  BY FaceOfType
<1>2. k * Fetched \in Nat
  BY QueryAssumption
<1> HIDE DEF face
<1>3. found \in search(face, k, 0)
  BY DEF face
<1>4. PICK S \in Nearest(face, Smaller(k * Fetched, Len(index))) :
         /\ DOMAIN found \subseteq DOMAIN Best(face, S, Threshold)
         /\ \A v \in DOMAIN found : found[v] = face[v] /\ found[v] \in Nat
         /\ \A x \in DOMAIN Best(face, S, Threshold) :
               \E v \in DOMAIN found : face[v] >= face[x]
  BY <1>1, <1>3, FoundAreBest
<1>5. DOMAIN Best(face, S, Threshold) \subseteq {u} \cap Range(user_map)
  <2>1. S \in SUBSET DOMAIN index
    BY DEF Nearest, kSubset
  <2>2. /\ DOMAIN Best(face, S, Threshold) \subseteq Range(user_map)
        /\ \A v \in DOMAIN Best(face, S, Threshold) : face[v] >= Threshold
    BY <1>1, <2>1, BestNames
  <2>3. Range(user_map) \subseteq Users
    BY IndexFacts
  <2> QED BY <1>1, <2>2, <2>3
<1>6. ASSUME u \in Range(user_map), Cardinality(Forgotten) < k * Fetched
      PROVE  DOMAIN found = {u}
  <2>1. face[u] >= Threshold /\ \A v \in Users \ {u} : face[v] < face[u]
    BY <1>1
  <2>2. u \in DOMAIN Best(face, S, Threshold)
    BY <1>1, <1>2, <1>6, <2>1, NotCrowdedOut
  <2>3. DOMAIN found # {}
    BY <1>4, <2>2
  <2> QED BY <1>4, <1>5, <2>3
<1> QED BY <1>1, <1>4, <1>5, <1>6

(* The swap-safe check refuses the face of anybody else the index knows.   *)
LEMMA OthersAreRefused ==
    ASSUME TypeOK, MapNamesOwners, Cardinality(Forgotten) < TopK * Fetched,
           NEW u \in Users, NEW v \in Range(user_map) \ {u}
    PROVE  ~SwapSafe(u, FaceOf(v), Margin)
<1>1. /\ Generous \in Nat \ {0} /\ Cardinality(Forgotten) < Generous * Fetched
      /\ v \in Users
  <2>1. IsFiniteSet(Forgotten)
    BY IndexFacts, FS_Subset DEF Forgotten
  <2>2. TopK \in Nat \ {0} /\ Fetched \in Nat \ {0} /\ Cardinality(Forgotten) \in Nat
    BY <2>1, FS_CardinalityType, QueryAssumption
  <2>3. Generous \in Nat \ {0} /\ Generous >= TopK
    BY <2>2 DEF Generous
  <2>4. Generous * Fetched >= TopK * Fetched
    <3>1. PICK more \in Nat : Generous = TopK + more
      BY <2>2, <2>3
    <3>2. (TopK + more) * Fetched = TopK * Fetched + more * Fetched
      BY <2>2, <3>1
    <3>3. more * Fetched \in Nat /\ TopK * Fetched \in Nat
      BY <2>2, <3>1
    <3> QED BY <3>1, <3>2, <3>3
  <2>5. TopK * Fetched \in Nat /\ Generous * Fetched \in Nat
    BY <2>2, <2>3
  <2> QED BY <2>2, <2>3, <2>4, <2>5, IndexFacts
<1>2. SUFFICES ASSUME NEW found \in search(FaceOf(v), Generous, 0),
                      LET competing == Max({0} \cup {found[w] : w \in DOMAIN found \ {u}})
                      IN  IF u \in DOMAIN found
                          THEN competing <= found[u] - Margin \/ competing = 0
                          ELSE competing < Threshold
               PROVE  FALSE
  BY DEF SwapSafe
<1>3. DOMAIN found = {v} /\ found[v] = MaxScore
  <2>1. /\ \A w \in DOMAIN found : found[w] = MaxScore
        /\ v \in Range(user_map) /\ Cardinality(Forgotten) < Generous * Fetched
              => DOMAIN found = {v}
    BY <1>1, <1>2, OwnFaceIsFound
  <2> QED BY <1>1, <2>1
<1>4. u \notin DOMAIN found /\ {found[w] : w \in DOMAIN found \ {u}} = {MaxScore}
  BY <1>3
<1>5. MaxScore \in Nat /\ Threshold \in Nat /\ Threshold <= MaxScore
  BY QueryAssumption
<1>6. Max({0} \cup {MaxScore}) \in {0, MaxScore} /\ Max({0} \cup {MaxScore}) >= MaxScore
  <2>1. /\ {0} \cup {MaxScore} \in SUBSET Nat /\ {0} \cup {MaxScore} # {}
        /\ \A x \in {0} \cup {MaxScore} : x <= MaxScore
    BY <1>5
  <2> QED BY <1>5, <2>1, MaxIsGreatest
<1>7. Max({0} \cup {MaxScore}) < Threshold
  BY <1>2, <1>4
<1> QED BY <1>5, <1>6, <1>7

(* The edge device is told of the same student as the operator who scans.  *)
LEMMA DeviceAndScanAgree ==
    ASSUME TypeOK, MapNamesOwners, Cardinality(Forgotten) < TopK * Fetched,
           IndexIsOfRegistered, 0 < IdentifyScore, IdentifyScore <= MaxScore,
           NEW u \in Users
    PROVE  \A response \in process_faces({FaceOf(u)}, FALSE) :
              response.matched = UNION {shown.identified :
                                   shown \in cctv_identify(Scene({FaceOf(u)})).faces}
<1>1. TopK \in Nat \ {0} /\ IdentifyScore \in Nat /\ None \notin Users
  BY QueryAssumption, FaceAssumption
<1>2. ASSUME NEW match \in Matches(FaceOf(u)) PROVE match = {u} \cap PhoneEmbeddings
  <2>1. PICK decision \in search_with_margin(FaceOf(u)) : match = {decision.user_id} \ {None}
    BY <1>2 DEF Matches
  <2>2. PICK found \in search(FaceOf(u), TopK, 0) :
           \/ found = <<>> /\ decision.user_id = None
           \/ \E v \in DOMAIN found :
                 /\ found[v] = Max(Range(found))
                 /\ decision.user_id = IF found[v] < Threshold THEN None ELSE v
    BY Decided
  <2>3. /\ DOMAIN found \subseteq {u} \cap PhoneEmbeddings
        /\ \A v \in DOMAIN found : found[v] = MaxScore
        /\ u \in PhoneEmbeddings => DOMAIN found = {u}
    BY <1>1, OwnFaceIsFound DEF IndexIsOfRegistered
  <2>4. ~(MaxScore < Threshold) /\ u # None
    BY <1>1, FaceOfType
  <2>5. CASE u \in PhoneEmbeddings
    <3>1. found # <<>>
      BY <2>3, <2>5
    <3>2. decision.user_id = u
      BY <2>2, <2>3, <2>4, <3>1
    <3> QED BY <2>1, <2>4, <2>5, <3>2
  <2>6. CASE u \notin PhoneEmbeddings
    <3>1. decision.user_id = None
      BY <2>2, <2>3, <2>6
    <3> QED BY <2>1, <2>6, <3>1
  <2> QED BY <2>5, <2>6
<1>3. Identified(FaceOf(u)) = {u} \cap PhoneEmbeddings
  <2>1. PhoneEmbeddings \subseteq Users
    BY DEF PhoneEmbeddings
  <2>2. ASSUME NEW v \in Identified(FaceOf(u)) PROVE v \in {u} \cap PhoneEmbeddings
    <3>1. v \in PhoneEmbeddings /\ FaceOf(u)[v] >= IdentifyScore
      BY DEF Identified, MostAlike
    <3> QED BY <1>1, <2>1, <3>1, FaceOfType
  <2>3. ASSUME u \in PhoneEmbeddings PROVE u \in Identified(FaceOf(u))
    <3>1. \A v \in PhoneEmbeddings : FaceOf(u)[u] >= FaceOf(u)[v]
      BY <2>1, FaceOfType
    <3>2. FaceOf(u)[u] >= IdentifyScore
      BY <1>1, FaceOfType
    <3> QED BY <2>3, <3>1, <3>2 DEF Identified, MostAlike
  <2> QED BY <2>2, <2>3
<1>4. ASSUME NEW response \in process_faces({FaceOf(u)}, FALSE)
      PROVE  response.matched \in Matches(FaceOf(u))
  <2> DEFINE Given(m) == [matched |-> UNION {m[face] : face \in {FaceOf(u)}},
                          presence_logged |-> 0]
             answers == {m \in [{FaceOf(u)} -> SUBSET Users] :
                           \A face \in {FaceOf(u)} : m[face] \in Matches(face)}
  <2>1. PICK m \in answers : response = Given(m)
    BY <1>4 DEF process_faces
  <2>2. m[FaceOf(u)] \in Matches(FaceOf(u)) /\ UNION {m[face] : face \in {FaceOf(u)}} = m[FaceOf(u)]
    BY <2>1
  <2>3. response.matched = UNION {m[face] : face \in {FaceOf(u)}}
    BY <2>1
  <2> QED BY <2>2, <2>3
<1>5. UNION {shown.identified : shown \in cctv_identify(Scene({FaceOf(u)})).faces}
         = Identified(FaceOf(u))
  <2> DEFINE scene == Scene({FaceOf(u)})
             shown(face) == [face |-> face, identified |-> Identified(face),
                             already_enrolled |-> {v \in Identified(face) : CctvCount(v) > 0}]
  <2>1. scene.usable = {FaceOf(u)} /\ ~Unseen(scene)
    BY DEF Scene, Unseen
  <2>2. cctv_identify(scene).faces = {shown(face) : face \in scene.usable}
    BY <2>1 DEF cctv_identify
  <2>3. cctv_identify(scene).faces = {shown(FaceOf(u))}
    <3> HIDE DEF scene, shown
    <3> QED BY <2>1, <2>2
  <2>4. shown(FaceOf(u)).identified = Identified(FaceOf(u))
    OBVIOUS
  <2> HIDE DEF shown
  <2> QED BY <2>3, <2>4
<1> QED BY <1>2, <1>3, <1>4, <1>5

(* Until a reload, and as long as fewer vectors have been forgotten than a *)
(* search fetches, the answers are true: who is named scored what the      *)
(* answer says and is who a scan would name, the swap-safe check lets      *)
(* nobody enrol somebody else's face, and the edge device and the          *)
(* operator's scan tell of the same people (search_with_margin of          *)
(* faiss_manager.py, _swap_safe_check of auto_cctv_enroller.py,            *)
(* cctv_identify of face_service.py, process_faces of routers/face.py).    *)
THEOREM AnswersAlwaysTrue ==
    ASSUME 0 < IdentifyScore, IdentifyScore <= MaxScore
    PROVE  Spec => [](Cardinality(Forgotten) < TopK * Fetched => AnswersAreTrue)
<1>1. ASSUME FaceInv, Cardinality(Forgotten) < TopK * Fetched PROVE AnswersAreTrue
  <2>1. SUFFICES ASSUME ~reloaded PROVE AnswersAreTrue
    BY DEF AnswersAreTrue
  <2>2. TypeOK /\ MapNamesOwners
    BY <1>1, <2>1 DEF FaceInv, NamesUntilReload
  <2>3. \A face \in Faces : \A decision \in search_with_margin(face) :
           decision.user_id # None =>
              /\ decision.confidence = face[decision.user_id]
              /\ IndexIsOfRegistered => decision.user_id \in MostAlike(face)
    BY <2>2, ScoresHold, NamedIsMostAlike DEF ScoresAreTrue
  <2> QED
    BY <1>1, <2>2, <2>3, OthersAreRefused, DeviceAndScanAgree DEF AnswersAreTrue
<1> QED BY <1>1, FaceInvHolds, PTL

=============================================================================
