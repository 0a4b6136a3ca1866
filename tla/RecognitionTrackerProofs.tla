----------------------- MODULE RecognitionTrackerProofs -----------------------
(***************************************************************************)
(* What RecognitionTracker promises of names, for any number of tracks and *)
(* students and any setting of its thresholds: types, nobody reported      *)
(* twice in a frame, no name changed without the votes for it, no name     *)
(* copied, and none found for a face judged a spoof.                       *)
(***************************************************************************)
EXTENDS RecognitionTracker, FiniteSetTheorems, TLAPS

-----------------------------------------------------------------------------
(* The inductive invariant.                                                 *)

\* The fields of a frame are in use between its phases only.
Phases ==
    /\ phase # "commit" => DOMAIN decisions = {}
    /\ phase # "idle" => credited = {}
    /\ phase \in {"idle", "detect"} => detected = {}
    /\ phase \in {"liveness", "handoff", "search", "emit"} => detected # {}
    /\ detected \subseteq DOMAIN cache

\* Only a name that is there can be contested.
OnlyNamedContested ==
    \A t \in DOMAIN cache : cache[t].user = None => cache[t].candidate = None

\* The code's streak never runs ahead of the searches that made it.
VotesCounted ==
    \A t \in DOMAIN cache : cache[t].candidate # None =>
        /\ against[t].name = cache[t].candidate
        /\ against[t].votes >= cache[t].streak

\* What the batch has decided and not yet committed: no suppressed track is
\* in it without a name, none is to be given the name it still counts for,
\* and one to be renamed has the votes.
DecisionsSound ==
    \A t \in DOMAIN decisions :
        /\ cache[t].suppressed => cache[t].user # None
        /\ decisions[t].user # None /\ cache[t].candidate # None =>
               cache[t].candidate \notin {decisions[t].user, decisions[t].second}
        /\ cache[t].user # None /\ decisions[t].user \notin {None, cache[t].user} =>
               against[t].votes >= StreakNeeded(cache[t])

TrackerInv ==
    /\ TypeOK
    /\ Phases
    /\ OnlyNamedContested
    /\ VotesCounted
    /\ DecisionsSound
    /\ NoDoubleCredit

MaxVotes == SteadyFactor * MinStreak
VoteType == [name : Nobody, votes : 0..MaxVotes]

-----------------------------------------------------------------------------
(* Operators.                                                               *)

LEMMA VoteBounds ==
    /\ MaxVotes \in Nat
    /\ MaxVotes >= MinStreak
    /\ MaxVotes >= 1
    /\ MinStreak \in Nat /\ MinStreak >= 1
    /\ SpoofVerdicts \in Nat \ {0} /\ RealVerdicts \in Nat \ {0}
    /\ SteadyFrames \in Nat /\ HandoffFrames \in Nat
BY TrackerAssumption DEF TrackerAssumption, MaxVotes

LEMMA OneIsSome ==
    ASSUME NEW S, Cardinality(S) = 1
    PROVE  S # {}
<1>1. CASE S = {}
  BY <1>1, FS_EmptySet
<1> QED
  BY <1>1

LEMMA OneIsAlone ==
    ASSUME NEW S, IsFiniteSet(S), Cardinality(S) = 1, NEW x \in S, NEW y \in S
    PROVE  x = y
BY FS_Singleton

LEMMA CappedBound ==
    ASSUME NEW n \in Nat, NEW bound \in Nat
    PROVE  Capped(n, bound) \in 0..bound
BY DEF Capped

LEMMA StreakNeededBound ==
    ASSUME NEW id \in TrackIdentity
    PROVE  StreakNeeded(id) \in 1..MaxVotes
BY VoteBounds DEF StreakNeeded, MaxVotes

LEMMA NewIdentityType ==
    ASSUME NEW hint \in Nobody
    PROVE  NewIdentity(hint) \in TrackIdentity
BY VoteBounds DEF NewIdentity, TrackIdentity, Nobody, MaxVotes

\* The swap gate keeps the name and everything but the hint and the candidate.
LEMMA GatedType ==
    ASSUME NEW id \in TrackIdentity, NEW a \in Answers
    PROVE  /\ Gated(id, a) \in TrackIdentity
           /\ Gated(id, a).user = id.user
           /\ Gated(id, a).status = id.status
           /\ Gated(id, a).suppressed = id.suppressed
           /\ Gated(id, a).frames = id.frames
<1> DEFINE h == [id EXCEPT !.hint = HintLeft(id, a)]
<1>1. a.top \in Nobody /\ a.clear \in BOOLEAN
  BY DEF Answers
<1>2. HintLeft(id, a) \in Nobody
  BY DEF HintLeft, Nobody, TrackIdentity
<1>3. h \in TrackIdentity
  BY <1>2 DEF TrackIdentity
<1>4. CASE Blocked(id, a) /\ a.clear
  <2>1. Streak(id, a) \in Nat
    BY VoteBounds DEF Streak, TrackIdentity, MaxVotes
  <2>2. Streak(id, a) < StreakNeeded(id)
    BY <1>4 DEF Blocked
  <2>3. Streak(id, a) \in 0..MaxVotes
    BY <2>1, <2>2, StreakNeededBound, VoteBounds
  <2>4. Gated(id, a) = [h EXCEPT !.candidate = a.top, !.streak = Streak(id, a)]
    BY <1>4 DEF Gated
  <2> QED
    BY <1>1, <1>2, <1>3, <2>3, <2>4 DEF TrackIdentity, MaxVotes
<1>5. CASE ~(Blocked(id, a) /\ a.clear)
  <2>1. Gated(id, a) \in {h, [h EXCEPT !.candidate = None, !.streak = 0]}
    BY <1>5 DEF Gated
  <2>2. [h EXCEPT !.candidate = None, !.streak = 0] \in TrackIdentity
    <3>1. 0 \in 0..(SteadyFactor * MinStreak) /\ None \in Nobody
      BY VoteBounds DEF Nobody, MaxVotes
    <3> HIDE DEF h
    <3> QED
      BY <1>3, <3>1 DEF TrackIdentity
  <2> QED
    BY <1>3, <2>1, <2>2 DEF TrackIdentity
<1> QED
  BY <1>4, <1>5

LEMMA DecisionType ==
    ASSUME NEW id \in TrackIdentity, NEW a \in Answers
    PROVE  Decision(id, a) \in [user : Nobody, second : Nobody]
BY DEF Decision, Named, Answers, Nobody, TrackIdentity

\* One answer of the index: what the gate leaves in the identity, what the
\* batch is to commit, and the votes the two rest on.
LEMMA SearchedOnce ==
    ASSUME TypeOK, OnlyNamedContested, VotesCounted,
           NEW t \in DOMAIN cache, NEW a \in Answers,
           NEW g, g = Gated(cache[t], a),
           NEW d, d = Decision(cache[t], a),
           NEW v, v = Votes(t, a)
    PROVE  /\ v \in VoteType
           /\ g.user = None => g.candidate = None
           /\ g.candidate # None => v.name = g.candidate /\ v.votes >= g.streak
           /\ d.user # None /\ g.candidate # None => g.candidate \notin {d.user, d.second}
           /\ g.user # None /\ d.user \notin {None, g.user} => v.votes >= StreakNeeded(g)
<1> DEFINE id == cache[t]
           before == against[t]
           h == [id EXCEPT !.hint = HintLeft(id, a)]
<1>1. /\ id \in TrackIdentity /\ before \in VoteType
      /\ id.user = None => id.candidate = None
      /\ id.candidate # None => before.name = id.candidate /\ before.votes >= id.streak
  BY DEF TypeOK, OnlyNamedContested, VotesCounted, VoteType, MaxVotes
<1>2. /\ a.top \in Nobody /\ a.second \in Nobody /\ a.clear \in BOOLEAN
      /\ Named(id, a) \in {None, a.top}
      /\ a.second # None => a.second # a.top
  BY DEF Answers, Named, Nobody
<1>3. /\ h.user = id.user /\ h.candidate = id.candidate /\ h.streak = id.streak
      /\ h.frames = id.frames
      /\ id.streak \in 0..MaxVotes /\ before.votes \in 0..MaxVotes
      /\ StreakNeeded(id) \in 1..MaxVotes
  BY <1>1, StreakNeededBound DEF TrackIdentity, VoteType, MaxVotes
<1>4. StreakNeeded(g) = StreakNeeded(id) /\ g.user = id.user
  BY <1>1, GatedType DEF StreakNeeded
<1>5. NoVotes \in VoteType /\ MaxVotes \in Nat /\ MaxVotes >= 1 /\ 0 \in 0..MaxVotes
  BY VoteBounds DEF NoVotes, VoteType, Nobody
<1> DEFINE k == Streak(id, a)
           w == IF before.name = a.top THEN Capped(before.votes + 1, MaxVotes) ELSE 1
<1>6. k \in Nat /\ k >= 1
  BY <1>3 DEF Streak
<1>7. CASE Contradicts(id, a) /\ a.clear
  <2>1. Named(id, a) = a.top /\ a.top \notin {None, id.user} /\ id.user # None
    BY <1>2, <1>7 DEF Contradicts
  <2>2. v = [name |-> a.top, votes |-> w]
    BY <1>2, <1>7 DEF Votes, MaxVotes, Contradicts, Capped
  <2>3. w \in 0..MaxVotes /\ (w >= k \/ w = MaxVotes)
    BY <1>1, <1>3, <1>5, <2>1 DEF Capped, Streak
  <2>4. v \in VoteType /\ v.name = a.top /\ v.votes = w
    BY <1>2, <2>2, <2>3 DEF VoteType
  <2>5. CASE Blocked(id, a)
    <3>1. g = [h EXCEPT !.candidate = a.top, !.streak = k]
      BY <1>7, <2>5 DEF Gated
    <3>2. g.candidate = a.top /\ g.streak = k
      BY <1>1, <3>1 DEF TrackIdentity
    <3>3. k < StreakNeeded(id)
      BY <1>7, <2>5 DEF Blocked
    <3>4. w >= k
      BY <1>3, <1>6, <2>3, <3>3, VoteBounds
    <3>5. d.user = id.user /\ d.second = a.second
      BY <2>5 DEF Decision
    <3> QED
      BY <1>2, <1>4, <2>1, <2>4, <3>2, <3>4, <3>5
  <2>6. CASE ~Blocked(id, a)
    <3>1. g.candidate = None
      BY <1>1, <1>7, <2>6 DEF Gated, TrackIdentity
    <3>2. k >= StreakNeeded(id)
      BY <1>3, <1>6, <1>7, <2>6 DEF Blocked
    <3>3. w >= StreakNeeded(id)
      BY <1>3, <1>6, <2>3, <3>2, VoteBounds
    <3> QED
      BY <1>4, <2>4, <3>1, <3>3
  <2> QED
    BY <2>5, <2>6
<1>8. CASE Contradicts(id, a) /\ ~a.clear
  <2>1. Blocked(id, a) /\ Named(id, a) # None
    BY <1>8 DEF Blocked, Contradicts
  <2>2. g.candidate = None /\ v = NoVotes /\ d.user = id.user
    BY <1>1, <1>8, <2>1 DEF Gated, TrackIdentity, Votes, Decision
  <2> QED
    BY <1>4, <1>5, <2>2
<1>9. CASE ~Contradicts(id, a)
  <2>1. ~Blocked(id, a) /\ d.user = Named(id, a)
    BY <1>9 DEF Blocked, Decision
  <2>2. v = IF Named(id, a) = None THEN before ELSE NoVotes
    BY <1>9 DEF Votes
  <2>3. CASE Named(id, a) = id.user
    <3>1. g.candidate = None
      BY <1>1, <1>9, <2>1, <2>3 DEF Gated, TrackIdentity
    <3> QED
      BY <1>1, <1>4, <1>5, <2>1, <2>2, <2>3, <3>1
  <2>4. CASE Named(id, a) # id.user
    <3>1. g = h
      BY <1>9, <2>1, <2>4 DEF Gated
    <3>2. Named(id, a) = None \/ id.user = None
      BY <1>9, <2>4 DEF Contradicts
    <3> QED
      BY <1>1, <1>3, <1>4, <1>5, <2>1, <2>2, <3>1, <3>2
  <2> QED
    BY <2>3, <2>4
<1> QED
  BY <1>2, <1>7, <1>8, <1>9

\* A searched batch: what is decided of it and what is left of its identities.
LEMMA SearchKeepsInv ==
    ASSUME TrackerInv, NEW tracks \in SUBSET (DOMAIN cache),
           NEW answer, \A t \in tracks : answer[t] \in Answers,
           \A t \in tracks : cache[t].suppressed => cache[t].user # None,
           Search(tracks, answer),
           UNCHANGED <<graveyard, detected>>, audited' \subseteq Tracks, credited' = {}
    PROVE  TrackerInv'
<1> DEFINE g(t) == Gated(cache[t], answer[t])
           d(t) == Decision(cache[t], answer[t])
           v(t) == Votes(t, answer[t])
<1>1. /\ DOMAIN cache' = DOMAIN cache
      /\ \A t \in tracks : cache'[t] = g(t) /\ against'[t] = v(t) /\ decisions'[t] = d(t)
      /\ \A t \in DOMAIN cache \ tracks : cache'[t] = cache[t] /\ against'[t] = against[t]
      /\ DOMAIN decisions' = tracks
      /\ against' = [t \in Tracks |-> IF t \in tracks THEN v(t) ELSE against[t]]
      /\ phase' = "commit"
  BY DEF Search, TrackerInv, TypeOK
<1>2. ASSUME NEW t \in tracks
      PROVE  /\ g(t) \in TrackIdentity
             /\ g(t).user = cache[t].user /\ g(t).status = cache[t].status
             /\ g(t).suppressed = cache[t].suppressed
             /\ d(t) \in [user : Nobody, second : Nobody]
             /\ v(t) \in VoteType
             /\ g(t).user = None => g(t).candidate = None
             /\ g(t).candidate # None =>
                    v(t).name = g(t).candidate /\ v(t).votes >= g(t).streak
             /\ d(t).user # None /\ g(t).candidate # None =>
                    g(t).candidate \notin {d(t).user, d(t).second}
             /\ g(t).user # None /\ d(t).user \notin {None, g(t).user} =>
                    v(t).votes >= StreakNeeded(g(t))
  <2>1. cache[t] \in TrackIdentity /\ answer[t] \in Answers /\ t \in DOMAIN cache
    BY <1>2 DEF TrackerInv, TypeOK
  <2>2. /\ g(t) \in TrackIdentity
        /\ g(t).user = cache[t].user /\ g(t).status = cache[t].status
        /\ g(t).suppressed = cache[t].suppressed
        /\ d(t) \in [user : Nobody, second : Nobody]
    BY <2>1, GatedType, DecisionType
  <2>3. TypeOK /\ OnlyNamedContested /\ VotesCounted
    BY DEF TrackerInv
  <2>4. ASSUME NEW gg, gg = g(t), NEW dd, dd = d(t), NEW vv, vv = v(t)
        PROVE  /\ vv \in VoteType
               /\ gg.user = None => gg.candidate = None
               /\ gg.candidate # None => vv.name = gg.candidate /\ vv.votes >= gg.streak
               /\ dd.user # None /\ gg.candidate # None =>
                      gg.candidate \notin {dd.user, dd.second}
               /\ gg.user # None /\ dd.user \notin {None, gg.user} =>
                      vv.votes >= StreakNeeded(gg)
    BY <2>1, <2>3, <2>4, SearchedOnce
  <2> HIDE DEF g, d, v
  <2> QED
    BY <2>2, <2>4
<1> HIDE DEF g, d, v
<1>3. ASSUME NEW t \in DOMAIN cache
      PROVE  /\ cache'[t] \in TrackIdentity
             /\ cache'[t].user = cache[t].user /\ cache'[t].status = cache[t].status
             /\ cache'[t].suppressed = cache[t].suppressed
             /\ cache'[t].user = None => cache'[t].candidate = None
             /\ cache'[t].candidate # None =>
                    /\ against'[t].name = cache'[t].candidate
                    /\ against'[t].votes >= cache'[t].streak
  <2>1. CASE t \in tracks
    BY <1>1, <1>2, <2>1
  <2>2. CASE t \notin tracks
    <3>1. cache'[t] = cache[t] /\ against'[t] = against[t]
      BY <1>1, <2>2
    <3> QED
      BY <3>1 DEF TrackerInv, TypeOK, OnlyNamedContested, VotesCounted
  <2> QED
    BY <2>1, <2>2
<1>4. ASSUME NEW t \in tracks
      PROVE  /\ decisions'[t] \in [user : Nobody, second : Nobody]
             /\ decisions'[t].user # None /\ cache'[t].candidate # None =>
                    cache'[t].candidate \notin {decisions'[t].user, decisions'[t].second}
             /\ cache'[t].user # None /\ decisions'[t].user \notin {None, cache'[t].user} =>
                    against'[t].votes >= StreakNeeded(cache'[t])
  BY <1>1, <1>2
<1>5. TypeOK'
  <2>1. \A t \in Tracks : against[t] \in VoteType
    BY DEF TrackerInv, TypeOK, VoteType, MaxVotes
  <2>2. against' \in [Tracks -> VoteType]
    BY <1>1, <1>2, <2>1
  <2>3. \A t \in DOMAIN cache' :
           /\ cache'[t] \in TrackIdentity
           /\ cache'[t].status = "recognized" <=> cache'[t].user # None
    BY <1>1, <1>3 DEF TrackerInv, TypeOK
  <2> QED
    BY <1>1, <1>4, <2>2, <2>3 DEF TrackerInv, TypeOK, VoteType, MaxVotes
<1>6. Phases'
  BY <1>1 DEF TrackerInv, Phases
<1>7. OnlyNamedContested' /\ VotesCounted'
  BY <1>1, <1>3 DEF OnlyNamedContested, VotesCounted
<1>8. DecisionsSound'
  <2> SUFFICES ASSUME NEW t \in tracks
               PROVE  /\ cache'[t].suppressed => cache'[t].user # None
                      /\ decisions'[t].user # None /\ cache'[t].candidate # None =>
                             cache'[t].candidate \notin {decisions'[t].user, decisions'[t].second}
                      /\ cache'[t].user # None /\ decisions'[t].user \notin {None, cache'[t].user} =>
                             against'[t].votes >= StreakNeeded(cache'[t])
    BY <1>1 DEF DecisionsSound, StreakNeeded
  <2> QED
    BY <1>3, <1>4
<1>9. NoDoubleCredit'
  BY DEF NoDoubleCredit
<1> QED
  BY <1>5, <1>6, <1>7, <1>8, <1>9 DEF TrackerInv

\* What a commit may give to a track of the batch.
CommitOf(user) ==
    /\ DOMAIN user = DOMAIN decisions
    /\ \A t \in DOMAIN user :
         /\ user[t] \in {None, decisions[t].user, decisions[t].second}
         /\ user[t] # None => decisions[t].user # None

\* A commit: the votes that were spent are the only ones forgotten.
LEMMA CommitKeepsInv ==
    ASSUME TrackerInv, NEW user, CommitOf(user), Commit(user), phase = "commit",
           \/ phase' = "detect" /\ detected = {}
           \/ phase' = "emit" /\ detected # {},
           UNCHANGED <<graveyard, detected, audited, credited>>
    PROVE  TrackerInv'
<1>1. /\ DOMAIN cache' = DOMAIN cache /\ DOMAIN user \subseteq DOMAIN cache
      /\ \A t \in DOMAIN user : cache'[t] = Committed(cache[t], user[t])
      /\ \A t \in DOMAIN cache \ DOMAIN user : cache'[t] = cache[t]
      /\ against' = [t \in Tracks |->
                       IF t \in DOMAIN user /\ user[t] = against[t].name
                       THEN NoVotes ELSE against[t]]
      /\ DOMAIN decisions' = {}
      /\ credited' = {}
  BY DEF Commit, CommitOf, TrackerInv, TypeOK, Phases
<1>2. ASSUME NEW t \in DOMAIN user
      PROVE  user[t] \in Nobody
  BY DEF CommitOf, TrackerInv, TypeOK, Nobody
<1>3. ASSUME NEW t \in DOMAIN user
      PROVE  /\ cache'[t] \in TrackIdentity
             /\ cache'[t].status = "recognized" <=> cache'[t].user # None
             /\ cache'[t].candidate = cache[t].candidate
             /\ cache'[t].streak = cache[t].streak
             /\ cache'[t].user = None => cache[t].user = None
  <2>1. cache[t] \in TrackIdentity /\ (cache[t].status = "recognized" <=> cache[t].user # None)
    BY <1>1 DEF TrackerInv, TypeOK
  <2>2. cache'[t] = Committed(cache[t], user[t])
    BY <1>1
  <2>3. CASE user[t] # None
    BY <1>2, <2>1, <2>2, <2>3 DEF Committed, TrackIdentity
  <2>4. CASE user[t] = None /\ cache[t].status = "recognized"
    BY <2>1, <2>2, <2>4 DEF Committed
  <2>5. CASE user[t] = None /\ cache[t].status # "recognized"
    BY <2>1, <2>2, <2>5 DEF Committed, TrackIdentity
  <2> QED
    BY <2>3, <2>4, <2>5
<1>4. TypeOK'
  <2>1. against' \in [Tracks -> VoteType]
    BY <1>1, VoteBounds DEF TrackerInv, TypeOK, VoteType, MaxVotes, NoVotes, Nobody
  <2> QED
    BY <1>1, <1>3, <2>1 DEF TrackerInv, TypeOK, VoteType, MaxVotes
<1>5. Phases'
  BY <1>1 DEF TrackerInv, Phases
<1>6. OnlyNamedContested'
  BY <1>1, <1>3 DEF TrackerInv, OnlyNamedContested
<1>7. VotesCounted'
  <2> SUFFICES ASSUME NEW t \in DOMAIN cache, cache'[t].candidate # None
               PROVE  /\ against'[t].name = cache'[t].candidate
                      /\ against'[t].votes >= cache'[t].streak
    BY <1>1 DEF VotesCounted
  <2>1. cache[t].candidate # None /\ cache'[t].candidate = cache[t].candidate
        /\ cache'[t].streak = cache[t].streak
    BY <1>1, <1>3
  <2>2. against[t].name = cache[t].candidate /\ against[t].votes >= cache[t].streak
    BY <2>1 DEF TrackerInv, VotesCounted
  <2>3. t \in DOMAIN user => user[t] # against[t].name
    BY <2>1, <2>2 DEF CommitOf, TrackerInv, DecisionsSound
  <2>4. t \in Tracks
    BY DEF TrackerInv, TypeOK
  <2> QED
    BY <1>1, <2>1, <2>2, <2>3, <2>4
<1>8. DecisionsSound'
  BY <1>1 DEF DecisionsSound
<1>9. NoDoubleCredit'
  BY <1>1 DEF NoDoubleCredit
<1> QED
  BY <1>4, <1>5, <1>6, <1>7, <1>8, <1>9 DEF TrackerInv

LEMMA ExpireEffect ==
    ASSUME TypeOK, NEW active, Expire(active)
    PROVE  /\ DOMAIN cache' \subseteq DOMAIN cache
           /\ \A t \in DOMAIN cache \ DOMAIN cache' : t \notin active /\ cache[t].age = 2
           /\ \A t \in DOMAIN cache' : cache'[t] = cache[t] /\ against'[t] = against[t]
           /\ graveyard' \subseteq Users
           /\ against' \in [Tracks -> VoteType]
<1>1. PICK gone \in SUBSET {t \in DOMAIN cache \ active : cache[t].age = 2},
           kept \in SUBSET graveyard :
        /\ cache' = Restrict(cache, DOMAIN cache \ gone)
        /\ graveyard' = kept \cup {cache[t].user : t \in {x \in gone : Recognized(x)}}
        /\ against' = [t \in Tracks |-> IF t \in gone THEN NoVotes ELSE against[t]]
  BY DEF Expire
<1>2. cache' = [t \in DOMAIN cache \ gone |-> cache[t]]
  BY <1>1 DEF Restrict
<1>3. \A x \in gone : Recognized(x) => cache[x].user \in Users
  BY DEF TypeOK, Recognized, TrackIdentity, Nobody
<1>4. graveyard' \subseteq Users
  BY <1>1, <1>3 DEF TypeOK
<1>5. against' \in [Tracks -> VoteType]
  BY <1>1, VoteBounds DEF TypeOK, VoteType, MaxVotes, NoVotes, Nobody
<1>6. DOMAIN cache \subseteq Tracks
  BY DEF TypeOK
<1> QED
  BY <1>1, <1>2, <1>4, <1>5, <1>6

LEMMA NoDetectionsKeepsInv ==
    ASSUME TrackerInv, NoDetections
    PROVE  TrackerInv'
<1>1. TypeOK /\ Expire({}) /\ phase \in {"idle", "detect"} /\ phase' = "idle"
      /\ credited' = {} /\ audited' = {} /\ UNCHANGED <<detected, decisions>>
  BY DEF TrackerInv, NoDetections
<1>2. /\ DOMAIN cache' \subseteq DOMAIN cache
      /\ \A t \in DOMAIN cache' : cache'[t] = cache[t] /\ against'[t] = against[t]
      /\ graveyard' \subseteq Users
      /\ against' \in [Tracks -> VoteType]
  BY <1>1, ExpireEffect
<1>3. DOMAIN decisions' = {} /\ detected' = {}
  BY <1>1 DEF TrackerInv, Phases
<1>4. TypeOK'
  BY <1>1, <1>2, <1>3 DEF TypeOK, VoteType, MaxVotes
<1>5. Phases'
  BY <1>1, <1>3 DEF Phases
<1>6. OnlyNamedContested' /\ VotesCounted'
  BY <1>2 DEF TrackerInv, OnlyNamedContested, VotesCounted
<1>7. DecisionsSound' /\ NoDoubleCredit'
  BY <1>1, <1>3 DEF DecisionsSound, NoDoubleCredit
<1> QED
  BY <1>4, <1>5, <1>6, <1>7 DEF TrackerInv

\* A frame only makes identities older; new ones are nameless.
LEMMA DetectEffect ==
    ASSUME TypeOK, Detect
    PROVE  /\ DOMAIN cache' = DOMAIN cache \cup detected'
           /\ detected' \subseteq Tracks /\ detected' # {}
           /\ graveyard' \subseteq Users
           /\ \A t \in DOMAIN cache :
                /\ cache'[t] \in TrackIdentity
                /\ cache'[t].user = cache[t].user /\ cache'[t].status = cache[t].status
                /\ cache'[t].candidate = cache[t].candidate
                /\ cache'[t].streak = cache[t].streak
                /\ cache'[t].suppressed = cache[t].suppressed
           /\ \A t \in DOMAIN cache' \ DOMAIN cache :
                /\ cache'[t] \in TrackIdentity
                /\ cache'[t].user = None /\ cache'[t].status = "pending"
                /\ cache'[t].candidate = None
<1> DEFINE new == detected' \ DOMAIN cache
<1>1. PICK hint \in Hints(new), older \in SUBSET (DOMAIN cache \ detected') :
           /\ cache' = Aged(Over([t \in new |-> NewIdentity(hint[t])], cache), older)
           /\ graveyard' = graveyard \ Range(hint)
  BY DEF Detect
<1>2. detected' \subseteq Tracks /\ detected' # {}
  <2>1. detected' \in (SUBSET Tracks) \ {{}}
    BY DEF Detect
  <2> QED
    BY <2>1
<1> DEFINE made == [t \in new |-> NewIdentity(hint[t])]
           ids == Over(made, cache)
           grown(id) == [id EXCEPT !.age = 0, !.frames = Capped(@ + 1, SteadyFrames)]
           older_(id) == [id EXCEPT !.age = Capped(@ + 1, 2)]
<1>3. DOMAIN ids = DOMAIN cache \cup detected'
  BY DEF Over
<1>4. ASSUME NEW t \in new
      PROVE  ids[t] = NewIdentity(hint[t]) /\ NewIdentity(hint[t]) \in TrackIdentity
  <2>1. hint[t] \in Nobody
    BY DEF Hints, TypeOK, Nobody
  <2> QED
    BY <2>1, NewIdentityType DEF Over
<1>5. ASSUME NEW t \in DOMAIN cache
      PROVE  ids[t] = cache[t] /\ cache[t] \in TrackIdentity
  BY DEF Over, TypeOK
<1>6. ASSUME NEW id \in TrackIdentity, NEW aged \in {id, grown(id), older_(id)}
      PROVE  /\ aged \in TrackIdentity
             /\ aged.user = id.user /\ aged.status = id.status
             /\ aged.candidate = id.candidate /\ aged.streak = id.streak
             /\ aged.suppressed = id.suppressed
  <2>1. id.frames \in Nat /\ id.age \in Nat
    BY VoteBounds DEF TrackIdentity
  <2>2. PICK f \in 0..SteadyFrames, o \in 0..2 :
             f = Capped(id.frames + 1, SteadyFrames) /\ o = Capped(id.age + 1, 2)
    <3>1. id.frames + 1 \in Nat /\ id.age + 1 \in Nat /\ 2 \in Nat /\ SteadyFrames \in Nat
      BY <2>1, VoteBounds
    <3>2. Capped(id.frames + 1, SteadyFrames) \in 0..SteadyFrames
      BY <3>1, CappedBound
    <3>3. Capped(id.age + 1, 2) \in 0..2
      BY <3>1, CappedBound
    <3> QED
      BY <3>2, <3>3
  <2>3. grown(id) = [[id EXCEPT !.age = 0] EXCEPT !.frames = f]
        /\ older_(id) = [id EXCEPT !.age = o]
    BY <2>2
  <2>4. aged \in {id, [[id EXCEPT !.age = 0] EXCEPT !.frames = f], [id EXCEPT !.age = o]}
    BY <1>6, <2>3
  <2> HIDE DEF grown, older_
  <2>5. CASE aged = [[id EXCEPT !.age = 0] EXCEPT !.frames = f]
    <3> DEFINE young == [id EXCEPT !.age = 0]
    <3>1. /\ young \in TrackIdentity
          /\ young.user = id.user /\ young.status = id.status
          /\ young.candidate = id.candidate /\ young.streak = id.streak
          /\ young.suppressed = id.suppressed
      BY DEF TrackIdentity
    <3>2. aged = [young EXCEPT !.frames = f]
      BY <2>5
    <3> HIDE DEF young
    <3> QED
      BY <3>1, <3>2 DEF TrackIdentity
  <2>6. CASE aged = [id EXCEPT !.age = o]
    BY <2>6 DEF TrackIdentity
  <2> QED
    BY <2>4, <2>5, <2>6
<1>7. ASSUME NEW t \in DOMAIN ids
      PROVE  cache'[t] \in {ids[t], grown(ids[t]), older_(ids[t])}
  <2>1. cache'[t] = CASE t \in detected' -> grown(ids[t])
                      [] t \in older -> older_(ids[t])
                      [] OTHER -> ids[t]
    BY <1>1, <1>7 DEF Aged
  <2> HIDE DEF grown, older_, ids
  <2> QED
    BY <2>1
<1>8. DOMAIN cache' = DOMAIN ids
  BY <1>1 DEF Aged
<1>9. graveyard' \subseteq Users
  BY <1>1 DEF TypeOK
<1> HIDE DEF grown, older_, ids, made
<1>10. ASSUME NEW t \in DOMAIN cache
       PROVE  /\ cache'[t] \in TrackIdentity
              /\ cache'[t].user = cache[t].user /\ cache'[t].status = cache[t].status
              /\ cache'[t].candidate = cache[t].candidate
              /\ cache'[t].streak = cache[t].streak
              /\ cache'[t].suppressed = cache[t].suppressed
  BY <1>3, <1>5, <1>6, <1>7
<1>11. ASSUME NEW t \in DOMAIN cache' \ DOMAIN cache
       PROVE  /\ cache'[t] \in TrackIdentity
              /\ cache'[t].user = None /\ cache'[t].status = "pending"
              /\ cache'[t].candidate = None
  <2>1. t \in new /\ t \in DOMAIN ids
    BY <1>3, <1>8
  <2>2. ids[t] \in TrackIdentity /\ ids[t].user = None /\ ids[t].status = "pending"
        /\ ids[t].candidate = None
    <3>1. ids[t] = NewIdentity(hint[t]) /\ NewIdentity(hint[t]) \in TrackIdentity
      BY <1>4, <2>1
    <3>2. \A h : NewIdentity(h).user = None /\ NewIdentity(h).status = "pending"
                 /\ NewIdentity(h).candidate = None
      BY DEF NewIdentity
    <3> QED
      BY <3>1, <3>2
  <2> QED
    BY <1>6, <1>7, <2>1, <2>2
<1> QED
  BY <1>2, <1>3, <1>8, <1>9, <1>10, <1>11

LEMMA DetectKeepsInv ==
    ASSUME TrackerInv, Detect
    PROVE  TrackerInv'
<1>1. TypeOK /\ phase' = "liveness" /\ credited' = {} /\ UNCHANGED <<audited, decisions, against>>
      /\ phase \in {"idle", "detect"}
  BY DEF TrackerInv, Detect
<1>2. DOMAIN decisions' = {}
  BY <1>1 DEF TrackerInv, Phases
<1>3. ASSUME NEW t \in DOMAIN cache'
      PROVE  /\ cache'[t] \in TrackIdentity
             /\ cache'[t].status = "recognized" <=> cache'[t].user # None
             /\ cache'[t].user = None => cache'[t].candidate = None
             /\ cache'[t].candidate # None =>
                    /\ against'[t].name = cache'[t].candidate
                    /\ against'[t].votes >= cache'[t].streak
  <2>1. CASE t \in DOMAIN cache
    <3>1. /\ cache'[t] \in TrackIdentity
          /\ cache'[t].user = cache[t].user /\ cache'[t].status = cache[t].status
          /\ cache'[t].candidate = cache[t].candidate
          /\ cache'[t].streak = cache[t].streak
      BY <1>1, <2>1, DetectEffect
    <3> QED
      BY <1>1, <2>1, <3>1 DEF TrackerInv, TypeOK, OnlyNamedContested, VotesCounted
  <2>2. CASE t \notin DOMAIN cache
    BY <1>1, <2>2, DetectEffect
  <2> QED
    BY <2>1, <2>2
<1>4. /\ DOMAIN cache' = DOMAIN cache \cup detected'
      /\ detected' \subseteq Tracks /\ detected' # {} /\ graveyard' \subseteq Users
  BY <1>1, DetectEffect
<1>5. TypeOK'
  BY <1>1, <1>2, <1>3, <1>4 DEF TypeOK
<1>6. Phases'
  BY <1>1, <1>2, <1>4 DEF Phases
<1>7. OnlyNamedContested' /\ VotesCounted'
  BY <1>3 DEF OnlyNamedContested, VotesCounted
<1>8. DecisionsSound' /\ NoDoubleCredit'
  BY <1>1, <1>2 DEF DecisionsSound, NoDoubleCredit
<1> QED
  BY <1>5, <1>6, <1>7, <1>8 DEF TrackerInv

LEMMA VerdictEffect ==
    ASSUME NEW id \in TrackIdentity, NEW real \in BOOLEAN
    PROVE  /\ Verdict(id, real) \in TrackIdentity
           /\ Verdict(id, real).user = id.user /\ Verdict(id, real).status = id.status
           /\ Verdict(id, real).candidate = id.candidate
           /\ Verdict(id, real).streak = id.streak
<1> DEFINE needed == IF id.suppressed THEN RealVerdicts ELSE SpoofVerdicts
           next == Verdict(id, real)
<1>1. id.contrary \in 0..(SpoofVerdicts + RealVerdicts) /\ needed \in Nat
      /\ needed <= SpoofVerdicts + RealVerdicts /\ 0 \in 0..(SpoofVerdicts + RealVerdicts)
  BY VoteBounds DEF TrackIdentity
<1>2. CASE real # id.suppressed
  <2>1. next = [id EXCEPT !.contrary = 0]
    BY <1>2 DEF Verdict
  <2> QED
    BY <1>1, <2>1 DEF TrackIdentity
<1>3. CASE real = id.suppressed /\ id.contrary + 1 < needed
  <2>1. next = [id EXCEPT !.contrary = id.contrary + 1]
    BY <1>3 DEF Verdict
  <2>2. id.contrary + 1 \in 0..(SpoofVerdicts + RealVerdicts)
    BY <1>1, <1>3, VoteBounds
  <2> QED
    BY <2>1, <2>2 DEF TrackIdentity
<1>4. CASE real = id.suppressed /\ ~(id.contrary + 1 < needed)
  <2> DEFINE calm == [id EXCEPT !.contrary = 0]
  <2>1. next = [calm EXCEPT !.suppressed = ~real]
    BY <1>4 DEF Verdict
  <2>2. /\ calm \in TrackIdentity
        /\ calm.user = id.user /\ calm.status = id.status
        /\ calm.candidate = id.candidate /\ calm.streak = id.streak
    BY <1>1 DEF TrackIdentity
  <2>3. (~real) \in BOOLEAN
    <3>1. CASE real
      BY <3>1
    <3>2. CASE ~real
      BY <3>2
    <3> QED
      BY <3>1, <3>2
  <2> HIDE DEF calm
  <2> QED
    BY <2>1, <2>2, <2>3 DEF TrackIdentity
<1> QED
  BY <1>2, <1>3, <1>4

LEMMA LivenessEffect ==
    ASSUME TypeOK, RunLivenessBatch
    PROVE  /\ DOMAIN cache' = DOMAIN cache
           /\ \A t \in DOMAIN cache :
                /\ cache'[t] \in TrackIdentity
                /\ cache'[t].user = cache[t].user /\ cache'[t].status = cache[t].status
                /\ cache'[t].candidate = cache[t].candidate
                /\ cache'[t].streak = cache[t].streak
<1>1. PICK checked \in SUBSET {t \in detected \ audited : cache[t].frames > 1},
           real \in SUBSET {t \in detected \ audited : cache[t].frames > 1} :
         cache' = [t \in DOMAIN cache |->
                     IF t \in checked THEN Verdict(cache[t], t \in real) ELSE cache[t]]
  BY DEF RunLivenessBatch
<1>2. ASSUME NEW t \in DOMAIN cache
      PROVE  /\ cache'[t] \in TrackIdentity
             /\ cache'[t].user = cache[t].user /\ cache'[t].status = cache[t].status
             /\ cache'[t].candidate = cache[t].candidate
             /\ cache'[t].streak = cache[t].streak
  <2>1. cache[t] \in TrackIdentity
    BY DEF TypeOK
  <2>2. (t \in real) \in BOOLEAN
    OBVIOUS
  <2> DEFINE next == Verdict(cache[t], t \in real)
  <2>3. /\ next \in TrackIdentity
        /\ next.user = cache[t].user /\ next.status = cache[t].status
        /\ next.candidate = cache[t].candidate /\ next.streak = cache[t].streak
    BY <2>1, <2>2, VerdictEffect
  <2>4. cache'[t] \in {cache[t], next}
    BY <1>1
  <2> HIDE DEF next
  <2> QED
    BY <2>1, <2>3, <2>4
<1> QED
  BY <1>1, <1>2

LEMMA LivenessKeepsInv ==
    ASSUME TrackerInv, RunLivenessBatch
    PROVE  TrackerInv'
<1>1. /\ TypeOK /\ phase = "liveness" /\ phase' = "handoff"
      /\ UNCHANGED <<graveyard, detected, audited, decisions, credited, against>>
  BY DEF TrackerInv, RunLivenessBatch
<1>2. /\ DOMAIN cache' = DOMAIN cache
      /\ \A t \in DOMAIN cache :
           /\ cache'[t] \in TrackIdentity
           /\ cache'[t].user = cache[t].user /\ cache'[t].status = cache[t].status
           /\ cache'[t].candidate = cache[t].candidate
           /\ cache'[t].streak = cache[t].streak
  BY <1>1, LivenessEffect
<1>3. DOMAIN decisions' = {} /\ credited' = {}
  BY <1>1 DEF TrackerInv, Phases
<1>4. TypeOK'
  BY <1>1, <1>2, <1>3 DEF TypeOK
<1>5. Phases'
  BY <1>1, <1>2, <1>3 DEF TrackerInv, Phases
<1>6. OnlyNamedContested' /\ VotesCounted'
  BY <1>1, <1>2 DEF TrackerInv, OnlyNamedContested, VotesCounted
<1>7. DecisionsSound' /\ NoDoubleCredit'
  BY <1>3 DEF DecisionsSound, NoDoubleCredit
<1> QED
  BY <1>4, <1>5, <1>6, <1>7 DEF TrackerInv

\* A hand-off: each heir has one donor, each donor one heir, and the donor is
\* gone from the cache when the heir has its name.
LEMMA HandoffEffect ==
    ASSUME TypeOK, detected \subseteq DOMAIN cache, PerformIdentityHandoff
    PROVE  \E heirs \in SUBSET Newborns, left \in SUBSET Donors :
           \E from \in [heirs -> left] :
             /\ heirs \cap left = {}
             /\ \A s, t \in heirs : from[s] = from[t] => s = t
             /\ DOMAIN cache' = DOMAIN cache \ left
             /\ \A t \in heirs : cache'[t] = HandedOver(cache[t], cache[from[t]])
             /\ \A t \in DOMAIN cache' \ heirs : cache'[t] = cache[t]
             /\ against' = [t \in Tracks |-> IF t \in left THEN NoVotes ELSE against[t]]
             /\ audited' = audited \cup heirs
<1> DEFINE moves(near) == {p \in near : Alone(p, near)}
           From(near, t) == CHOOSE d \in Donors : <<d, t>> \in moves(near)
           heirs(near) == {p[2] : p \in moves(near)}
<1>1. PICK near \in SUBSET (Donors \X Newborns) :
        /\ cache' = [t \in DOMAIN cache \ Left(moves(near)) |->
                       IF t \in heirs(near)
                       THEN HandedOver(cache[t], cache[From(near, t)]) ELSE cache[t]]
        /\ against' = [t \in Tracks |-> IF t \in Left(moves(near)) THEN NoVotes ELSE against[t]]
        /\ audited' = audited \cup heirs(near)
  BY DEF PerformIdentityHandoff
<1> DEFINE H == heirs(near)
           L == Left(moves(near))
           f == [t \in H |-> From(near, t)]
<1>2. H \in SUBSET Newborns /\ L \in SUBSET Donors
  BY DEF Left
<1>3. ASSUME NEW t \in H
      PROVE  From(near, t) \in Donors /\ <<From(near, t), t>> \in moves(near)
  <2>1. PICK p \in moves(near) : t = p[2]
    OBVIOUS
  <2>2. p[1] \in Donors /\ p = <<p[1], t>>
    BY <2>1
  <2>3. \E d \in Donors : <<d, t>> \in moves(near)
    BY <2>2
  <2> QED
    BY <2>3
<1>4. f \in [H -> L]
  <2>1. ASSUME NEW t \in H
        PROVE  From(near, t) \in L
    BY <1>3 DEF Left
  <2> QED
    BY <2>1
<1>5. ASSUME NEW s \in H, NEW t \in H, f[s] = f[t]
      PROVE  s = t
  <2>1. <<f[s], s>> \in moves(near) /\ <<f[t], t>> \in moves(near)
    BY <1>3
  <2>2. Alone(<<f[s], s>>, near) /\ <<f[t], t>> \in near
    BY <2>1
  <2> QED
    BY <1>5, <2>2 DEF Alone
<1>6. H \cap L = {}
  BY <1>2 DEF Donors, Newborns
<1>7. H \subseteq DOMAIN cache
  BY <1>2 DEF Newborns
<1>8. DOMAIN cache' = DOMAIN cache \ L
  BY <1>1
<1>9. \A t \in H : cache'[t] = HandedOver(cache[t], cache[f[t]])
  BY <1>1, <1>6, <1>7
<1>10. \A t \in DOMAIN cache' \ H : cache'[t] = cache[t]
  BY <1>1
<1>11. /\ against' = [t \in Tracks |-> IF t \in L THEN NoVotes ELSE against[t]]
       /\ audited' = audited \cup H
  BY <1>1
<1> HIDE DEF H, L, f
<1> QED
  BY <1>2, <1>4, <1>5, <1>6, <1>8, <1>9, <1>10, <1>11

LEMMA HandoffKeepsInv ==
    ASSUME TrackerInv, PerformIdentityHandoff
    PROVE  TrackerInv'
<1>1. /\ TypeOK /\ detected \subseteq DOMAIN cache /\ phase = "handoff" /\ phase' = "search"
      /\ UNCHANGED <<graveyard, detected, decisions, credited>>
  BY DEF TrackerInv, Phases, PerformIdentityHandoff
<1>2. PICK heirs \in SUBSET Newborns, left \in SUBSET Donors :
        \E from \in [heirs -> left] :
             /\ heirs \cap left = {}
             /\ \A s, t \in heirs : from[s] = from[t] => s = t
             /\ DOMAIN cache' = DOMAIN cache \ left
             /\ \A t \in heirs : cache'[t] = HandedOver(cache[t], cache[from[t]])
             /\ \A t \in DOMAIN cache' \ heirs : cache'[t] = cache[t]
             /\ against' = [t \in Tracks |-> IF t \in left THEN NoVotes ELSE against[t]]
             /\ audited' = audited \cup heirs
  BY <1>1, HandoffEffect
<1>3. PICK from \in [heirs -> left] :
             /\ DOMAIN cache' = DOMAIN cache \ left
             /\ \A t \in heirs : cache'[t] = HandedOver(cache[t], cache[from[t]])
             /\ \A t \in DOMAIN cache' \ heirs : cache'[t] = cache[t]
             /\ against' = [t \in Tracks |-> IF t \in left THEN NoVotes ELSE against[t]]
             /\ audited' = audited \cup heirs
  BY <1>2
<1>4. ASSUME NEW t \in heirs
      PROVE  /\ cache'[t] \in TrackIdentity
             /\ cache'[t].status = "recognized" /\ cache'[t].user # None
             /\ cache'[t].candidate = None
  <2>1. t \in DOMAIN cache /\ t \in detected /\ cache[t] \in TrackIdentity /\ cache[t].user = None
    BY <1>1 DEF Newborns, TypeOK
  <2>2. cache[t].candidate = None
    BY <2>1 DEF TrackerInv, OnlyNamedContested
  <2>3. from[t] \in DOMAIN cache /\ cache[from[t]].user # None /\ cache[from[t]].user \in Nobody
    BY DEF Donors, Recognized, TrackerInv, TypeOK, TrackIdentity
  <2> DEFINE u == cache[from[t]].user
  <2>4. cache'[t] = [[[cache[t] EXCEPT !.user = u] EXCEPT !.status = "recognized"] EXCEPT !.hint = None]
    BY <1>3 DEF HandedOver
  <2> HIDE DEF u
  <2>5. u \in Nobody /\ u # None /\ None \in Nobody
    BY <2>3 DEF u, Nobody
  <2> QED
    BY <2>1, <2>2, <2>4, <2>5 DEF TrackIdentity
<1>5. ASSUME NEW t \in DOMAIN cache'
      PROVE  /\ cache'[t] \in TrackIdentity
             /\ cache'[t].status = "recognized" <=> cache'[t].user # None
             /\ cache'[t].user = None => cache'[t].candidate = None
             /\ cache'[t].candidate # None =>
                    /\ against'[t].name = cache'[t].candidate
                    /\ against'[t].votes >= cache'[t].streak
  <2>1. CASE t \in heirs
    BY <1>4, <2>1
  <2>2. CASE t \notin heirs
    <3>1. cache'[t] = cache[t] /\ t \in DOMAIN cache /\ t \in Tracks /\ t \notin left
      BY <1>3, <2>2 DEF TrackerInv, TypeOK
    <3>2. against'[t] = against[t]
      BY <1>3, <3>1
    <3> QED
      BY <3>1, <3>2 DEF TrackerInv, TypeOK, OnlyNamedContested, VotesCounted
  <2> QED
    BY <2>1, <2>2
<1>6. against' \in [Tracks -> VoteType]
  BY <1>3, VoteBounds DEF TrackerInv, TypeOK, VoteType, MaxVotes, NoVotes, Nobody
<1>7. heirs \subseteq Tracks /\ detected \cap left = {}
  BY DEF Newborns, Donors, TrackerInv, TypeOK
<1>8. DOMAIN decisions' = {} /\ credited' = {} /\ DOMAIN cache' \subseteq DOMAIN cache
  BY <1>1, <1>3 DEF TrackerInv, Phases
<1>9. TypeOK'
  BY <1>1, <1>3, <1>5, <1>6, <1>7, <1>8 DEF TypeOK, VoteType, MaxVotes
<1>10. Phases'
  BY <1>1, <1>3, <1>7, <1>8 DEF TrackerInv, Phases
<1>11. OnlyNamedContested' /\ VotesCounted'
  BY <1>5 DEF OnlyNamedContested, VotesCounted
<1>12. DecisionsSound' /\ NoDoubleCredit'
  BY <1>8 DEF DecisionsSound, NoDoubleCredit
<1> QED
  BY <1>9, <1>10, <1>11, <1>12 DEF TrackerInv

LEMMA PeriodicRevalidationKeepsInv ==
    ASSUME TrackerInv, PeriodicRevalidation
    PROVE  TrackerInv'
<1>1. PICK tracks \in SUBSET {t \in DOMAIN cache : Recognized(t)} :
        \E answer \in [tracks -> {a \in Answers : a.second = None /\ (a.score = "near" => a.top = None)}] :
           audited' = tracks /\ Search(tracks, answer)
  BY DEF PeriodicRevalidation
<1>2. PICK answer \in [tracks -> Answers] : audited' = tracks /\ Search(tracks, answer)
  BY <1>1
<1>3. credited' = {} /\ UNCHANGED <<graveyard, detected>>
  BY DEF PeriodicRevalidation
<1>4. tracks \in SUBSET (DOMAIN cache) /\ tracks \subseteq Tracks
  BY DEF TrackerInv, TypeOK
<1>5. \A t \in tracks : answer[t] \in Answers
  OBVIOUS
<1>6. \A t \in tracks : cache[t].suppressed => cache[t].user # None
  BY DEF Recognized, TrackerInv, TypeOK
<1> QED
  BY <1>2, <1>3, <1>4, <1>5, <1>6, SearchKeepsInv

LEMMA RecognizeBatchKeepsInv ==
    ASSUME TrackerInv, RecognizeBatch
    PROVE  TrackerInv'
<1>1. PICK tracks \in SUBSET Searchable :
        \E answer \in [tracks -> Answers] : Search(tracks, answer)
  BY DEF RecognizeBatch
<1>2. PICK answer \in [tracks -> Answers] : Search(tracks, answer)
  BY <1>1
<1>3. UNCHANGED <<graveyard, detected>> /\ audited' = audited /\ credited' = {}
      /\ audited \subseteq Tracks
  BY DEF RecognizeBatch, TrackerInv, Phases, TypeOK
<1>4. tracks \in SUBSET (DOMAIN cache)
  BY DEF Searchable, TrackerInv, Phases
<1>5. \A t \in tracks : answer[t] \in Answers
  OBVIOUS
<1>6. \A t \in tracks : cache[t].suppressed => cache[t].user # None
  BY DEF Searchable
<1> QED
  BY <1>2, <1>3, <1>4, <1>5, <1>6, SearchKeepsInv

\* Every commit gives a track what was decided for it, or what the mutex made
\* of that; and it renames a track only with the votes, or from a name that
\* another searched track holds too.
Earned(user) ==
    \A t \in DOMAIN user :
        cache[t].user # None /\ user[t] \notin {None, cache[t].user} =>
            against[t].votes >= StreakNeeded(cache[t]) \/ Contested(t)

LEMMA RevalidationCommitEffect ==
    ASSUME TrackerInv, RevalidationCommits
    PROVE  \E user : CommitOf(user) /\ Commit(user) /\ Earned(user)
<1> DEFINE first == [t \in DOMAIN decisions |-> decisions[t].user]
<1>1. Commit(first)
  BY DEF RevalidationCommits
<1>2. CommitOf(first)
  BY DEF CommitOf
<1>3. Earned(first)
  BY DEF Earned, TrackerInv, DecisionsSound
<1> HIDE DEF first
<1> QED
  BY <1>1, <1>2, <1>3

LEMMA MutexCommitEffect ==
    ASSUME TrackerInv, ResolveFrameMutex
    PROVE  \E user : CommitOf(user) /\ Commit(user) /\ Earned(user)
<1> DEFINE first == [t \in DOMAIN decisions |-> decisions[t].user]
           Taken(kept) == {cache[t].user : t \in kept}
           Rivals(kept) == {t \in DOMAIN decisions \ kept : decisions[t].user # None}
<1>1. PICK kept \in Incumbents :
        \/ \E share \in Shares(Rivals(kept), Taken(kept)) : Commit(Over(share, first))
        \/ Commit(first)
  BY DEF ResolveFrameMutex
<1>2. CASE Commit(first)
  <2>1. CommitOf(first)
    BY DEF CommitOf
  <2>2. Earned(first)
    BY DEF Earned, TrackerInv, DecisionsSound
  <2> HIDE DEF first
  <2> QED
    BY <1>2, <2>1, <2>2
<1>3. ASSUME NEW share \in Shares(Rivals(kept), Taken(kept)), Commit(Over(share, first))
      PROVE  \E user : CommitOf(user) /\ Commit(user) /\ Earned(user)
  <2> DEFINE R == Rivals(kept)
             user == Over(share, first)
  <2>1. DOMAIN share = R /\ R \subseteq DOMAIN decisions
    BY DEF Shares
  <2>2. ASSUME NEW t \in R
        PROVE  share[t] \in {None, decisions[t].user, decisions[t].second}
               /\ decisions[t].user # None
    BY DEF Shares, Wanted
  <2>3. DOMAIN user = DOMAIN decisions
    BY <2>1 DEF Over
  <2>4. ASSUME NEW t \in DOMAIN decisions
        PROVE  user[t] = IF t \in R THEN share[t] ELSE decisions[t].user
    BY <2>1 DEF Over
  <2> HIDE DEF user, R
  <2>5. CommitOf(user)
    BY <2>2, <2>3, <2>4 DEF CommitOf
  <2>6. ASSUME NEW t \in DOMAIN user, cache[t].user # None, user[t] \notin {None, cache[t].user}
        PROVE  against[t].votes >= StreakNeeded(cache[t]) \/ Contested(t)
    <3>1. t \in DOMAIN decisions /\ decisions[t].user # None
      BY <2>2, <2>3, <2>4, <2>6
    <3>2. CASE decisions[t].user # cache[t].user
      BY <2>6, <3>1, <3>2 DEF TrackerInv, DecisionsSound
    <3>3. CASE decisions[t].user = cache[t].user
      <4>1. t \in R
        BY <2>4, <2>6, <3>1, <3>3
      <4>2. t \in Confirmed /\ t \notin kept
        BY <2>6, <3>1, <3>3, <4>1 DEF Confirmed, Recognized, TrackerInv, TypeOK, R
      <4>3. Cardinality({s \in kept : cache[s].user = cache[t].user}) = 1
        BY <4>2 DEF Incumbents
      <4>4. {s \in kept : cache[s].user = cache[t].user} # {}
        BY <4>3, OneIsSome
      <4>5. PICK s \in kept : cache[s].user = cache[t].user
        BY <4>4
      <4>6. s # t /\ s \in DOMAIN decisions /\ Recognized(s)
        BY <4>2 DEF Incumbents, Confirmed
      <4> QED
        BY <4>5, <4>6 DEF Contested
    <3> QED
      BY <3>2, <3>3
  <2>7. Earned(user)
    BY <2>6 DEF Earned
  <2>8. Commit(user)
    BY <1>3 DEF user
  <2> QED
    BY <2>5, <2>7, <2>8
<1> HIDE DEF first, Taken, Rivals
<1> QED
  BY <1>1, <1>2, <1>3

LEMMA CommitsKeepInv ==
    ASSUME TrackerInv, RevalidationCommits \/ ResolveFrameMutex
    PROVE  TrackerInv'
<1>1. PICK user : CommitOf(user) /\ Commit(user)
  BY RevalidationCommitEffect, MutexCommitEffect
<1>2. /\ phase = "commit"
      /\ \/ phase' = "detect" /\ detected = {}
         \/ phase' = "emit" /\ detected # {}
      /\ UNCHANGED <<graveyard, detected, audited, credited>>
  BY DEF RevalidationCommits, ResolveFrameMutex
<1> QED
  BY <1>1, <1>2, CommitKeepsInv

\* The end of a frame: what it is emitted with names nobody twice, and the
\* tracks forgotten with it are not among those.
LEMMA EmitKeepsInv ==
    ASSUME TrackerInv, Emit
    PROVE  TrackerInv'
<1>1. /\ TypeOK /\ Expire(detected) /\ phase = "emit" /\ phase' = "idle"
      /\ detected' = {} /\ audited' = {} /\ UNCHANGED decisions
  BY DEF TrackerInv, Emit
<1>2. /\ DOMAIN cache' \subseteq DOMAIN cache
      /\ \A t \in DOMAIN cache \ DOMAIN cache' : t \notin detected /\ cache[t].age = 2
      /\ \A t \in DOMAIN cache' : cache'[t] = cache[t] /\ against'[t] = against[t]
      /\ graveyard' \subseteq Users
      /\ against' \in [Tracks -> VoteType]
  BY <1>1, ExpireEffect
<1>3. DOMAIN decisions' = {}
  BY <1>1 DEF TrackerInv, Phases
<1>4. PICK shown \in SUBSET Painted : credited' \in Deduplicated(shown)
  BY DEF Emit
<1>5. credited' \subseteq DOMAIN cache'
  <2> SUFFICES ASSUME NEW t \in credited' PROVE t \in DOMAIN cache'
    OBVIOUS
  <2>1. t \in DOMAIN cache /\ (t \in detected \/ cache[t].age = 0)
    BY <1>4 DEF Deduplicated, Painted
  <2> QED
    BY <1>2, <2>1
<1>6. NoDoubleCredit'
  <2> SUFFICES ASSUME NEW s \in credited', NEW t \in credited',
                      cache'[s].user = cache'[t].user
               PROVE  s = t
    BY DEF NoDoubleCredit
  <2> DEFINE same == {x \in credited' : cache[x].user = cache[t].user}
  <2>1. Cardinality(same) = 1
    BY <1>4 DEF Deduplicated
  <2>2. cache'[s] = cache[s] /\ cache'[t] = cache[t]
    BY <1>2, <1>5
  <2>3. s \in same /\ t \in same
    BY <2>2
  <2>4. same \subseteq Tracks
    BY <1>1, <1>2, <1>5 DEF TypeOK
  <2>5. IsFiniteSet(same)
    BY <2>4, FS_Subset, TrackerAssumption DEF TrackerAssumption
  <2> HIDE DEF same
  <2> QED
    BY <2>1, <2>3, <2>5, OneIsAlone
<1>7. TypeOK'
  BY <1>1, <1>2, <1>3, <1>5 DEF TypeOK, VoteType, MaxVotes
<1>8. Phases'
  BY <1>1, <1>3 DEF Phases
<1>9. OnlyNamedContested' /\ VotesCounted'
  BY <1>2 DEF TrackerInv, OnlyNamedContested, VotesCounted
<1>10. DecisionsSound'
  BY <1>3 DEF DecisionsSound
<1> QED
  BY <1>6, <1>7, <1>8, <1>9, <1>10 DEF TrackerInv

LEMMA InitInv == Init => TrackerInv
<1> SUFFICES ASSUME Init PROVE TrackerInv
  OBVIOUS
<1>1. DOMAIN cache = {} /\ DOMAIN decisions = {}
  BY DEF Init
<1>2. TypeOK
  BY <1>1, VoteBounds DEF Init, TypeOK, NoVotes, Nobody, MaxVotes
<1> QED
  BY <1>1, <1>2 DEF Init, TrackerInv, Phases, OnlyNamedContested, VotesCounted,
                    DecisionsSound, NoDoubleCredit

LEMMA NextInv == TrackerInv /\ [Next]_vars => TrackerInv'
<1> SUFFICES ASSUME TrackerInv, [Next]_vars PROVE TrackerInv'
  OBVIOUS
<1>1. CASE PeriodicRevalidation
  BY <1>1, PeriodicRevalidationKeepsInv
<1>2. CASE RevalidationCommits \/ ResolveFrameMutex
  BY <1>2, CommitsKeepInv
<1>3. CASE NoDetections
  BY <1>3, NoDetectionsKeepsInv
<1>4. CASE Detect
  BY <1>4, DetectKeepsInv
<1>5. CASE RunLivenessBatch
  BY <1>5, LivenessKeepsInv
<1>6. CASE PerformIdentityHandoff
  BY <1>6, HandoffKeepsInv
<1>7. CASE RecognizeBatch
  BY <1>7, RecognizeBatchKeepsInv
<1>8. CASE Emit
  BY <1>8, EmitKeepsInv
<1>9. CASE UNCHANGED vars
  BY <1>9 DEF vars, TrackerInv, TypeOK, Phases, OnlyNamedContested, VotesCounted,
              DecisionsSound, NoDoubleCredit
<1> QED
  BY <1>1, <1>2, <1>3, <1>4, <1>5, <1>6, <1>7, <1>8, <1>9 DEF Next

LEMMA AlwaysTrackerInv == Spec => []TrackerInv
BY InitInv, NextInv, PTL DEF Spec

-----------------------------------------------------------------------------
(* What a step does to the names.                                           *)

\* No track changes its name and a new track has none.
NamesKept ==
    /\ \A t \in DOMAIN cache \cap DOMAIN cache' : cache'[t].user = cache[t].user
    /\ \A t \in DOMAIN cache' \ DOMAIN cache : cache'[t].user = None

LEMMA NamesStep ==
    ASSUME TrackerInv, [Next]_vars
    PROVE  \/ NamesKept
           \/ \E user : CommitOf(user) /\ Commit(user) /\ Earned(user)
           \/ PerformIdentityHandoff
<1> DEFINE searched == \E tracks \in SUBSET (DOMAIN cache) : \E answer :
             /\ \A t \in tracks : answer[t] \in Answers
             /\ Search(tracks, answer)
<1>1. ASSUME searched PROVE NamesKept
  <2>1. PICK tracks \in SUBSET (DOMAIN cache) :
           \E answer : (\A t \in tracks : answer[t] \in Answers) /\ Search(tracks, answer)
    BY <1>1
  <2>2. PICK answer : (\A t \in tracks : answer[t] \in Answers) /\ Search(tracks, answer)
    BY <2>1
  <2>3. \A t \in tracks : Gated(cache[t], answer[t]).user = cache[t].user
    BY <2>2, GatedType DEF TrackerInv, TypeOK
  <2> QED
    BY <2>2, <2>3 DEF Search, NamesKept
<1>2. CASE PeriodicRevalidation
  <2>1. searched
    BY <1>2 DEF PeriodicRevalidation
  <2> QED
    BY <1>1, <2>1
<1>3. CASE RecognizeBatch
  <2>1. Searchable \subseteq DOMAIN cache
    BY DEF Searchable, TrackerInv, Phases
  <2>2. searched
    BY <1>3, <2>1 DEF RecognizeBatch
  <2> QED
    BY <1>1, <2>2
<1>4. CASE RevalidationCommits \/ ResolveFrameMutex
  BY <1>4, RevalidationCommitEffect, MutexCommitEffect
<1>5. CASE NoDetections \/ Emit
  <2>1. \E active : Expire(active)
    BY <1>5 DEF NoDetections, Emit
  <2> QED
    BY <2>1, ExpireEffect DEF TrackerInv, NamesKept
<1>6. CASE Detect
  BY <1>6, DetectEffect DEF TrackerInv, NamesKept
<1>7. CASE RunLivenessBatch
  BY <1>7, LivenessEffect DEF TrackerInv, NamesKept
<1>8. CASE UNCHANGED vars
  BY <1>8 DEF vars, NamesKept
<1> HIDE DEF searched
<1> QED
  BY <1>2, <1>3, <1>4, <1>5, <1>6, <1>7, <1>8 DEF Next

-----------------------------------------------------------------------------
(* The theorems.                                                            *)

\* The cache holds identities of the tracks in use, a name exactly where the
\* status says so, and no counter passes the bound the code stops it at.
THEOREM TypeCorrect == Spec => []TypeOK
<1>1. TrackerInv => TypeOK
  BY DEF TrackerInv
<1> QED
  BY <1>1, AlwaysTrackerInv, PTL

\* No student is reported under two tracks of one frame, however many tracks
\* hold the name in the cache.
THEOREM NobodyCreditedTwice == Spec => []NoDoubleCredit
<1>1. TrackerInv => NoDoubleCredit
  BY DEF TrackerInv
<1> QED
  BY <1>1, AlwaysTrackerInv, PTL

LEMMA NameStaysStep ==
    ASSUME TrackerInv, [Next]_vars, NEW t \in Tracks, Renamed(t)
    PROVE  /\ cache'[t].user # None
           /\ against[t].votes >= StreakNeeded(cache[t]) \/ Contested(t)
<1>1. /\ t \in DOMAIN cache /\ t \in DOMAIN cache' /\ cache'[t].user # cache[t].user
      /\ cache[t].status = "recognized" /\ cache[t].user # None
  BY DEF Renamed, Recognized, TrackerInv, TypeOK
<1>2. CASE NamesKept
  BY <1>1, <1>2 DEF NamesKept
<1>3. CASE PerformIdentityHandoff
  <2>1. PICK heirs \in SUBSET Newborns :
          \A x \in DOMAIN cache' \ heirs : cache'[x] = cache[x]
    BY <1>3, HandoffEffect DEF TrackerInv, Phases
  <2>2. t \notin heirs
    BY <1>1 DEF Newborns
  <2> QED
    BY <1>1, <2>1, <2>2
<1>4. CASE \E user : CommitOf(user) /\ Commit(user) /\ Earned(user)
  <2>1. PICK user : CommitOf(user) /\ Commit(user) /\ Earned(user)
    BY <1>4
  <2>2. cache'[t] = IF t \in DOMAIN user THEN Committed(cache[t], user[t]) ELSE cache[t]
    BY <1>1, <2>1 DEF Commit
  <2>3. t \in DOMAIN user /\ user[t] # None
    BY <1>1, <2>2 DEF Committed
  <2>4. cache[t] \in TrackIdentity
    BY <1>1 DEF TrackerInv, TypeOK
  <2>5. cache'[t].user = user[t]
    BY <2>2, <2>3, <2>4 DEF Committed, TrackIdentity
  <2> QED
    BY <1>1, <2>1, <2>3, <2>5 DEF Earned
<1> QED
  BY <1>2, <1>3, <1>4, NamesStep

\* A recognised track takes another name only with the votes its age calls
\* for, or when another searched track held the same name; it never loses
\* one.  Revalidation, hints and hand-offs rename nobody.
THEOREM NamesStay == Spec => NameStays
<1>1. TrackerInv /\ [Next]_vars =>
        [\A t \in Tracks : Renamed(t) =>
          /\ cache'[t].user # None
          /\ against[t].votes >= StreakNeeded(cache[t]) \/ Contested(t)]_vars
  BY NameStaysStep
<1> QED
  BY <1>1, AlwaysTrackerInv, PTL DEF Spec, NameStays

LEMMA HoldersFinite ==
    ASSUME TypeOK, NEW u
    PROVE  IsFiniteSet(Holders(u)) /\ Cardinality(Holders(u)) \in Nat
<1>1. Holders(u) \subseteq Tracks
  BY DEF Holders, TypeOK
<1>2. IsFiniteSet(Holders(u))
  BY <1>1, FS_Subset, TrackerAssumption DEF TrackerAssumption
<1> QED
  BY <1>2, FS_CardinalityType

LEMMA FewerHolders ==
    ASSUME NEW S, NEW T, IsFiniteSet(T), NEW f \in [S -> T],
           \A x, y \in S : f[x] = f[y] => x = y
    PROVE  Cardinality(S) <= Cardinality(T)
<1>1. f \in Injection(S, T)
  BY DEF Injection, IsInjective
<1> QED
  BY <1>1, FS_Injection

LEMMA NeverCopiedStep ==
    ASSUME TrackerInv, [Next]_vars, NEW u \in Users,
           Cardinality(Holders(u)') > Cardinality(Holders(u))
    PROVE  \E t \in Holders(u)' \ Holders(u) : t \in DOMAIN decisions
<1> DEFINE T == Holders(u)
           S == Holders(u)'
<1>1. IsFiniteSet(T) /\ Cardinality(T) \in Nat
  BY HoldersFinite DEF TrackerInv
<1>2. IsFiniteSet(S) /\ Cardinality(S) \in Nat
  <2>1. TypeOK'
    BY NextInv DEF TrackerInv
  <2>2. S \subseteq Tracks
    BY <2>1 DEF Holders, TypeOK
  <2>3. IsFiniteSet(S)
    BY <2>2, FS_Subset, TrackerAssumption DEF TrackerAssumption
  <2> QED
    BY <2>3, FS_CardinalityType
<1>3. u # None
  BY TrackerAssumption DEF TrackerAssumption
<1>4. ASSUME NEW f \in [S -> T], \A x, y \in S : f[x] = f[y] => x = y
      PROVE  FALSE
  <2>1. Cardinality(S) <= Cardinality(T)
    BY <1>1, <1>4, FewerHolders
  <2> QED
    BY <1>1, <1>2, <2>1
<1>5. ~(S \subseteq T)
  <2> SUFFICES ASSUME S \subseteq T PROVE FALSE
    OBVIOUS
  <2>1. [x \in S |-> x] \in [S -> T]
    OBVIOUS
  <2> HIDE DEF S, T
  <2> QED
    BY <1>4, <2>1
<1>6. CASE NamesKept
  <2>1. S \subseteq T
    BY <1>3, <1>6 DEF Holders, NamesKept
  <2> QED
    BY <1>5, <2>1
<1>7. CASE \E user : CommitOf(user) /\ Commit(user) /\ Earned(user)
  <2>1. PICK user : CommitOf(user) /\ Commit(user)
    BY <1>7
  <2>2. PICK t \in S : t \notin T
    BY <1>5
  <2>3. t \in DOMAIN user
    BY <2>1, <2>2 DEF Commit, Holders
  <2> QED
    BY <2>1, <2>2, <2>3 DEF CommitOf
<1>8. CASE PerformIdentityHandoff
  <2>1. PICK heirs \in SUBSET Newborns, left \in SUBSET Donors :
           \E from \in [heirs -> left] :
             /\ \A s, t \in heirs : from[s] = from[t] => s = t
             /\ DOMAIN cache' = DOMAIN cache \ left
             /\ \A t \in heirs : cache'[t] = HandedOver(cache[t], cache[from[t]])
             /\ \A t \in DOMAIN cache' \ heirs : cache'[t] = cache[t]
    BY <1>8, HandoffEffect DEF TrackerInv, Phases
  <2>2. PICK from \in [heirs -> left] :
             /\ \A s, t \in heirs : from[s] = from[t] => s = t
             /\ DOMAIN cache' = DOMAIN cache \ left
             /\ \A t \in heirs : cache'[t] = HandedOver(cache[t], cache[from[t]])
             /\ \A t \in DOMAIN cache' \ heirs : cache'[t] = cache[t]
    BY <2>1
  <2> DEFINE f == [t \in S |-> IF t \in heirs THEN from[t] ELSE t]
  <2>3. ASSUME NEW t \in S
        PROVE  f[t] \in T
    <3>1. CASE t \in heirs
      <4>1. t \in DOMAIN cache /\ cache[t] \in TrackIdentity /\ from[t] \in DOMAIN cache
        BY <3>1 DEF Newborns, Donors, Recognized, TrackerInv, TypeOK, Phases
      <4>2. cache'[t].user = cache[from[t]].user
        BY <2>2, <3>1, <4>1 DEF HandedOver, TrackIdentity
      <4> QED
        BY <3>1, <4>1, <4>2 DEF Holders
    <3>2. CASE t \notin heirs
      BY <2>2, <3>2 DEF Holders
    <3> QED
      BY <3>1, <3>2
  <2>4. ASSUME NEW x \in S, NEW y \in S, f[x] = f[y]
        PROVE  x = y
    <3>1. x \in DOMAIN cache' /\ y \in DOMAIN cache'
      BY DEF Holders
    <3>2. \A z \in heirs : from[z] \notin DOMAIN cache'
      BY <2>2
    <3> QED
      BY <2>2, <2>4, <3>1, <3>2
  <2>5. f \in [S -> T]
    <3> HIDE DEF S, T
    <3>1. f = [t \in S |-> f[t]]
      OBVIOUS
    <3> QED
      BY <2>3, <3>1
  <2> HIDE DEF f, S, T
  <2> QED
    BY <1>4, <2>4, <2>5
<1> QED
  BY <1>6, <1>7, <1>8, NamesStep

\* More tracks hold a name than before only after a search said so of the new
\* one: handing an identity over moves the name, and no other step adds one.
THEOREM NamesNotCopied == Spec => NeverCopied
<1>1. TrackerInv /\ [Next]_vars =>
        [\A u \in Users :
          Cardinality(Holders(u)') > Cardinality(Holders(u)) =>
              \E t \in Holders(u)' \ Holders(u) : t \in DOMAIN decisions]_vars
  BY NeverCopiedStep
<1> QED
  BY <1>1, AlwaysTrackerInv, PTL DEF Spec, NeverCopied

LEMMA SpoofStep ==
    ASSUME TrackerInv, [Next]_vars,
           NEW t \in DOMAIN cache, cache[t].suppressed, Nameless(t), t \in DOMAIN cache'
    PROVE  \/ Nameless(t)'
           \/ t \in Newborns /\ t \notin DOMAIN decisions
<1>1. cache[t].user = None /\ t \notin DOMAIN decisions
  BY DEF Nameless, TrackerInv, DecisionsSound
<1>2. CASE NamesKept
  BY <1>1, <1>2 DEF NamesKept, Nameless
<1>3. CASE \E user : CommitOf(user) /\ Commit(user) /\ Earned(user)
  <2>1. cache'[t] = cache[t]
    BY <1>1, <1>3 DEF CommitOf, Commit
  <2> QED
    BY <1>1, <2>1 DEF Nameless
<1>4. CASE PerformIdentityHandoff
  <2>1. PICK heirs \in SUBSET Newborns :
          \A x \in DOMAIN cache' \ heirs : cache'[x] = cache[x]
    BY <1>4, HandoffEffect DEF TrackerInv, Phases
  <2> QED
    BY <1>1, <2>1 DEF Nameless
<1> QED
  BY <1>2, <1>3, <1>4, NamesStep

\* While a face is judged a spoof no search gives it a name, also not one
\* that was under way when it was judged; only a hand-off to a newborn does.
THEOREM SpoofsGainNoName == Spec => SpoofGainsNoName
<1>1. TrackerInv /\ [Next]_vars =>
        [\A t \in DOMAIN cache :
          cache[t].suppressed /\ Nameless(t) /\ t \in DOMAIN cache' =>
              \/ Nameless(t)'
              \/ t \in Newborns /\ t \notin DOMAIN decisions]_vars
  BY SpoofStep
<1> QED
  BY <1>1, AlwaysTrackerInv, PTL DEF Spec, SpoofGainsNoName

=============================================================================
