------------------------- MODULE RecognitionTracker -------------------------
(***************************************************************************)
(* RealtimeTracker: how a face in the picture gets a name and keeps it.    *)
(* One call of process() takes the phases below in their order; nothing    *)
(* runs between them.  Pictures are abstracted to which tracks ByteTrack   *)
(* reports, scores to the comparisons the code makes with them, and time   *)
(* since a track was last detected to three ages: still painted, still     *)
(* able to hand its identity over, and older.                              *)
(***************************************************************************)
EXTENDS Naturals, FiniteSets, Functions, TLC

CONSTANTS
    Tracks,         \* bound: track ids in use at a time
    Users,          \* registered students
    PhoneOnly,      \* those without a CCTV capture
    None,
    MinStreak,      \* RECOGNITION_SWAP_MIN_STREAK
    SteadyFrames,   \* RECOGNITION_LONG_STABILITY_FRAMES
    SteadyFactor,   \* RECOGNITION_LONG_STABILITY_STREAK_MULTIPLIER
    HandoffFrames,  \* IDENTITY_HANDOFF_MAX_FRAMES_SEEN
    SpoofVerdicts,  \* LIVENESS_SPOOF_CONSECUTIVE
    RealVerdicts    \* LIVENESS_REAL_RECOVERY_FRAMES

ASSUME TrackerAssumption ==
    /\ IsFiniteSet(Tracks)
    /\ PhoneOnly \subseteq Users
    /\ None \notin Users
    /\ {MinStreak, SteadyFactor, SpoofVerdicts, RealVerdicts} \subseteq Nat \ {0}
    /\ {SteadyFrames, HandoffFrames} \subseteq Nat

VARIABLES
    cache,      \* _identity_cache: track id -> TrackIdentity
    graveyard,  \* users with a tombstone in _identity_graveyard
    phase,      \* where process() is
    detected,   \* tracks with a detection in this frame
    audited,    \* tracks revalidated in this frame
    decisions,  \* the batch: track -> [user, second]
    credited,   \* the tracks the last frame was emitted with under a name
    against     \* history: who the searches of a track prefer to its name
vars == <<cache, graveyard, phase, detected, audited, decisions, credited, against>>

Capped(n, bound) == IF n < bound THEN n ELSE bound
Nobody == Users \cup {None}
StreakNeeded(id) == IF id.frames >= SteadyFrames THEN SteadyFactor * MinStreak ELSE MinStreak

TrackIdentity ==
    [status : {"pending", "unknown", "recognized"}, user : Nobody,
     candidate : Nobody, streak : 0..(SteadyFactor * MinStreak),
     frames : 0..SteadyFrames, hint : Nobody, age : 0..2,
     contrary : 0..(SpoofVerdicts + RealVerdicts), suppressed : BOOLEAN]
NewIdentity(hint) ==
    [status |-> "pending", user |-> None, candidate |-> None, streak |-> 0,
     frames |-> 0, hint |-> hint, age |-> 0,
     contrary |-> 0, suppressed |-> FALSE]
NoVotes == [name |-> None, votes |-> 0]
\* Both functions as one; where they meet, the first.
Over(f, g) == [x \in DOMAIN f \cup DOMAIN g |-> IF x \in DOMAIN f THEN f[x] ELSE g[x]]

TypeOK ==
    /\ DOMAIN cache \subseteq Tracks
    /\ \A t \in DOMAIN cache :
           /\ cache[t] \in TrackIdentity
           /\ cache[t].status = "recognized" <=> cache[t].user # None
    /\ graveyard \subseteq Users
    /\ phase \in {"idle", "detect", "liveness", "handoff", "search", "commit", "emit"}
    /\ detected \subseteq Tracks /\ audited \subseteq Tracks
    /\ DOMAIN decisions \subseteq DOMAIN cache
    /\ \A t \in DOMAIN decisions : decisions[t] \in [user : Nobody, second : Nobody]
    /\ credited \subseteq DOMAIN cache
    /\ against \in [Tracks -> [name : Nobody, votes : 0..(SteadyFactor * MinStreak)]]

Init ==
    /\ cache = <<>> /\ graveyard = {}
    /\ phase = "idle"
    /\ detected = {} /\ audited = {} /\ decisions = <<>>
    /\ credited = {}
    /\ against = [t \in Tracks |-> NoVotes]

Recognized(t) == t \in DOMAIN cache /\ cache[t].status = "recognized"
Holders(u) == {t \in DOMAIN cache : cache[t].user = u}

---------------------------------------------------------------------------
(* Searching.  What the index can say of a face: nobody above the          *)
(* threshold; somebody, but too close to the next ("near"); somebody above *)
(* the threshold ("hit") or the higher one for phone-only users            *)
(* ("strict"); the next best if that clears the threshold; and whether the *)
(* score beats that of the track's name by the swap margin.                *)
Answers ==
    {a \in [top : Nobody, score : {"near", "hit", "strict"}, second : Nobody, clear : BOOLEAN] :
        /\ a.top = None => a.score = "near" /\ a.second = None
        /\ a.score = "near" => a.second = None /\ ~a.clear
        /\ a.second # None => a.second # a.top}

(* _gather_decisions: the hint decides for its user what was too close.    *)
Named(id, a) ==
    IF \/ a.score = "near" /\ (a.top = None \/ id.hint # a.top)
       \/ a.top \in PhoneOnly /\ a.score # "strict"
    THEN None ELSE a.top
HintLeft(id, a) == IF a.score = "near" /\ a.top # None THEN None ELSE id.hint

(* _apply_swap_gate: another name must win by the margin, search after     *)
(* search; until then the decision is the name the track has.              *)
Contradicts(id, a) == id.user # None /\ Named(id, a) \notin {None, id.user}
Streak(id, a) == IF id.candidate = a.top THEN id.streak + 1 ELSE 1
\* Faulty variant: winning once by the margin is enough.
BlockedByMargin(id, a) == Contradicts(id, a) /\ ~a.clear
Blocked(id, a) == Contradicts(id, a) /\ (~a.clear \/ Streak(id, a) < StreakNeeded(id))
Gated(id, a) ==
    LET h == [id EXCEPT !.hint = HintLeft(id, a)] IN
    IF Blocked(id, a) /\ a.clear
    THEN [h EXCEPT !.candidate = a.top, !.streak = Streak(id, a)]
    ELSE IF Contradicts(id, a) \/ Named(id, a) = id.user
    THEN [h EXCEPT !.candidate = None, !.streak = 0]
    ELSE h
Decision(id, a) ==
    [user |-> IF Blocked(id, a) THEN id.user ELSE Named(id, a), second |-> a.second]

Votes(t, a) ==
    LET id == cache[t]
        before == against[t] IN
    CASE Contradicts(id, a) /\ a.clear ->
            [name |-> a.top,
             votes |-> IF before.name = a.top THEN Capped(before.votes + 1, SteadyFactor * MinStreak) ELSE 1]
      [] Named(id, a) = None -> before
      [] OTHER -> NoVotes

Search(tracks, answer) ==
    /\ decisions' = [t \in tracks |-> Decision(cache[t], answer[t])]
    /\ cache' = [t \in DOMAIN cache |->
                    IF t \in tracks THEN Gated(cache[t], answer[t]) ELSE cache[t]]
    /\ against' = [t \in Tracks |-> IF t \in tracks THEN Votes(t, answer[t]) ELSE against[t]]
    /\ phase' = "commit"

(* _commit_decision: a miss never takes a name away.                       *)
Committed(id, user) ==
    CASE user # None -> [id EXCEPT !.user = user, !.status = "recognized"]
      [] user = None /\ id.status = "recognized" -> id
      [] OTHER -> [id EXCEPT !.status = "unknown"]
Commit(user) ==
    /\ cache' = [t \in DOMAIN cache |->
                    IF t \in DOMAIN user THEN Committed(cache[t], user[t]) ELSE cache[t]]
    /\ against' = [t \in Tracks |->
                    IF t \in DOMAIN user /\ user[t] = against[t].name
                    THEN NoVotes ELSE against[t]]
    /\ decisions' = <<>>

---------------------------------------------------------------------------
(* Every so many frames _periodic_revalidation searches again for the named*)
(* tracks, with the mean of what was seen of each, without hints and       *)
(* without settling who competes with whom.                                *)
PeriodicRevalidation ==
    /\ phase = "idle"
    /\ \E tracks \in SUBSET {t \in DOMAIN cache : Recognized(t)} :
       \E answer \in [tracks -> {a \in Answers : a.second = None /\ (a.score = "near" => a.top = None)}] :
           /\ tracks # {}
           /\ audited' = tracks
           /\ Search(tracks, answer)
    /\ credited' = {}
    /\ UNCHANGED <<graveyard, detected>>

RevalidationCommits ==
    /\ phase = "commit" /\ detected = {}
    /\ Commit([t \in DOMAIN decisions |-> decisions[t].user])
    /\ phase' = "detect"
    /\ UNCHANGED <<graveyard, detected, audited, credited>>

(* _expire_lost_tracks: a name that is forgotten leaves a tombstone.       *)
Expire(active) ==
    \E gone \in SUBSET {t \in DOMAIN cache \ active : cache[t].age = 2},
       kept \in SUBSET graveyard :
        /\ cache' = Restrict(cache, DOMAIN cache \ gone)
        /\ graveyard' = kept \cup {cache[t].user : t \in {x \in gone : Recognized(x)}}
        /\ against' = [t \in Tracks |-> IF t \in gone THEN NoVotes ELSE against[t]]

(* A frame without a face returns at once and paints nothing.              *)
NoDetections ==
    /\ phase \in {"idle", "detect"}
    /\ Expire({})
    /\ credited' = {} /\ audited' = {}
    /\ phase' = "idle"
    /\ UNCHANGED <<detected, decisions>>

(* _get_or_create_identity: a track not seen before may take the hint of a *)
(* tombstone nearby, and then nobody else takes it.                        *)
Hints(new) ==
    {h \in [new -> graveyard \cup {None}] :
        \A s, t \in new : s # t /\ h[s] # None => h[s] # h[t]}
Aged(ids, older) ==
    [t \in DOMAIN ids |->
        CASE t \in detected' -> [ids[t] EXCEPT !.age = 0, !.frames = Capped(@ + 1, SteadyFrames)]
          [] t \in older -> [ids[t] EXCEPT !.age = Capped(@ + 1, 2)]
          [] OTHER -> ids[t]]

Detect ==
    /\ phase \in {"idle", "detect"}
    /\ detected' \in (SUBSET Tracks) \ {{}}
    /\ LET new == detected' \ DOMAIN cache IN
       \E hint \in Hints(new), older \in SUBSET (DOMAIN cache \ detected') :
           /\ cache' = Aged(Over([t \in new |-> NewIdentity(hint[t])], cache), older)
           /\ graveyard' = graveyard \ Range(hint)
    /\ phase' = "liveness"
    /\ credited' = {}
    /\ UNCHANGED <<audited, decisions, against>>

(* _apply_liveness_verdict, for some of the tracks about to be searched.   *)
(* Of the two streaks only that against the present judgement is ever read.*)
Verdict(id, real) ==
    LET needed == IF id.suppressed THEN RealVerdicts ELSE SpoofVerdicts IN
    CASE real # id.suppressed -> [id EXCEPT !.contrary = 0]
      [] real = id.suppressed /\ id.contrary + 1 < needed -> [id EXCEPT !.contrary = @ + 1]
      [] OTHER -> [id EXCEPT !.contrary = 0, !.suppressed = ~real]

RunLivenessBatch ==
    /\ phase = "liveness"
    /\ \E checked \in SUBSET {t \in detected \ audited : cache[t].frames > 1} :
       \E real \in SUBSET checked :
           cache' = [t \in DOMAIN cache |->
                        IF t \in checked THEN Verdict(cache[t], t \in real) ELSE cache[t]]
    /\ phase' = "handoff"
    /\ UNCHANGED <<graveyard, detected, audited, decisions, credited, against>>

(* _perform_identity_handoff: a named track just lost and a newborn one,   *)
(* each with nobody else near, are one face: the identity moves.           *)
Donors == {t \in DOMAIN cache \ detected : Recognized(t) /\ cache[t].age <= 1}
Newborns == {t \in detected : cache[t].status = "pending" /\ cache[t].frames <= HandoffFrames}
\* Faulty variant: the lost track keeps its identity.
LeftNone(moves) == {}
Left(moves) == {p[1] : p \in moves}
Alone(p, near) == \A q \in near : q = p \/ (q[1] # p[1] /\ q[2] # p[2])
HandedOver(id, donor) ==
    [id EXCEPT !.user = donor.user, !.status = "recognized", !.hint = None]

PerformIdentityHandoff ==
    /\ phase = "handoff"
    /\ \E near \in SUBSET (Donors \X Newborns) :
       LET moves == {p \in near : Alone(p, near)}
           From(t) == CHOOSE d \in Donors : <<d, t>> \in moves
           heirs == {p[2] : p \in moves}
           left == Left(moves) IN
       /\ cache' = [t \in DOMAIN cache \ left |->
                       IF t \in heirs THEN HandedOver(cache[t], cache[From(t)]) ELSE cache[t]]
       /\ against' = [t \in Tracks |-> IF t \in left THEN NoVotes ELSE against[t]]
       /\ audited' = audited \cup heirs
    /\ phase' = "search"
    /\ UNCHANGED <<graveyard, detected, decisions, credited>>

(* Only some tracks are due, of good quality and within the frame's budget;*)
(* a suppressed one, one just verified and one with a single picture never.*)
\* Faulty variant: suppressed tracks are searched like any other.
SearchableAll == {t \in detected \ audited : cache[t].frames > 1}
Searchable == {t \in detected \ audited : ~cache[t].suppressed /\ cache[t].frames > 1}
RecognizeBatch ==
    /\ phase = "search"
    /\ \E tracks \in SUBSET Searchable :
       \E answer \in [tracks -> Answers] : Search(tracks, answer)
    /\ UNCHANGED <<graveyard, detected, audited, credited>>

(* _resolve_frame_mutex: a track confirmed under its name keeps it; the    *)
(* others share out their first and second choices, as many as can.        *)
Confirmed == {t \in DOMAIN decisions : Recognized(t) /\ decisions[t].user = cache[t].user}
Incumbents ==
    {S \in SUBSET Confirmed :
        \A t \in Confirmed : Cardinality({s \in S : cache[s].user = cache[t].user}) = 1}
Wanted(t, taken) == {decisions[t].user, decisions[t].second} \ (taken \cup {None})
Shares(rivals, taken) ==
    {f \in [rivals -> Nobody] :
        /\ \A t \in rivals : f[t] \in Wanted(t, taken) \cup {None}
        /\ \A s, t \in rivals : s # t /\ f[s] # None => f[s] # f[t]
        /\ \A t \in rivals : f[t] = None => Wanted(t, taken) \subseteq Range(f)}

ResolveFrameMutex ==
    /\ phase = "commit" /\ detected # {}
    /\ \E kept \in Incumbents :
       LET taken == {cache[t].user : t \in kept}
           rivals == {t \in DOMAIN decisions \ kept : decisions[t].user # None}
           first == [t \in DOMAIN decisions |-> decisions[t].user]
           collision == \E t \in rivals : \/ first[t] \in taken
                                           \/ \E s \in rivals : s # t /\ first[s] = first[t] IN
       IF collision
       THEN \E share \in Shares(rivals, taken) : Commit(Over(share, first))
       ELSE Commit(first)
    /\ phase' = "emit"
    /\ UNCHANGED <<graveyard, detected, audited, credited>>

(* The tracks painted: those detected, except a suppressed one when it was *)
(* due, and the named ones lost just now.  Where two have one name, the one*)
(* with the better score is emitted with it.                               *)
Painted == {t \in DOMAIN cache : t \in detected \/ (Recognized(t) /\ cache[t].age = 0)}
\* Faulty variant: every named track is emitted.
DeduplicatedNever(shown) == {shown}
Deduplicated(shown) ==
    {S \in SUBSET shown :
        \A t \in shown : Cardinality({s \in S : cache[s].user = cache[t].user}) = 1}

Emit ==
    /\ phase = "emit"
    /\ \E unseen \in SUBSET {t \in detected : cache[t].suppressed} :
           credited' \in Deduplicated({t \in Painted \ unseen : Recognized(t)})
    /\ Expire(detected)
    /\ detected' = {} /\ audited' = {}
    /\ phase' = "idle"
    /\ UNCHANGED decisions

Next ==
    \/ PeriodicRevalidation \/ RevalidationCommits
    \/ NoDetections \/ Detect \/ RunLivenessBatch \/ PerformIdentityHandoff
    \/ RecognizeBatch \/ ResolveFrameMutex \/ Emit

Spec == Init /\ [][Next]_vars

---------------------------------------------------------------------------
(* No student is reported twice in a frame, whichever of their tracks were *)
(* searched, revalidated, handed over or coasting.                         *)
NoDoubleCredit ==
    \A s, t \in credited : s # t => cache[s].user # cache[t].user

(* A track is renamed only after as many searches as its age calls for in  *)
(* which somebody else won clearly, with no confirmation in between: never *)
(* for a hint, a hand-off or a revalidation.  The exception is a track     *)
(* whose name another searched track holds too: it is given its second     *)
(* choice, and the count it had against the name it lost goes on against   *)
(* the one it gains.  No name is taken away.                               *)
Renamed(t) ==
    /\ Recognized(t) /\ t \in DOMAIN cache'
    /\ cache'[t].user # cache[t].user
Contested(t) == \E s \in DOMAIN decisions \ {t} : Recognized(s) /\ cache[s].user = cache[t].user
NameStays ==
    [][\A t \in Tracks : Renamed(t) =>
          /\ cache'[t].user # None
          /\ against[t].votes >= StreakNeeded(cache[t]) \/ Contested(t)]_vars

(* More tracks hold a name than before only when the face of the new one   *)
(* was itself searched: a hand-off moves a name and does not copy it.      *)
NeverCopied ==
    [][\A u \in Users :
          Cardinality(Holders(u)') > Cardinality(Holders(u)) =>
              \E t \in Holders(u)' \ Holders(u) : t \in DOMAIN decisions]_vars

(* A face judged a spoof gains no name while it is so judged: not by any   *)
(* search, and by inheritance only in the pictures in which a track still  *)
(* counts as newborn, for the hand-off does not ask for the judgement.     *)
Nameless(t) == t \in DOMAIN cache /\ cache[t].user = None
SpoofGainsNoName ==
    [][\A t \in DOMAIN cache :
          cache[t].suppressed /\ Nameless(t) /\ t \in DOMAIN cache' =>
              \/ Nameless(t)'
              \/ t \in Newborns /\ t \notin DOMAIN decisions]_vars

---------------------------------------------------------------------------
(* Said by the source and not so.  No two tracks of a batch come confirmed *)
(* under one name: "each user has at most one current binding by the dedup *)
(* contract" (realtime_tracker.py:2334).  That contract only empties the   *)
(* loser's row of the result; both tracks keep the name in the cache.      *)
OneIncumbent ==
    phase = "commit" /\ detected # {} =>
        \A s, t \in Confirmed : s # t => cache[s].user # cache[t].user

(* A suppressed track is not reported under its name (config.py:265): one  *)
(* that was named before is.                                               *)
SpoofNotCredited == \A t \in credited : ~cache[t].suppressed

=============================================================================
