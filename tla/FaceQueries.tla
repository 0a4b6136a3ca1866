----------------------------- MODULE FaceQueries -----------------------------
(***************************************************************************)
(* What the registry of FaceRegistry answers: the searches of the index    *)
(* (faiss_manager.py), the single-frame scans that compare faces with the  *)
(* phone images of every student (face_service.py), and the status reports *)
(* and the edge device's requests (routers/face.py).  Nothing here changes *)
(* the state.                                                              *)
(*                                                                         *)
(* A face in front of a camera is represented by what each student's       *)
(* images score against it, on a scale of a few steps.  The index returns  *)
(* faces of equal score in any order, so that a search has a set of        *)
(* possible answers.                                                       *)
(***************************************************************************)
EXTENDS FaceRegistry

CONSTANTS
    MaxScore,        \* the best score
    Threshold,       \* RECOGNITION_THRESHOLD
    Margin,          \* RECOGNITION_MARGIN
    IdentifyScore,   \* min_identify_sim
    TopK,            \* RECOGNITION_TOP_K
    Fetched          \* vectors fetched for every student asked for

ASSUME QueryAssumption ==
    /\ 0 < Threshold /\ Threshold <= MaxScore
    /\ {MaxScore, Threshold, Margin, IdentifyScore} \subseteq Nat
    /\ {TopK, Fetched} \subseteq Nat \ {0}

Faces == [Users -> 0..MaxScore]

\* The face of u, whom nobody resembles.
FaceOf(u) == [v \in Users |-> IF v = u THEN MaxScore ELSE 0]

Smaller(m, n) == IF m < n THEN m ELSE n

---------------------------------------------------------------------------
(* Searching the index.                                                    *)

(* IndexFlatIP.search: vectors the map has forgotten are fetched as well.  *)
Nearest(face, n) ==
    {S \in kSubset(n, DOMAIN index) :
        \A p \in S, q \in DOMAIN index \ S : face[index[p]] >= face[index[q]]}

(* _deduplicate_by_user, of what scores enough and still has a name.       *)
Best(face, S, threshold) ==
    LET hits == {p \in S \cap DOMAIN user_map : face[index[p]] >= threshold}
        Scores(u) == {face[index[p]] : p \in {q \in hits : user_map[q] = u}}
    IN  [u \in {user_map[p] : p \in hits} |-> Max(Scores(u))]

(* The k best.                                                             *)
Leading(found, k) ==
    {Restrict(found, U) : U \in
        {U \in kSubset(Smaller(k, Cardinality(DOMAIN found)), DOMAIN found) :
            \A u \in U, v \in DOMAIN found \ U : found[u] >= found[v]}}

(* A threshold of 0 is taken for none, and the default applies.            *)
search(face, k, threshold) ==
    LET enough == IF threshold = 0 THEN Threshold ELSE threshold
    IN  UNION {Leading(Best(face, S, enough), k) :
                  S \in Nearest(face, Smaller(k * Fetched, Len(index)))}

search_batch(faces, k, threshold) ==
    [i \in DOMAIN faces |-> search(faces[i], k, threshold)]

First(found) ==
    IF found = <<>> THEN {None} ELSE {u \in DOMAIN found : found[u] = Max(Range(found))}

(* The first of what was found, and how far the next is behind.  A student *)
(* who scores below the threshold is not found and never counts as next.   *)
Decisions(found, threshold) ==
    LET Next2(u) == Max({0} \cup {found[v] : v \in DOMAIN found \ {u}})
        Decision(u) ==
            IF found[u] < threshold
            THEN [user_id |-> None, confidence |-> found[u], is_ambiguous |-> FALSE]
            ELSE [user_id |-> u, confidence |-> found[u],
                  is_ambiguous |-> found[u] - Next2(u) <= Margin]
    IN  IF found = <<>>
        THEN {[user_id |-> None, confidence |-> 0, is_ambiguous |-> FALSE]}
        ELSE {Decision(u) : u \in First(found)}

search_with_margin(face) ==
    UNION {Decisions(found, Threshold) : found \in search(face, TopK, 0)}

(* recognize_face and its router, for tests.                               *)
recognize_face(face) == search(face, 1, Threshold)

(* recognize_batch.                                                        *)
recognize_batch(faces) ==
    [i \in DOMAIN faces |-> UNION {First(found) : found \in search_batch(faces, TopK, Threshold)[i]}]

(* _swap_safe_check passes for some answer of the index: nobody else comes *)
(* near, by more than a margin.                                            *)
Generous == IF 5 * TopK < 20 THEN 20 ELSE 5 * TopK
SwapSafe(u, face, margin) ==
    \E found \in search(face, Generous, 0) :
        LET competing == Max({0} \cup {found[v] : v \in DOMAIN found \ {u}})
        IN  IF u \in DOMAIN found THEN competing <= found[u] - margin \/ competing = 0
            ELSE competing < Threshold

---------------------------------------------------------------------------
(* Scans of one frame.  A scene is the room as the handler finds it: the   *)
(* room is unknown, has no camera, sends no frame, or detection fails, or  *)
(* it shows faces, of which some are too small, too dim or cannot be       *)
(* embedded.                                                               *)

Scene(faces) == [shows |-> "faces", faces |-> faces, usable |-> faces]
NoScene(why) == [shows |-> why, faces |-> {}, usable |-> {}]

Refused == [ok |-> FALSE, faces |-> {}]

(* _load_all_phone_embeddings: one per active registration.                *)
PhoneEmbeddings == {u \in Users : reg[u] = "active"}

(* The students a face resembles most; argmax takes the first of them.     *)
MostAlike(face) ==
    {u \in PhoneEmbeddings : \A v \in PhoneEmbeddings : face[u] >= face[v]}

Unseen(scene) == scene.shows # "faces" \/ scene.usable = {}

(* cctv_enroll_preview: every face, scored against the student asked for;  *)
(* the best of them is tagged, whatever it scores.                         *)
PreviewFaces(u, scene) ==
    {[face |-> face, sim |-> face[u], best_matches |-> MostAlike(face),
      is_best_match |-> \A other \in scene.usable : face[u] >= other[u]] :
        face \in scene.usable}
cctv_enroll_preview(u, scene) ==
    IF reg[u] # "active" \/ Unseen(scene) THEN Refused
    ELSE [ok |-> TRUE, faces |-> PreviewFaces(u, scene)]

(* _cctv_counts_per_user_per_room, for the room of the captures.           *)
CctvCount(u) ==
    IF reg[u] = "active" THEN Cardinality({r \in RowsOf(u) : r.label # Phone}) ELSE 0

(* cctv_identify: who is in front of the camera?                           *)
Identified(face) == {u \in MostAlike(face) : face[u] >= IdentifyScore}
cctv_identify(scene) ==
    IF Unseen(scene) THEN Refused
    ELSE [ok |-> TRUE,
          faces |-> {[face |-> face, identified |-> Identified(face),
                      already_enrolled |-> {u \in Identified(face) : CctvCount(u) > 0}] :
                        face \in scene.usable}]

---------------------------------------------------------------------------
(* Status reports.                                                         *)

get_face_status(u) == [registered |-> reg[u] = "active"]

(* get_registration_detail, for the student and for administrators.        *)
get_registration_detail(u) ==
    [available |-> reg[u] = "active",
     angles |-> IF reg[u] = "active" THEN {r.label : r \in RowsOf(u)} ELSE {}]

(* get_statistics of the service and of its router.                        *)
get_statistics ==
    [total |-> Cardinality({u \in Users : reg[u] # "none"}),
     active |-> Cardinality({u \in Users : reg[u] = "active"}),
     faiss_vectors |-> Len(index)]

(* cctv_enrollment_status, for every student with an active registration.  *)
CctvStatus ==
    [u \in {v \in Users : reg[v] = "active"} |->
        [cctv_count |-> CctvCount(u), phone_only |-> CctvCount(u) = 0]]

---------------------------------------------------------------------------
(* The edge device's request.                                              *)

(* What is found counts, too close or not.                                 *)
Matches(face) == {{decision.user_id} \ {None} : decision \in search_with_margin(face)}

(* A request is remembered before it is processed, and answered with       *)
(* nothing when it comes again.                                            *)
(* process_faces calls a method the presence service does not have, and    *)
(* swallows the error: no presence is logged.                              *)
process_faces(faces, duplicate) ==
    LET Given(m) == [matched |-> UNION {m[face] : face \in faces}, presence_logged |-> 0]
        answers == {m \in [faces -> SUBSET Users] : \A face \in faces : m[face] \in Matches(face)}
    IN  IF duplicate THEN {Given([face \in faces |-> {}])} ELSE {Given(m) : m \in answers}

---------------------------------------------------------------------------
(* Properties.                                                             *)

IndexIsOfRegistered == Range(user_map) = PhoneEmbeddings

(* Until a reload, whatever is registered, deleted, evicted or rolled back *)
(* meanwhile, every position with a name has the face of that name, and    *)
(* the answers of the searches are true: who is named scored what the      *)
(* answer says, and the swap-safe check lets nobody enrol the face of      *)
(* someone the index knows.                                                *)
(* While the index names exactly the students with an active registration, *)
(* searches and scans recognise the same people.                           *)
AnswersAreTrue ==
    ~reloaded =>
        /\ MapNamesOwners
        /\ \A face \in Faces : \A decision \in search_with_margin(face) :
              decision.user_id # None =>
                  /\ decision.confidence = face[decision.user_id]
                  /\ IndexIsOfRegistered => decision.user_id \in MostAlike(face)
        /\ \A u \in Users :
              /\ \A v \in Range(user_map) \ {u} : ~SwapSafe(u, FaceOf(v), Margin)
              /\ IndexIsOfRegistered =>
                    \A response \in process_faces({FaceOf(u)}, FALSE) :
                        response.matched = UNION {shown.identified :
                            shown \in cctv_identify(Scene({FaceOf(u)})).faces}

(* With nothing under way, every student with an active registration is    *)
(* recognised.  Not so: an enrolment that fails gives back its position by *)
(* number, which after a rebuild may be the position of somebody else.     *)
RegisteredIsRecognised ==
    LoopFree /\ worker.step = "idle" /\ ~reloaded =>
        \A u \in PhoneEmbeddings : Matches(FaceOf(u)) = {{u}}

(* An answer that is not called ambiguous is ahead of everybody else in    *)
(* the index by more than the margin.  Not so: whoever scores below the    *)
(* threshold is left out, however close.                                   *)
MarginIsKept ==
    ~reloaded =>
        \A face \in Faces : \A decision \in search_with_margin(face) :
            decision.user_id # None /\ ~decision.is_ambiguous =>
                \A v \in Range(user_map) \ {decision.user_id} :
                    face[v] + Margin < decision.confidence

=============================================================================
