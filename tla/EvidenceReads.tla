---------------------------- MODULE EvidenceReads ----------------------------
(***************************************************************************)
(* What administrators read of the evidence (routers/recognitions.py,      *)
(* repositories/recognition_repository.py, services/evidence_storage.py):  *)
(* lists in pages, an export that walks them, one student's summary, and   *)
(* the pictures.  The rows of a batch carry one time, so the order of rows *)
(* is that of their times and then of their ids; both are operands here.   *)
(***************************************************************************)
EXTENDS EvidenceTrail

CONSTANT Presigned  \* RECOGNITION_EVIDENCE_BACKEND is MinIO

ASSUME ReadsAssumption == Presigned \in BOOLEAN

Matched(e) == SubjectOf[e] # NoOne

\* Times of insertion, batch by batch, in any resolution of the clock.
Stampings == {f \in [Events -> 1..2] : \A d, e \in Events : d < e => f[d] <= f[e]}

\* ORDER BY created_at, id: ids are random, but each row keeps its own.
Older(stamp, d, e) == stamp[d] < stamp[e] \/ (stamp[d] = stamp[e] /\ d < e)

-----------------------------------------------------------------------------
(* Lists                                                                    *)

\* list_events, the filters.  After the user row is deleted a row is
\* nobody's and still matched.
AnyRow == [student |-> NoOne, matched |-> {TRUE, FALSE}, since |-> 1]
Selected(stamp, filter) ==
    {e \in rows :
        /\ filter.student # NoOne => e \in RowsOf(filter.student)
        /\ Matched(e) \in filter.matched
        /\ stamp[e] >= filter.since}

\* Faulty variant: rows of the cursor's time are taken to be on its page.
BeyondByTime(stamp, E, cursor) == {e \in E : cursor = {} \/ \A c \in cursor : stamp[e] < stamp[c]}

\* The rows after a cursor, which is no row or one.
Beyond(stamp, E, cursor) == {e \in E : \A c \in cursor : Older(stamp, e, c)}

\* list_events, one page: the newest.
Page(stamp, E, cursor, limit) ==
    LET left == Beyond(stamp, E, cursor)
    IN {e \in left : Cardinality({d \in left : Older(stamp, e, d)}) < limit}

\* list_recognitions: a full page has a cursor, the last of its rows.
NextCursor(stamp, page, limit) ==
    IF Cardinality(page) = limit
    THEN {e \in page : \A d \in page : d = e \/ Older(stamp, e, d)}
    ELSE {}

\* export_csv: page after page, until one is not full.
Pages(stamp, filter, limit) ==
    LET E == Selected(stamp, filter)
        page[n \in 1..(Cardinality(rows) + 1)] ==
            IF n = 1 THEN Page(stamp, E, {}, limit)
            ELSE LET cursor == NextCursor(stamp, page[n - 1], limit) IN
                 IF cursor = {} THEN {} ELSE Page(stamp, E, cursor, limit)
    IN page

-----------------------------------------------------------------------------
(* One student                                                              *)

\* summarize_for_student.  Histogram and timeline are counted over all rows
\* of the student, the counts over those since a time.  A miss names nobody,
\* so no miss is ever a student's.
Summary(stamp, s, since) ==
    LET all == RowsOf(s)
        base == {e \in all : stamp[e] >= since}
        matches == {e \in base : Matched(e)}
    IN [match_count |-> Cardinality(matches),
        miss_count |-> Cardinality(base \ matches),
        first_match |-> {e \in matches : \A d \in matches : stamp[e] <= stamp[d]},
        last_match |-> {e \in matches : \A d \in matches : stamp[d] <= stamp[e]},
        histogram |-> Cardinality(all),
        timeline |-> [minute \in {stamp[e] : e \in all} |->
                         Cardinality({e \in all : stamp[e] = minute})]]

-----------------------------------------------------------------------------
(* Pictures                                                                 *)

\* _event_to_response and get_event: which links a row offers.
Offered(e) == {"live"} \cup IF e \in photo THEN {"registered"} ELSE {}
PictureOf(e, kind) == IF kind = "live" THEN Live(e) ELSE <<e, "reg">>

\* FilesystemStorage.local_path and MinioStorage.presigned_get: a signed link
\* is given whether or not there is something behind it.
Reachable(picture) == Presigned \/ picture \in files

\* get_live_crop and get_registered_crop, by way of _serve_crop.
Answer(e, kind) ==
    CASE e \in rows /\ kind \in Offered(e) /\ Reachable(PictureOf(e, kind)) -> "picture"
      [] OTHER -> "not found"

-----------------------------------------------------------------------------
(* Properties                                                               *)

\* Wherever rows stand when a batch is done, however their times coincide and
\* whatever the size of a page: an export has every selected row once, the
\* newest first; an unfiltered summary, its histogram and its timeline count
\* the student's rows of the list; and a link offered for a row younger than
\* the retention of pictures leads to the picture, unless its student asked
\* for deletion.
ReadsAgree ==
    insertion = "over" =>
        /\ \A stamp \in Stampings, limit \in 1..MaxEvents, s \in Students \cup {NoOne} :
              LET filter == [AnyRow EXCEPT !.student = s]
                  page == Pages(stamp, filter, limit) IN
              /\ UNION {page[n] : n \in DOMAIN page} = Selected(stamp, filter)
              /\ \A m, n \in DOMAIN page : m < n =>
                    \A d \in page[m], e \in page[n] : Older(stamp, e, d)
        /\ \A stamp \in Stampings, s \in Students :
              LET listed == Selected(stamp, [AnyRow EXCEPT !.student = s])
                  summary == Summary(stamp, s, 1) IN
              /\ summary.match_count + summary.miss_count = Cardinality(listed)
              /\ summary.histogram = Cardinality(listed)
              /\ \A e \in summary.first_match, d \in summary.last_match : stamp[e] <= stamp[d]
        /\ \A e \in rows : age[e] = 0 /\ SubjectOf[e] \notin asked =>
              \A kind \in Offered(e) : Answer(e, kind) = "picture"

\* Said by summarize_for_student ("Per-minute timeline for the active filter
\* window", recognition_repository.py:158) and not so: a summary since a time
\* shows a timeline of what it counts.
SummaryIsOfItsWindow ==
    \A stamp \in Stampings, s \in Students, since \in 1..2 :
        LET summary == Summary(stamp, s, since) IN
        \A minute \in DOMAIN summary.timeline : minute >= since

=============================================================================
