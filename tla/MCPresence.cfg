\* One student through a session, no failed commit, with viewers that come and
\* go.
SPECIFICATION LiveSpec
CONSTANTS
    s1 = s1
    Students = {s1}
    Enrolled = {s1}
    NULL = NULL
    Timeouts = {1, 2}
    GraceEnd = 1
    MaxTime = 5
    DBFaults = FALSE
    Window = 1
    MaxEcho = 2
INVARIANTS
    TypeOK
    RowMatchesMemory
    PresenceWithinStay
    ClosedRows
    LiveFollowsRow
PROPERTIES
    ImplementsPromise
\* The session is over after end_session.
CHECK_DEADLOCK FALSE
