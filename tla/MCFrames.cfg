\* A student enrolled on the spot, one track, a change of room; any commit of
\* the presence service may raise.
SPECIFICATION ReportsSpec
CONSTANTS
    s1 = s1
    Students = {s1}
    Enrolled = {}
    NULL = NULL
    Timeouts = {0}
    GraceEnd = 0
    MaxTime = 2
    DBFaults = TRUE
    TrackIds = {1}
    EnableRedis = TRUE
    MaxSwaps = 1
INVARIANTS
    RowNeverInvents
    AnnouncedIsRecorded
    LogFollowsScreen
\* The session is over after end_session.
CHECK_DEADLOCK FALSE
