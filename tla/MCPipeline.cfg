\* A room with a back-row stream, which not every start passes on; recognition may hang.
SPECIFICATION FairPipeline
CONSTANTS
    s1 = s1
    Students = {s1}
    Enrolled = {s1}
    NULL = NULL
    Timeouts = {1}
    GraceEnd = 1
    MaxTime = 5
    DBFaults = FALSE
    PauseAfter = 2
    FlushInterval = 2
    WindowEnd = 3
    AutoManaged = TRUE
    Backrow = TRUE
PROPERTIES
    WideDowntimeNotAbsence
    ClosedForGood
    StopCloses
\* The session is over after stop().
CHECK_DEADLOCK FALSE
