\* Restarts and corrections; the student is enrolled on the spot, and expected
\* from then on.
SPECIFICATION DaySpec
CONSTANTS
    s1 = s1
    Students = {s1}
    Enrolled = {}
    NULL = NULL
    Timeouts = {0}
    GraceEnd = 1
    MaxTime = 3
    DBFaults = FALSE
    MaxRestarts = 2
    Corrections = {"excused"}
    ScheduleEnd = 2
INVARIANTS
    EveryoneCheckedOut
    
    
PROPERTIES
    NeverUnmarked
\* The day is over when the clock stops.
CHECK_DEADLOCK FALSE
