\* The job, a viewer, operators and administrators around one schedule;
\* minutes pass between handlers.
SPECIFICATION FairSpec
CONSTANTS
    a = a
    b = b
    room = room
    other = other
    NoCamera = NoCamera
    v1 = v1
    v2 = v2
    Schedules = {a}
    Rooms = {room, other}
    RoomOf <- OneRoom
    WindowStart <- MCWindowStart
    WindowEnd <- MCWindowEnd
    StartGrace = 1
    Viewers = {v1}
    Operators = {"start", "end", "move", "delete"}
    StartMayFail = TRUE
    Prompt = TRUE
    None = None
    MaxTime = 3
    MaxPipes = 2
    MaxGrabbers = 4
PROPERTIES
    AutomaticEndJustified
    AutoSessionsEnd
    StrayPipelinesStop
\* The day ends.
CHECK_DEADLOCK FALSE
