\* Two tracks, two students of whom one has phone images only.
SPECIFICATION Spec
CONSTANTS
    s = s
    t = t
    a = a
    b = b
    c = c
    None = None
    Tracks <- TwoTracks
    Users <- TwoUsers
    PhoneOnly <- OnePhoneOnly
    MinStreak = 1
    SteadyFrames = 3
    SteadyFactor = 2
    HandoffFrames = 2
    SpoofVerdicts = 1
    RealVerdicts = 1
INVARIANTS
    NoDoubleCredit
PROPERTIES
    
    NeverCopied
    SpoofGainsNoName
SYMMETRY Symmetry
CHECK_DEADLOCK FALSE
