\* Two students, no more than two positions; an upload each.
SPECIFICATION Spec
CONSTANTS
    a = a
    b = b
    None = None
    Users <- MCUsers
    MaxVectors = 2
    MaxNotices = 1
    MaxLabel = 1
    MaxUploads = 1
    MaxScore = 2
    Threshold = 1
    Margin = 0
    IdentifyScore = 1
    TopK = 3
    Fetched = 15
INVARIANTS
    TypeOK
    
PROPERTIES
    OnlyEnrolmentNames
    RestartHeals
SYMMETRY Symmetry
CHECK_DEADLOCK FALSE
