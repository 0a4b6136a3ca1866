\* The nightly sweep, in a process that never dies.
SPECIFICATION FairSpec
CONSTANTS
    s1 = s1
    NoOne = NoOne
    Students = {s1}
    Photographed = {s1}
    MaxEvents = 3
    SubjectOf <- MCSubjectOf
    QueueSize = 2
    HighWater = 1
    BatchRows = 2
    MaxDeletes = 3
    MayCrash = FALSE
    Presigned = FALSE
PROPERTIES
    ExpiredRowsGo
