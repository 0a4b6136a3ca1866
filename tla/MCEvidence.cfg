\* Three recognitions, two of them of one student; a queue and a batch of two.
SPECIFICATION FairSpec
CONSTANTS
    s1 = s1
    NoOne = NoOne
    Students = {s1}
    Photographed = {s1}
    MaxEvents = 3
    SubjectOf <- MCSubjectOf
    QueueSize = 2
    HighWater = 1
    BatchRows = 2
    MaxDeletes = 1
    MayCrash = TRUE
    Presigned = FALSE
INVARIANTS
    TypeOK
    YoungRowsResolve
    
PROPERTIES
    NothingLingers
