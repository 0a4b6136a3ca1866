\* One student of two classes, two faults, a window of two days.
SPECIFICATION FairSpec
CONSTANTS
    s1 = s1
    s2 = s2
    c = c
    d = d
    Students = {s1}
    Schedules = {c, d}
    Enrolled <- MCEnrolled
    Teacher = teacher
    Kinds = {"EARLY_LEAVE_PATTERN"}
    RenotifyDays = 2
    RetentionDays = 2
    None = None
    MaxFaults = 2

    
PROPERTIES
    NotNagged
    StillWarned
