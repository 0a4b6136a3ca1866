\* Two users, three emails, a room and a schedule; pushes are lost, late and overtaken.
SPECIFICATION FairSpec
CONSTANTS
    e = e
    f = f
    g = g
    n = n
    UserIds = {1, 2}
    RoomIds = {1}
    ScheduleIds = {1}
    Emails = {e, f, g}
    Names = {n}
    MaxEdits = 3
    MaxInFlight = 2
PROPERTIES
    NeverWiped
    Converges
