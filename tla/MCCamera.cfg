\* One camera whose FFmpeg may be refused, stall and die, and an administrator.
SPECIFICATION CameraSpec
CONSTANTS
    x = x
    Admins = {x}
    MaxFanouts = 1
    WarmupFrames = 1
    MaxFailures = 1
    MaxReports = 1

    
PROPERTIES
    NoneForgotten
    
    
\* The grabber is stopped.
CHECK_DEADLOCK FALSE
