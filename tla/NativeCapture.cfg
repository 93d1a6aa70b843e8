SPECIFICATION CaptureSpec
CONSTANTS
    t1 = t1
    t2 = t2
    Client <- MCClient
    MaxCaptures = 2
    MaxFrames = 1
SYMMETRY Alike
 
INVARIANT ClosedIsQuiet
CHECK_DEADLOCK FALSE
