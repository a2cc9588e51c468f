CONSTANTS
    None = None
    Rooms = {0, 1, 2}
    Links <- TheLinks
    Clicks = {1, 2, 3}
    MaxSessions = 2
    MaxSent = 1
    Handoffs = {"no publisher", "complete"}

SPECIFICATION Spec

INVARIANTS
    LeavesOnce
    CanStopWhatItStarted

CHECK_DEADLOCK FALSE
