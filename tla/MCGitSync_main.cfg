SPECIFICATION Live
CONSTANTS
    m1 = m1
    m2 = m2
    None = None
    Paths = {m1, m2}
    Existing = {m1}
    MaxAttempts = 2
    MaxOwn = 2
    MaxPeer = 2
    MaxFaults = 2
    MaxCrashes = 1
    MaxTrouble = 2
INVARIANTS AckedIsPushed
PROPERTIES PeersKept FailedIsUndone OperationEnds Converges
CHECK_DEADLOCK FALSE
