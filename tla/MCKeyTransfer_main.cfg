SPECIFICATION Live
CONSTANTS
    s1 = s1
    s2 = s2
    r1 = r1
    r2 = r2
    None = None
    Senders = {s1, s2}
    Receivers = {r1, r2}
    Meant <- MeantPairs
    MaxRuns <- Twice
    MaxBreaks = 1
INVARIANTS SecretNeedsBoth NobodyAccused
PROPERTIES SessionEnds Delivered
CHECK_DEADLOCK FALSE
