SPECIFICATION FairSpec
CONSTANTS
    a = a
    b = b
    t1 = t1
    t2 = t2
    short = short
    long = long
    None = None
    Ids = {a}
    Texts = {short, long}
    Size <- MCSize
    MaxChunks = 2
    Tasks = {t1, t2}
    Ops = {"update", "sync", "read"}
    EnvKinds = {"edit", "delete", "restore", "corrupt"}
    EnvAtBoot = FALSE
    LateMiss = FALSE
    InitialFiles <- MCOldLong
    MaxClock = 2
INVARIANTS RegisteredIsIndexed NoSilentStaleness
PROPERTIES EveryCallReturns
