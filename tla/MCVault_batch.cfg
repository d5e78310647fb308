SPECIFICATION Spec
CONSTANTS
    a = a
    b = b
    t1 = t1
    t2 = t2
    short = short
    long = long
    None = None
    Ids = {a, b}
    Texts = {short, long}
    Size <- MCSize
    MaxChunks = 2
    Tasks = {t1, t2}
    Ops = {"ingest", "update", "sync", "read"}
    EnvKinds = {"create", "delete"}
    EnvAtBoot = FALSE
    LateMiss = TRUE
    InitialFiles <- MCOldLong
    MaxClock = 2
SYMMETRY Symmetry
INVARIANTS Lockstep
PROPERTIES IngestComplete BatchUndone
