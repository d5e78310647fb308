SPECIFICATION Spec
CONSTANTS
    a = a
    b = b
    t1 = t1
    t2 = t2
    short = short
    long = long
    None = None
    Ids = {a, b}
    Texts = {short, long}
    Size <- MCSize
    MaxChunks = 2
    Tasks = {t1, t2}
    Ops = {"write", "delete", "sync", "flush", "read"}
    EnvKinds = {"create", "delete"}
    EnvAtBoot = TRUE
    LateMiss = FALSE
    InitialFiles <- MCNoFiles
    MaxClock = 2
SYMMETRY Symmetry
INVARIANTS CacheSound NoDuplicateWrite
PROPERTIES MirrorsDisk
