SPECIFICATION Spec
CONSTANTS
    a = a
    b = b
    t1 = t1
    t2 = t2
    short = short
    long = long
    None = None
    Ids = {a}
    Texts = {short, long}
    Size <- MCSize
    MaxChunks = 2
    Tasks = {t1, t2}
    Ops = {"sync", "flush"}
    EnvKinds = {"edit"}
    EnvAtBoot = TRUE
    LateMiss = FALSE
    InitialFiles <- MCOldShort
    MaxClock = 2
SYMMETRY Symmetry
INVARIANTS NoSilentStaleness
