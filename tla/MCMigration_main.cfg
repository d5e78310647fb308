SPECIFICATION Spec
CONSTANTS
    f = f
    g = g
    json = json
    k0 = k0
    k1 = k1
    d0 = d0
    d1 = d1
    p0 = p0
    p1 = p1
    None = None
    Ids = {f, g}
    Json = json
    Keys = {k0, k1}
    Dims = {d0, d1}
    Places = {p0, p1}
    Types = {"key", "embedder", "storage"}
    Daemons = TRUE
SYMMETRY Symmetry
INVARIANTS UnfencedMeansReadable Recoverable FenceHolds
CHECK_DEADLOCK FALSE
