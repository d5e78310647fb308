SPECIFICATION FairSpec
CONSTANTS
    d1 = d1
    d2 = d2
    d3 = d3
    c1 = c1
    c2 = c2
    c3 = c3
    Nobody = Nobody
    Daemons = {d1, d2}
    Clients = {c1, c2}
    Commands = {"start", "stop", "ensure", "hook", "call"}
    Signals = TRUE
INVARIANTS Reachable StoppedMeansGone
PROPERTIES SpawnerReturns
CHECK_DEADLOCK FALSE
