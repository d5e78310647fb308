SPECIFICATION Spec
CONSTANTS
    a = a
    b = b
    dir = dir
    git = git
    e1 = e1
    e2 = e2
    None = None
    Machines = {a, b}
    Embedders = {e1, e2}
    Places = {dir, git}
    Remotes = {git}
    MaxKeys = 2
    MaxCommands = 3
SYMMETRY Symmetry
INVARIANTS TypeOK OneKey OneSpace NoGhost DoctorIsRight
CHECK_DEADLOCK FALSE
