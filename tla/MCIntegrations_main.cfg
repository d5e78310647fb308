SPECIFICATION Spec
CONSTANTS
    p1 = p1
    p2 = p2
    u = u
    Clients = {"claude-code", "codex", "openclaw", "opencode", "cursor", "antigravity-cli"}
    Procs = {p1, p2}
    Users = {u}
    Hosts = {{"claude-code"}, {"antigravity-cli"}, {"opencode"}, {"codex", "cursor"}, {"openclaw", "cursor"}}
    MaxCommands = 2
    MaxEdits = 1
SYMMETRY Symmetry
INVARIANTS UsersKept Whole Clean
CHECK_DEADLOCK FALSE
