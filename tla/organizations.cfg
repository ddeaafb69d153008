SPECIFICATION Spec
CONSTANTS
    None = None
    Users = {a, b}
    Groups = {g}
    Workspaces = {w}
    Requests = {r1, r2}
SYMMETRY Symmetry
CHECK_DEADLOCK FALSE
INVARIANTS OneAtATimeKeepsAdmin AccessIsThroughLiveGroups
