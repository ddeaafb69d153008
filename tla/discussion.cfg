SPECIFICATION Spec
CONSTANTS
    ann = ann
    ben = ben
    i1 = i1
    c1 = c1
    None = None
    Users = {ann, ben}
    Assigned = {ann}
    Issues = {i1}
    Comments = {c1}
    On <- MCOn
    Reporter <- MCReporter
    Reader = ben
    Movers = {ben}
    Requests = {r1, r2}
    MaxClock = 3
    MaxMoves = 1
    Limit = 1
SYMMETRY Symmetry
CHECK_DEADLOCK FALSE
INVARIANTS CommentsAreExplained PagesMissNothing
