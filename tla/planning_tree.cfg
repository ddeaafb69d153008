SPECIFICATION Spec
CONSTANTS
    p1 = p1
    p2 = p2
    a = a
    b = b
    c = c
    d = d
    s = s
    t = t
    g1 = g1
    g2 = g2
    None = None
    Projects = {p1, p2}
    Issues = {a, b, c}
    Sprints = {}
    Home <- MCHome
    Types = {"task", "subtask"}
    LinkTypes = {"relates"}
    Goals = {}
    Requests = {r1, r2}
SYMMETRY Symmetry
CHECK_DEADLOCK FALSE
INVARIANTS NoCycleInProject ConstraintsHold ReadsStand
PROPERTIES ArchiveIsFinal HandlersAreAtomic
