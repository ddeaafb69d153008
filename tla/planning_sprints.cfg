SPECIFICATION FairSpec
CONSTANTS
    p1 = p1
    p2 = p2
    a = a
    b = b
    c = c
    d = d
    s = s
    t = t
    None = None
    Projects = {p1, p2}
    Issues = {a, c}
    Sprints = {s, t}
    Home <- MCHome
    Types = {"task"}
    LinkTypes = {}
    g1 = g1
    g2 = g2
    Goals = {g1, g2}
    Requests = {r1, r2}
CHECK_DEADLOCK FALSE
PROPERTIES CompletedGainsNothing HandlersAreAtomic RequestsEnd
