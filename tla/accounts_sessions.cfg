SPECIFICATION Spec
CONSTANTS
    None = None
    Passwords = {p, q}
    Sessions = {s1, s2}
    Links = {l1}
    Invites = {i1}
    Requests = {r1, r2, r3}
SYMMETRY Symmetry
CHECK_DEADLOCK FALSE
INVARIANTS SessionsExplained
