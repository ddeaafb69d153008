SPECIFICATION Spec
CONSTANTS
    None = None
    Passwords = {p}
    Sessions = {s1}
    Links = {l1, l2, l3}
    Invites = {i1, i2}
    Requests = {r1, r2}
SYMMETRY Symmetry
CHECK_DEADLOCK FALSE
INVARIANTS NoMoreLinksThanRequests LockedRowsStand
PROPERTY LinksWorkOnce
