SPECIFICATION Spec
CONSTANTS
    ann = ann
    ben = ben
    Users = {ann, ben}
    Workspaces = {w1, w2}
    Founder <- MCFounder
    Assigned <- MCBenAssigned
    Requests = {r1, r2}
SYMMETRY Symmetry
INVARIANT DecisionsStand
PROPERTIES LastAdminStays ProjectKeepsManager
CHECK_DEADLOCK FALSE
