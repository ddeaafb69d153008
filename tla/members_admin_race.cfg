SPECIFICATION Spec
CONSTANTS
    ann = ann
    ben = ben
    Users = {ann, ben}
    Workspaces = {w1}
    Founder <- MCFounder
    Assigned <- MCNobodyAssigned
    Requests = {r1, r2}
SYMMETRY Symmetry
INVARIANT WorkspaceKeepsAdmin
