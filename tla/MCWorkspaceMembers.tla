------------------------ MODULE MCWorkspaceMembers ------------------------
EXTENDS WorkspaceMembers, TLC

CONSTANTS ann, ben

(* ann founded every workspace; an assignment makes ben an admin of one.   *)
MCFounder == [w \in Workspaces |-> ann]
MCNobodyAssigned == [w \in Workspaces |-> {}]
MCBenAssigned ==
    [w \in Workspaces |-> IF w = CHOOSE v \in Workspaces : TRUE THEN {ben} ELSE {}]

Symmetry == Permutations(Requests)
============================================================================
