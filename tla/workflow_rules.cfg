SPECIFICATION Spec
CONSTANTS
    todo = todo
    doing = doing
    done = done
    bug = bug
    ann = ann
    Nobody = Nobody
    Statuses = {todo, doing, done}
    Default = {todo, done}
    DefaultDone = {done}
    Issues = {i1}
    Labels = {bug}
    Users = {ann}
    Rules = {r1, r2}
    Workflows <- MCPath
    Definitions <- MCChains
    SharedUsers = {ann}
SYMMETRY Symmetry
INVARIANTS TypeOK IssuesOnActiveStatus DoneStatusExists TransitionsLive StatusDependenciesLive ActivityExplainsStatus LaterActionsWin
PROPERTY StatusMovesAreAllowed
