---------------------- MODULE WorkspaceMembersProofs ----------------------
(***************************************************************************)
(* For any users, workspaces and requests, however their transactions      *)
(* overlap: a transaction decides upon what is still so when it writes,    *)
(* and what it has counted remains unless a commit in between took it away *)
(* - so the last admin and the last manager go in such a race only, or     *)
(* where another workspace deactivates the account.                        *)
(***************************************************************************)
EXTENDS WorkspaceMembers, TLAPS

(* The shape of a transaction started for a user, and of its end. *)
LEMMA StartFacts ==
    ASSUME NEW r \in Requests, NEW w, NEW u, NEW q, Start(r, w, u, q)
    PROVE  /\ ~UserLocked(u)
           /\ requests' = [requests EXCEPT ![r] = q]
           /\ UNCHANGED <<account, direct, project, overtaken>>
BY DEF Start

(* The two parts of the type invariant. *)
RowsTyped ==
    /\ account \in [Users -> Accounts]
    /\ direct \in [Workspaces -> [Users -> WorkspaceRoles \cup {"none"}]]
    /\ project \in [Workspaces -> [Users -> ProjectRoles \cup {"none"}]]
    /\ requests \in [Requests -> Request]

OvertakenTyped == overtaken \subseteq {r \in Requests : InTransaction(r)}

(* Every value a step writes has its type: whatever users, workspaces and  *)
(* concurrent requests there are.                                          *)
THEOREM TypeCorrect == Spec => []TypeOK
<1>1. Init => RowsTyped /\ OvertakenTyped
  BY WorkspaceMembersAssumption
  DEF Init, RowsTyped, OvertakenTyped, Accounts, WorkspaceRoles, Request, Idle
<1>2. RowsTyped /\ [Next]_vars => RowsTyped'
  <2> SUFFICES ASSUME RowsTyped, [Next]_vars PROVE RowsTyped'
    OBVIOUS
  <2>idle. Idle \in Request
    BY DEF Idle, Request
  <2>1. ASSUME NEW r \in Requests, NEW w \in Workspaces, NEW u \in Users, Authorize(r, w, u)
        PROVE  RowsTyped'
    BY <2>1 DEF Authorize, Request, RowsTyped
  <2>2. ASSUME NEW w \in Workspaces, NEW u \in Users PROVE SeenNow(w, u) \in Seen
    BY DEF SeenNow, Seen, RowsTyped
  <2>3. ASSUME NEW r \in Requests, NEW w \in Workspaces, NEW u \in Users,
               NEW role \in ProjectRoles, CheckPut(r, w, u, role)
        PROVE  RowsTyped'
    <3>1. [step |-> "put", ws |-> w, user |-> u, seen |-> SeenNow(w, u), role |-> role] \in Request
      BY <2>2 DEF Request, RowsTyped
    <3> QED BY <2>3, <3>1 DEF CheckPut, Start, RowsTyped
  <2>4. ASSUME NEW r \in Requests, NEW w \in Workspaces, NEW u \in Users, CheckDelete(r, w, u)
        PROVE  RowsTyped'
    <3>1. [step |-> "delete", ws |-> w, user |-> u, seen |-> SeenNow(w, u)] \in Request
      BY <2>2 DEF Request, RowsTyped
    <3> QED BY <2>4, <3>1 DEF CheckDelete, Start, RowsTyped
  <2>5. ASSUME NEW r \in Requests, NEW u \in Users, NEW role \in WorkspaceRoles,
               NEW on \in BOOLEAN, CheckUpdate(r, u, role, on)
        PROVE  RowsTyped'
    <3> DEFINE w == requests[r].ws
    <3>1. w \in Workspaces
      BY <2>5 DEF CheckUpdate, Request, RowsTyped
    <3>2. [step |-> "update", ws |-> w, user |-> u, seen |-> SeenNow(w, u),
           role |-> role, on |-> on] \in Request
      BY <2>2, <3>1 DEF Request, RowsTyped
    <3> QED BY <2>5, <3>2 DEF CheckUpdate, Start, RowsTyped
  <2>6. ASSUME NEW r \in Requests, CommitUpdate(r) PROVE RowsTyped'
    <3>1. /\ requests[r].ws \in Workspaces
          /\ requests[r].user \in Users
          /\ requests[r].role \in WorkspaceRoles
      BY <2>6 DEF CommitUpdate, Request, RowsTyped
    <3>2. requests' \in [Requests -> Request]
      BY <2>6, <2>idle DEF CommitUpdate, End, RowsTyped
    <3>3. account' \in [Users -> Accounts]
      BY <2>6, <3>1 DEF CommitUpdate, Accounts, RowsTyped
    <3>4. direct' \in [Workspaces -> [Users -> WorkspaceRoles \cup {"none"}]]
      BY <2>6, <3>1 DEF CommitUpdate, RowsTyped
    <3>5. UNCHANGED project
      BY <2>6 DEF CommitUpdate
    <3> QED BY <3>2, <3>3, <3>4, <3>5 DEF RowsTyped
  <2>7. ASSUME NEW r \in Requests, CommitPut(r) PROVE RowsTyped'
    <3>1. /\ requests[r].ws \in Workspaces
          /\ requests[r].user \in Users
          /\ requests[r].role \in ProjectRoles
      BY <2>7 DEF CommitPut, Request, RowsTyped
    <3>2. requests' \in [Requests -> Request]
      BY <2>7, <2>idle DEF CommitPut, End, RowsTyped
    <3>3. project' \in [Workspaces -> [Users -> ProjectRoles \cup {"none"}]]
      BY <2>7, <3>1 DEF CommitPut, RowsTyped
    <3>4. UNCHANGED <<account, direct>>
      BY <2>7 DEF CommitPut
    <3> QED BY <3>2, <3>3, <3>4 DEF RowsTyped
  <2>8. ASSUME NEW r \in Requests, CommitDelete(r) PROVE RowsTyped'
    BY <2>8 DEF CommitDelete, End, Idle, Request, RowsTyped
  <2>9. ASSUME NEW r \in Requests, Abandon(r) PROVE RowsTyped'
    BY <2>9, <2>idle DEF Abandon, End, RowsTyped
  <2>10. ASSUME NEW w \in Workspaces, NEW u \in Users, NEW role \in WorkspaceRoles,
                CreateMember(w, u, role) \/ AcceptInvite(w, u, role)
         PROVE  RowsTyped'
    <3>1. account' \in [Users -> Accounts]
      BY <2>10 DEF CreateMember, AcceptInvite, Accounts, RowsTyped
    <3>2. direct' \in [Workspaces -> [Users -> WorkspaceRoles \cup {"none"}]]
      <4>1. direct' = [direct EXCEPT ![w][u] = role]
        BY <2>10 DEF CreateMember, AcceptInvite
      <4> QED BY <4>1 DEF RowsTyped
    <3>3. UNCHANGED <<project, requests>>
      BY <2>10 DEF CreateMember, AcceptInvite
    <3> QED BY <3>1, <3>2, <3>3 DEF RowsTyped
  <2>11. CASE UNCHANGED vars
    BY <2>11 DEF vars, RowsTyped
  <2> QED BY <2>1, <2>3, <2>4, <2>5, <2>6, <2>7, <2>8, <2>9, <2>10, <2>11 DEF Next
<1>3. RowsTyped /\ OvertakenTyped /\ [Next]_vars => OvertakenTyped'
  <2> SUFFICES ASSUME RowsTyped, OvertakenTyped, [Next]_vars PROVE OvertakenTyped'
    OBVIOUS
  <2>1. ASSUME NEW r \in Requests, NEW q,
               requests' = [requests EXCEPT ![r] = q], overtaken' \subseteq overtaken,
               r \in overtaken' => q.step \in {"update", "put", "delete"}
        PROVE  OvertakenTyped'
    <3>1. requests'[r] = q /\ \A p \in Requests \ {r} : requests'[p] = requests[p]
      BY <2>1 DEF RowsTyped
    <3> QED BY <2>1, <3>1 DEF OvertakenTyped, InTransaction
  <2>2. ASSUME NEW r \in Requests, NEW w, NEW u, NEW q,
               Start(r, w, u, q), q.step \in {"update", "put", "delete"}
        PROVE  OvertakenTyped'
    BY <2>1, <2>2, StartFacts
  <2>3. ASSUME NEW r \in Requests, NEW w \in Workspaces, NEW u \in Users, Authorize(r, w, u)
        PROVE  OvertakenTyped'
    <3>1. r \notin overtaken
      BY <2>3 DEF Authorize, Idle, OvertakenTyped, InTransaction
    <3> QED BY <2>1, <2>3, <3>1 DEF Authorize
  <2>4. ASSUME NEW r \in Requests, NEW w \in Workspaces, NEW u \in Users,
               CheckDelete(r, w, u) \/ \E role \in ProjectRoles : CheckPut(r, w, u, role)
        PROVE  OvertakenTyped'
    BY <2>2, <2>4 DEF CheckDelete, CheckPut
  <2>5. ASSUME NEW r \in Requests, NEW u \in Users, NEW role \in WorkspaceRoles,
               NEW on \in BOOLEAN, CheckUpdate(r, u, role, on)
        PROVE  OvertakenTyped'
    BY <2>2, <2>5 DEF CheckUpdate
  <2>6. ASSUME NEW r \in Requests, CommitUpdate(r) PROVE OvertakenTyped'
    <3>1. \A p \in Requests \ {r} : requests'[p] = requests[p]
      BY <2>6 DEF CommitUpdate, End, RowsTyped
    <3>2. overtaken' \subseteq (overtaken \ {r}) \cup {p \in Requests \ {r} : InTransaction(p)}
      BY <2>6 DEF CommitUpdate
    <3> QED BY <3>1, <3>2 DEF OvertakenTyped, InTransaction
  <2>7. ASSUME NEW r \in Requests, CommitPut(r) \/ CommitDelete(r) \/ Abandon(r)
        PROVE  OvertakenTyped'
    BY <2>1, <2>7 DEF CommitPut, CommitDelete, Abandon, End
  <2>8. ASSUME NEW w \in Workspaces, NEW u \in Users, NEW role \in WorkspaceRoles,
               CreateMember(w, u, role) \/ AcceptInvite(w, u, role)
        PROVE  OvertakenTyped'
    BY <2>8 DEF CreateMember, AcceptInvite, OvertakenTyped, InTransaction
  <2>9. CASE UNCHANGED vars
    BY <2>9 DEF vars, OvertakenTyped, InTransaction
  <2> QED BY <2>3, <2>4, <2>5, <2>6, <2>7, <2>8, <2>9 DEF Next
<1>4. TypeOK <=> RowsTyped /\ OvertakenTyped
  BY DEF TypeOK, RowsTyped, OvertakenTyped
<1> QED BY <1>1, <1>2, <1>3, <1>4, PTL DEF Spec

----------------------------------------------------------------------------
(* Row locks keep two transactions off the same user. *)
TargetsApart ==
    \A p, q \in Requests :
        InTransaction(p) /\ InTransaction(q) /\ requests[p].user = requests[q].user => p = q

(* The lock on the project keeps two transactions off the same project. *)
ProjectsApart ==
    \A p, q \in Requests :
        /\ requests[p].step \in {"put", "delete"} /\ requests[q].step \in {"put", "delete"}
        /\ requests[p].ws = requests[q].ws
        => p = q

(* No rows are kept for a user without an account, and no transaction is   *)
(* about one.                                                              *)
RowsHaveAccounts ==
    /\ \A u \in Users, w \in Workspaces :
         direct[w][u] # "none" \/ project[w][u] # "none" => account[u] # "none"
    /\ \A r \in Requests : InTransaction(r) => account[requests[r].user] # "none"

LocksInv == TypeOK /\ TargetsApart /\ RowsHaveAccounts /\ DecisionsStand

(* A transaction that starts locks a user no other has locked and has just *)
(* read what it decides upon.                                              *)
LEMMA StartKeepsLocks ==
    ASSUME LocksInv, NEW r \in Requests, NEW w \in Workspaces, NEW u \in Users, NEW q,
           ~InTransaction(r), q.step \in {"update", "put", "delete"},
           q.user = u, q.ws = w, q.seen = SeenNow(w, u), Start(r, w, u, q),
           account[u] # "none"
    PROVE  TargetsApart' /\ RowsHaveAccounts' /\ DecisionsStand'
<1>1. /\ requests' = [requests EXCEPT ![r] = q]
      /\ UNCHANGED <<account, direct, project>>
      /\ ~UserLocked(u)
  BY StartFacts
<1>2. requests'[r] = q /\ \A p \in Requests \ {r} : requests'[p] = requests[p]
  BY <1>1 DEF LocksInv, TypeOK
<1>3. TargetsApart'
  BY <1>1, <1>2 DEF LocksInv, TargetsApart, UserLocked, InTransaction
<1>4. DecisionsStand'
  BY <1>1, <1>2 DEF LocksInv, DecisionsStand, InTransaction, SeenNow
<1>5. RowsHaveAccounts'
  BY <1>1, <1>2 DEF LocksInv, RowsHaveAccounts, InTransaction
<1> QED BY <1>3, <1>4, <1>5

(* A request that ends, or is authorized, leaves the others as they were. *)
LEMMA OthersKeepLocks ==
    ASSUME LocksInv, NEW r \in Requests, NEW q, q.step \notin {"update", "put", "delete"},
           requests' = [requests EXCEPT ![r] = q],
           \A p \in Requests \ {r} : InTransaction(p) =>
               /\ account'[requests[p].user] = account[requests[p].user]
               /\ direct'[requests[p].ws][requests[p].user] = direct[requests[p].ws][requests[p].user]
               /\ project'[requests[p].ws][requests[p].user] = project[requests[p].ws][requests[p].user]
    PROVE  TargetsApart' /\ DecisionsStand'
<1>1. requests'[r] = q /\ \A p \in Requests \ {r} : requests'[p] = requests[p]
  BY DEF LocksInv, TypeOK
<1>2. TargetsApart'
  BY <1>1 DEF LocksInv, TargetsApart, InTransaction
<1>3. DecisionsStand'
  BY <1>1 DEF LocksInv, DecisionsStand, InTransaction
<1> QED BY <1>2, <1>3

LEMMA LocksHold == Spec => []LocksInv
<1>1. Init => TargetsApart /\ RowsHaveAccounts /\ DecisionsStand
  BY WorkspaceMembersAssumption DEF Init, TargetsApart, RowsHaveAccounts, DecisionsStand, InTransaction, Idle
<1>2. TypeOK /\ TargetsApart /\ RowsHaveAccounts /\ DecisionsStand /\ [Next]_vars => TargetsApart' /\ RowsHaveAccounts' /\ DecisionsStand'
  <2> SUFFICES ASSUME LocksInv, [Next]_vars PROVE TargetsApart' /\ RowsHaveAccounts' /\ DecisionsStand'
    BY DEF LocksInv
  <2>1. ASSUME NEW r \in Requests, NEW w \in Workspaces, NEW u \in Users, Authorize(r, w, u)
        PROVE  TargetsApart' /\ RowsHaveAccounts' /\ DecisionsStand'
    <3>1. RowsHaveAccounts'
      BY <2>1 DEF Authorize, LocksInv, TypeOK, RowsHaveAccounts, InTransaction
    <3> QED BY <2>1, <3>1, OthersKeepLocks DEF Authorize
  <2>2. ASSUME NEW r \in Requests, NEW w \in Workspaces, NEW u \in Users,
               NEW role \in ProjectRoles, CheckPut(r, w, u, role)
        PROVE  TargetsApart' /\ RowsHaveAccounts' /\ DecisionsStand'
    <3> DEFINE q == [step |-> "put", ws |-> w, user |-> u, seen |-> SeenNow(w, u), role |-> role]
    <3>1. ~InTransaction(r) /\ Start(r, w, u, q) /\ account[u] # "none"
      BY <2>2 DEF CheckPut, InTransaction, Idle, Active
    <3>2. q.step = "put" /\ q.user = u /\ q.ws = w /\ q.seen = SeenNow(w, u)
      OBVIOUS
    <3> HIDE DEF q
    <3> QED BY <3>1, <3>2, StartKeepsLocks
  <2>3. ASSUME NEW r \in Requests, NEW w \in Workspaces, NEW u \in Users, CheckDelete(r, w, u)
        PROVE  TargetsApart' /\ RowsHaveAccounts' /\ DecisionsStand'
    <3> DEFINE q == [step |-> "delete", ws |-> w, user |-> u, seen |-> SeenNow(w, u)]
    <3>1. ~InTransaction(r) /\ Start(r, w, u, q) /\ account[u] # "none"
      BY <2>3 DEF CheckDelete, InTransaction, Idle, LocksInv, RowsHaveAccounts
    <3>2. q.step = "delete" /\ q.user = u /\ q.ws = w /\ q.seen = SeenNow(w, u)
      OBVIOUS
    <3> HIDE DEF q
    <3> QED BY <3>1, <3>2, StartKeepsLocks
  <2>4. ASSUME NEW r \in Requests, NEW u \in Users, NEW role \in WorkspaceRoles,
               NEW on \in BOOLEAN, CheckUpdate(r, u, role, on)
        PROVE  TargetsApart' /\ RowsHaveAccounts' /\ DecisionsStand'
    <3> DEFINE w == requests[r].ws
               q == [step |-> "update", ws |-> w, user |-> u, seen |-> SeenNow(w, u),
                     role |-> role, on |-> on]
    <3>1. w \in Workspaces
      BY <2>4 DEF CheckUpdate, LocksInv, TypeOK, Request
    <3>2. ~InTransaction(r) /\ Start(r, w, u, q) /\ account[u] # "none"
      BY <2>4, <3>1 DEF CheckUpdate, InTransaction, LocksInv, RowsHaveAccounts
    <3>3. q.step = "update" /\ q.user = u /\ q.ws = w /\ q.seen = SeenNow(w, u)
      OBVIOUS
    <3> HIDE DEF q, w
    <3> QED BY <3>1, <3>2, <3>3, StartKeepsLocks
  <2>5. ASSUME NEW r \in Requests, CommitUpdate(r) \/ CommitPut(r) \/ CommitDelete(r)
        PROVE  TargetsApart' /\ RowsHaveAccounts' /\ DecisionsStand'
    <3>1. InTransaction(r) /\ requests' = [requests EXCEPT ![r] = Idle]
      BY <2>5 DEF CommitUpdate, CommitPut, CommitDelete, InTransaction, End
    <3>2. \A p \in Requests \ {r} : InTransaction(p) => requests[p].user # requests[r].user
      BY <3>1 DEF LocksInv, TargetsApart
    <3>3. requests[r].user \in Users /\ requests[r].ws \in Workspaces
      BY <3>1 DEF InTransaction, LocksInv, TypeOK, Request
    <3>4. \A p \in Requests \ {r} : InTransaction(p) =>
             requests[p].user \in Users /\ requests[p].ws \in Workspaces
      BY DEF InTransaction, LocksInv, TypeOK, Request
    <3>5. \A v \in Users \ {requests[r].user}, w \in Workspaces :
             /\ account'[v] = account[v]
             /\ direct'[w][v] = direct[w][v]
             /\ project'[w][v] = project[w][v]
      BY <2>5, <3>3 DEF CommitUpdate, CommitPut, CommitDelete, LocksInv, TypeOK
    <3>6. RowsHaveAccounts'
      <4>1. \A w \in Workspaces, v \in Users :
               direct'[w][v] # "none" \/ project'[w][v] # "none" => account'[v] # "none"
        <5>1. account[requests[r].user] # "none"
          BY <3>1 DEF LocksInv, RowsHaveAccounts
        <5>2. CASE CommitUpdate(r)
          BY <3>3, <3>5, <5>1, <5>2 DEF CommitUpdate, LocksInv, TypeOK, RowsHaveAccounts
        <5>3. CASE CommitPut(r) \/ CommitDelete(r)
          <6>1. UNCHANGED account
            BY <5>3 DEF CommitPut, CommitDelete
          <6>2. UNCHANGED direct
            BY <5>3 DEF CommitPut, CommitDelete
          <6>3. \A w \in Workspaces, v \in Users :
                   v # requests[r].user => project'[w][v] = project[w][v]
            BY <3>5
          <6> QED BY <5>1, <6>1, <6>2, <6>3 DEF LocksInv, RowsHaveAccounts
        <5> QED BY <2>5, <5>2, <5>3
      <4>2. \A p \in Requests : InTransaction(p)' =>
               p # r /\ InTransaction(p) /\ requests'[p] = requests[p]
        BY <3>1 DEF InTransaction, LocksInv, TypeOK, Idle
      <4> QED BY <3>2, <3>4, <3>5, <4>1, <4>2 DEF LocksInv, RowsHaveAccounts
    <3>7. \A p \in Requests \ {r} : InTransaction(p) =>
             /\ account'[requests[p].user] = account[requests[p].user]
             /\ direct'[requests[p].ws][requests[p].user] = direct[requests[p].ws][requests[p].user]
             /\ project'[requests[p].ws][requests[p].user] = project[requests[p].ws][requests[p].user]
      BY <3>2, <3>4, <3>5
    <3>8. Idle.step \notin {"update", "put", "delete"}
      BY DEF Idle
    <3> QED BY <3>1, <3>6, <3>7, <3>8, OthersKeepLocks
  <2>6. ASSUME NEW r \in Requests, Abandon(r) PROVE TargetsApart' /\ RowsHaveAccounts' /\ DecisionsStand'
    <3>1. requests' = [requests EXCEPT ![r] = Idle] /\ UNCHANGED <<account, direct, project>>
      BY <2>6 DEF Abandon, End
    <3>2. RowsHaveAccounts'
      BY <3>1 DEF LocksInv, TypeOK, RowsHaveAccounts, InTransaction, Idle
    <3> QED BY <3>1, <3>2, OthersKeepLocks DEF Idle
  <2>7. ASSUME NEW w \in Workspaces, NEW u \in Users, NEW role \in WorkspaceRoles,
               CreateMember(w, u, role) \/ AcceptInvite(w, u, role)
        PROVE  TargetsApart' /\ RowsHaveAccounts' /\ DecisionsStand'
    <3>1. UNCHANGED requests
      BY <2>7 DEF CreateMember, AcceptInvite
    <3>2. /\ \A r \in Requests : InTransaction(r) => requests[r].user # u
          /\ account'[u] = "active"
      BY <2>7 DEF CreateMember, AcceptInvite, UserLocked, LocksInv, RowsHaveAccounts, TypeOK
    <3>3. \A v \in Users \ {u}, x \in Workspaces :
             /\ account'[v] = account[v]
             /\ direct'[x][v] = direct[x][v]
             /\ project'[x][v] = project[x][v]
      BY <2>7 DEF CreateMember, AcceptInvite, LocksInv, TypeOK
    <3>4. \A r \in Requests : InTransaction(r) =>
             requests[r].user \in Users \ {u} /\ requests[r].ws \in Workspaces
      BY <3>2 DEF InTransaction, LocksInv, TypeOK, Request
    <3>5. TargetsApart'
      BY <3>1 DEF LocksInv, TargetsApart, InTransaction
    <3>6. RowsHaveAccounts'
      BY <3>1, <3>2, <3>3, <3>4 DEF LocksInv, RowsHaveAccounts, InTransaction
    <3>7. DecisionsStand'
      BY <3>1, <3>3, <3>4 DEF LocksInv, DecisionsStand, InTransaction
    <3> QED BY <3>5, <3>6, <3>7
  <2>8. CASE UNCHANGED vars
    BY <2>8 DEF vars, LocksInv, TargetsApart, RowsHaveAccounts, DecisionsStand, InTransaction
  <2> QED BY <2>1, <2>2, <2>3, <2>4, <2>5, <2>6, <2>7, <2>8 DEF Next
<1> QED BY <1>1, <1>2, TypeCorrect, PTL DEF Spec, LocksInv

(* What a transaction decided upon stands until it writes. *)
THEOREM DecisionsAlwaysStand == Spec => []DecisionsStand
<1>1. LocksInv => DecisionsStand
  BY DEF LocksInv
<1> QED BY <1>1, LocksHold, PTL

LEMMA ProjectsStayApart == Spec => []ProjectsApart
<1>1. Init => ProjectsApart
  BY DEF Init, ProjectsApart, Idle
<1>2. TypeOK /\ ProjectsApart /\ [Next]_vars => ProjectsApart'
  <2> SUFFICES ASSUME TypeOK, ProjectsApart, [Next]_vars PROVE ProjectsApart'
    OBVIOUS
  <2>1. ASSUME NEW r \in Requests, NEW q, requests' = [requests EXCEPT ![r] = q],
               q.step \in {"put", "delete"} => ~ProjectLocked(q.ws)
        PROVE  ProjectsApart'
    <3>1. requests'[r] = q /\ \A x \in Requests \ {r} : requests'[x] = requests[x]
      BY <2>1 DEF TypeOK
    <3> QED BY <2>1, <3>1 DEF ProjectsApart, ProjectLocked
  <2>2. ASSUME NEW r \in Requests, NEW w \in Workspaces, NEW u \in Users, Authorize(r, w, u)
        PROVE  ProjectsApart'
    <3> DEFINE q == [step |-> "authorized", ws |-> w, actor |-> u]
    <3>1. q.step = "authorized" /\ requests' = [requests EXCEPT ![r] = q]
      BY <2>2 DEF Authorize
    <3> HIDE DEF q
    <3> QED BY <2>1, <3>1
  <2>3. ASSUME NEW r \in Requests, NEW w \in Workspaces, NEW u \in Users,
               NEW role \in ProjectRoles, CheckPut(r, w, u, role)
        PROVE  ProjectsApart'
    <3> DEFINE q == [step |-> "put", ws |-> w, user |-> u, seen |-> SeenNow(w, u), role |-> role]
    <3>1. Start(r, w, u, q) /\ q.ws = w /\ ~ProjectLocked(w)
      BY <2>3 DEF CheckPut
    <3> HIDE DEF q
    <3> QED BY <2>1, <3>1, StartFacts
  <2>4. ASSUME NEW r \in Requests, NEW w \in Workspaces, NEW u \in Users, CheckDelete(r, w, u)
        PROVE  ProjectsApart'
    <3> DEFINE q == [step |-> "delete", ws |-> w, user |-> u, seen |-> SeenNow(w, u)]
    <3>1. Start(r, w, u, q) /\ q.ws = w /\ ~ProjectLocked(w)
      BY <2>4 DEF CheckDelete
    <3> HIDE DEF q
    <3> QED BY <2>1, <3>1, StartFacts
  <2>5. ASSUME NEW r \in Requests, NEW u \in Users, NEW role \in WorkspaceRoles,
               NEW on \in BOOLEAN, CheckUpdate(r, u, role, on)
        PROVE  ProjectsApart'
    <3> DEFINE w == requests[r].ws
               q == [step |-> "update", ws |-> w, user |-> u, seen |-> SeenNow(w, u),
                     role |-> role, on |-> on]
    <3>1. Start(r, w, u, q) /\ q.step = "update"
      BY <2>5 DEF CheckUpdate
    <3> HIDE DEF q, w
    <3> QED BY <2>1, <3>1, StartFacts
  <2>6. ASSUME NEW r \in Requests,
               CommitUpdate(r) \/ CommitPut(r) \/ CommitDelete(r) \/ Abandon(r)
        PROVE  ProjectsApart'
    <3>1. requests' = [requests EXCEPT ![r] = Idle] /\ Idle.step = "idle"
      BY <2>6 DEF CommitUpdate, CommitPut, CommitDelete, Abandon, End, Idle
    <3> QED BY <2>1, <3>1
  <2>7. ASSUME NEW w \in Workspaces, NEW u \in Users, NEW role \in WorkspaceRoles,
               CreateMember(w, u, role) \/ AcceptInvite(w, u, role)
        PROVE  ProjectsApart'
    BY <2>7 DEF CreateMember, AcceptInvite, ProjectsApart
  <2>8. CASE UNCHANGED vars
    BY <2>8 DEF vars, ProjectsApart
  <2> QED BY <2>2, <2>3, <2>4, <2>5, <2>6, <2>7, <2>8 DEF Next
<1> QED BY <1>1, <1>2, TypeCorrect, PTL DEF Spec

----------------------------------------------------------------------------
(* Someone whom a transaction has counted remains in charge, unless a      *)
(* commit has overtaken it: the transactions that must leave someone are   *)
(* those that take an active admin or an active lead away.                 *)
TakesAdmin(q) ==
    /\ q.step = "update"
    /\ q.seen.role = "admin" /\ q.seen.account = "active"
    /\ ~(q.role = "admin" /\ q.on)

TakesLead(q) ==
    /\ q.step \in {"put", "delete"}
    /\ q.seen.lead = "lead" /\ q.seen.account = "active"
    /\ q.step = "put" => q.role # "lead"

Remains(w, u, step) ==
    IF step = "update" THEN ActiveAdmins(w) \ {u} # {} ELSE KeepsManager(w, u)

SomeoneRemains ==
    \A r \in Requests \ overtaken :
        LET q == requests[r]
        IN  TakesAdmin(q) \/ TakesLead(q) => Remains(q.ws, q.user, q.step)

(* A step that leaves the admins of a workspace, and the leads if they     *)
(* count, as they were, or adds some.                                      *)
LEMMA RemainsGrows ==
    ASSUME NEW w \in Workspaces, NEW u, NEW step, Remains(w, u, step),
           ActiveAdmins(w) \subseteq ActiveAdmins(w)',
           step # "update" => ActiveLeads(w) \subseteq ActiveLeads(w)'
    PROVE  Remains(w, u, step)'
BY DEF Remains, KeepsManager

LEMMA TablesKeepRemains ==
    ASSUME UNCHANGED <<account, direct, project>>
    PROVE  \A w, u, step : Remains(w, u, step)' <=> Remains(w, u, step)
BY DEF Remains, KeepsManager, ActiveAdmins, ActiveLeads, Active

(* It is enough to look at the requests one by one. *)
LEMMA OneByOne ==
    ASSUME \A p \in Requests : \A q :
             q = requests'[p] /\ p \notin overtaken' /\ (TakesAdmin(q) \/ TakesLead(q)) =>
                 Remains(q.ws, q.user, q.step)'
    PROVE  SomeoneRemains'
<1> SUFFICES ASSUME NEW p \in Requests, p \notin overtaken', NEW q, q = requests'[p],
                    TakesAdmin(q) \/ TakesLead(q)
             PROVE  Remains(q.ws, q.user, q.step)'
  BY DEF SomeoneRemains, TakesAdmin, TakesLead, Remains, KeepsManager,
         ActiveAdmins, ActiveLeads, Active
<1> QED OBVIOUS

(* A request that starts, ends or is authorized, the tables as they were.  *)
LEMMA RequestMoves ==
    ASSUME TypeOK, SomeoneRemains, NEW r \in Requests, NEW q,
           requests' = [requests EXCEPT ![r] = q],
           UNCHANGED <<account, direct, project>>,
           overtaken \ {r} \subseteq overtaken',
           TakesAdmin(q) \/ TakesLead(q) => Remains(q.ws, q.user, q.step)
    PROVE  SomeoneRemains'
<1>1. requests'[r] = q /\ \A p \in Requests \ {r} : requests'[p] = requests[p]
  BY DEF TypeOK
<1> SUFFICES ASSUME NEW p \in Requests, NEW x, x = requests'[p], p \notin overtaken',
                    TakesAdmin(x) \/ TakesLead(x)
             PROVE  Remains(x.ws, x.user, x.step)'
  BY OneByOne
<1>2. Remains(x.ws, x.user, x.step)
  <2>1. CASE p = r
    BY <1>1, <2>1
  <2>2. CASE p # r
    <3>1. x = requests[p] /\ p \notin overtaken
      BY <1>1, <2>2
    <3> QED BY <3>1 DEF SomeoneRemains
  <2> QED BY <2>1, <2>2
<1> QED BY <1>2, TablesKeepRemains

(* What an update writes, for everyone but its user. *)
LEMMA UpdateOfOthers ==
    ASSUME TypeOK, NEW r \in Requests, CommitUpdate(r)
    PROVE  /\ requests[r].ws \in Workspaces /\ requests[r].user \in Users
           /\ \A w \in Workspaces, v \in Users :
                v # requests[r].user =>
                    /\ v \in ActiveAdmins(w)' <=> v \in ActiveAdmins(w)
                    /\ v \in ActiveLeads(w)' <=> v \in ActiveLeads(w)
           /\ UNCHANGED project
           /\ \A p \in Requests \ {r} : requests'[p] = requests[p]
           /\ requests'[r] = Idle
<1>1. requests[r].ws \in Workspaces /\ requests[r].user \in Users
  BY DEF CommitUpdate, TypeOK, Request
<1>2. \A w \in Workspaces, v \in Users :
        v # requests[r].user => account'[v] = account[v] /\ direct'[w][v] = direct[w][v]
  BY <1>1 DEF CommitUpdate, TypeOK
<1>3. UNCHANGED project
  BY DEF CommitUpdate
<1>4. \A w \in Workspaces, v \in Users :
        v # requests[r].user =>
            /\ v \in ActiveAdmins(w)' <=> v \in ActiveAdmins(w)
            /\ v \in ActiveLeads(w)' <=> v \in ActiveLeads(w)
  BY <1>2, <1>3 DEF ActiveAdmins, ActiveLeads, Active
<1>5. requests'[r] = Idle /\ \A p \in Requests \ {r} : requests'[p] = requests[p]
  BY DEF CommitUpdate, End, TypeOK
<1> QED BY <1>1, <1>3, <1>4, <1>5

(* An update takes nobody away whom a transaction that it has not          *)
(* overtaken counted: the user of that transaction is locked by it.        *)
LEMMA UpdateKeepsRemains ==
    ASSUME LocksInv, NEW r \in Requests, CommitUpdate(r),
           NEW p \in Requests, p # r, InTransaction(p), p \notin overtaken',
           NEW q, q = requests[p], Remains(q.ws, q.user, q.step)
    PROVE  Remains(q.ws, q.user, q.step)'
<1>1. PICK w \in Workspaces, u \in Users : w = q.ws /\ u = q.user
  BY DEF InTransaction, LocksInv, TypeOK, Request
<1>2. u # requests[r].user
  BY <1>1 DEF LocksInv, TargetsApart, InTransaction, CommitUpdate
<1>3. requests'[p] = requests[p]
  BY UpdateOfOthers DEF LocksInv
<1>4. Counted(p) \subseteq Counted(p)'
  BY DEF CommitUpdate
<1>5. /\ u \in ActiveAdmins(w)' <=> u \in ActiveAdmins(w)
      /\ u \in ActiveLeads(w)' <=> u \in ActiveLeads(w)
  BY <1>2, UpdateOfOthers DEF LocksInv
<1>6. CASE q.step = "update"
  <2>1. PICK v \in ActiveAdmins(w) : v # u
    BY <1>1, <1>6 DEF Remains
  <2>2. v \in ActiveAdmins(w)'
    BY <1>1, <1>3, <1>4, <1>6, <2>1 DEF Counted, ActiveAdmins, Active
  <2> QED BY <1>1, <1>3, <1>6, <2>1, <2>2 DEF Remains, ActiveAdmins, Active
<1>7. CASE q.step # "update"
  <2>1. PICK v \in ActiveAdmins(w) \cup ActiveLeads(w) : v = u => v \in ActiveAdmins(w)
    BY <1>1, <1>7 DEF Remains, KeepsManager
  <2>2. v \in ActiveAdmins(w)' \cup ActiveLeads(w)'
    BY <1>1, <1>3, <1>4, <1>7, <2>1 DEF Counted, ActiveAdmins, ActiveLeads, Active
  <2>3. v = u => v \in ActiveAdmins(w)'
    BY <1>5, <2>1
  <2> QED BY <1>1, <1>3, <1>7, <2>2, <2>3 DEF Remains, KeepsManager, ActiveAdmins, ActiveLeads, Active
<1> QED BY <1>6, <1>7

(* A step that takes no one out of the active admins and leads. *)
LEMMA GrowthKeepsSomeone ==
    ASSUME TypeOK, SomeoneRemains, UNCHANGED <<requests, overtaken>>,
           \A w \in Workspaces : /\ ActiveAdmins(w) \subseteq ActiveAdmins(w)'
                                 /\ ActiveLeads(w) \subseteq ActiveLeads(w)'
    PROVE  SomeoneRemains'
<1> SUFFICES ASSUME NEW p \in Requests, NEW q, q = requests[p], p \notin overtaken,
                    TakesAdmin(q) \/ TakesLead(q)
             PROVE  Remains(q.ws, q.user, q.step)'
  BY OneByOne
<1>1. PICK w \in Workspaces, u \in Users : w = q.ws /\ u = q.user
  BY DEF TakesAdmin, TakesLead, TypeOK, Request
<1>2. Remains(w, u, q.step)
  BY <1>1 DEF SomeoneRemains
<1>3. Remains(w, u, q.step)'
  BY <1>2, RemainsGrows
<1> QED BY <1>1, <1>3

(* put and delete change the leads of one project, which no other of them  *)
(* has locked.                                                             *)
LEMMA ProjectCommitKeepsRemains ==
    ASSUME TypeOK, ProjectsApart, SomeoneRemains,
           NEW r \in Requests, CommitPut(r) \/ CommitDelete(r)
    PROVE  SomeoneRemains'
<1>1. /\ requests'[r] = Idle /\ \A p \in Requests \ {r} : requests'[p] = requests[p]
      /\ overtaken' = overtaken \ {r}
      /\ UNCHANGED <<account, direct>>
      /\ requests[r].step \in {"put", "delete"} /\ requests[r].ws \in Workspaces
  BY DEF CommitPut, CommitDelete, End, TypeOK, Request
<1>2. \A w \in Workspaces : w # requests[r].ws => project'[w] = project[w]
  BY <1>1 DEF CommitPut, CommitDelete, TypeOK
<1> SUFFICES ASSUME NEW p \in Requests, NEW q, q = requests'[p], p \notin overtaken',
                    TakesAdmin(q) \/ TakesLead(q)
             PROVE  Remains(q.ws, q.user, q.step)'
  BY OneByOne
<1>3. p # r /\ q = requests[p] /\ p \notin overtaken
  BY <1>1 DEF TakesAdmin, TakesLead, Idle
<1>4. PICK w \in Workspaces, u \in Users : w = q.ws /\ u = q.user
  BY <1>3 DEF TakesAdmin, TakesLead, TypeOK, Request
<1>5. Remains(w, u, q.step)
  BY <1>3, <1>4 DEF SomeoneRemains
<1>6. q.step # "update" => w # requests[r].ws
  BY <1>1, <1>3, <1>4 DEF ProjectsApart, TakesAdmin, TakesLead
<1>7. /\ ActiveAdmins(w) \subseteq ActiveAdmins(w)'
      /\ q.step # "update" => ActiveLeads(w) \subseteq ActiveLeads(w)'
  BY <1>1, <1>2, <1>6 DEF ActiveAdmins, ActiveLeads, Active
<1>8. Remains(w, u, q.step)'
  BY <1>5, <1>7, RemainsGrows
<1> QED BY <1>4, <1>8

(* New members and accepted invites take nothing from an active member.    *)
LEMMA NewMembersGrow ==
    ASSUME TypeOK, NEW w \in Workspaces, NEW u \in Users, NEW role \in WorkspaceRoles,
           CreateMember(w, u, role) \/ AcceptInvite(w, u, role)
    PROVE  /\ UNCHANGED <<project, requests, overtaken>>
           /\ \A x \in Workspaces : /\ ActiveAdmins(x) \subseteq ActiveAdmins(x)'
                                    /\ ActiveLeads(x) \subseteq ActiveLeads(x)'
<1>1. UNCHANGED <<project, requests, overtaken>>
  BY DEF CreateMember, AcceptInvite
<1>2. u \notin ActiveAdmins(w)
  BY DEF CreateMember, AcceptInvite, ActiveAdmins, Active
<1>3. /\ \A v \in Users : account[v] = "active" => account'[v] = "active"
      /\ \A x \in Workspaces, v \in Users :
           ~(x = w /\ v = u) => direct'[x][v] = direct[x][v]
  BY DEF CreateMember, AcceptInvite, TypeOK
<1> QED BY <1>1, <1>2, <1>3 DEF ActiveAdmins, ActiveLeads, Active

(* What a transaction counts when it starts. *)
LEMMA StartKeepsSomeone ==
    ASSUME LocksInv, SomeoneRemains, NEW r \in Requests, NEW w, NEW u, NEW q,
           Start(r, w, u, q),
           TakesAdmin(q) \/ TakesLead(q) => Remains(q.ws, q.user, q.step)
    PROVE  SomeoneRemains'
BY StartFacts, RequestMoves DEF LocksInv

LEMMA SomeoneStays == Spec => []SomeoneRemains
<1>1. Init => SomeoneRemains
  BY DEF Init, SomeoneRemains, TakesAdmin, TakesLead, Idle
<1>2. LocksInv /\ ProjectsApart /\ SomeoneRemains /\ [Next]_vars => SomeoneRemains'
  <2> SUFFICES ASSUME LocksInv, ProjectsApart, SomeoneRemains, [Next]_vars
               PROVE  SomeoneRemains'
    OBVIOUS
  <2>0. TypeOK
    BY DEF LocksInv
  <2>1. ASSUME NEW r \in Requests, NEW w \in Workspaces, NEW u \in Users, Authorize(r, w, u)
        PROVE  SomeoneRemains'
    <3> DEFINE q == [step |-> "authorized", ws |-> w, actor |-> u]
    <3>1. /\ requests' = [requests EXCEPT ![r] = q]
          /\ UNCHANGED <<account, direct, project>> /\ overtaken' = overtaken
      BY <2>1 DEF Authorize
    <3>2. ~TakesAdmin(q) /\ ~TakesLead(q)
      BY DEF TakesAdmin, TakesLead
    <3> HIDE DEF q
    <3> QED BY <2>0, <3>1, <3>2, RequestMoves
  <2>2. ASSUME NEW r \in Requests, NEW w \in Workspaces, NEW u \in Users,
               NEW role \in ProjectRoles, CheckPut(r, w, u, role)
        PROVE  SomeoneRemains'
    <3> DEFINE q == [step |-> "put", ws |-> w, user |-> u, seen |-> SeenNow(w, u), role |-> role]
    <3>1. Start(r, w, u, q)
      BY <2>2 DEF CheckPut
    <3>2. q.step = "put" /\ q.ws = w /\ q.user = u /\ q.seen.lead = project[w][u] /\ q.role = role
      BY DEF SeenNow
    <3> HIDE DEF q
    <3>3. TakesAdmin(q) \/ TakesLead(q) => Remains(q.ws, q.user, q.step)
      BY <2>2, <3>2 DEF TakesAdmin, TakesLead, CheckPut, Remains
    <3> QED BY <3>1, <3>3, StartKeepsSomeone
  <2>3. ASSUME NEW r \in Requests, NEW w \in Workspaces, NEW u \in Users, CheckDelete(r, w, u)
        PROVE  SomeoneRemains'
    <3> DEFINE q == [step |-> "delete", ws |-> w, user |-> u, seen |-> SeenNow(w, u)]
    <3>1. Start(r, w, u, q)
      BY <2>3 DEF CheckDelete
    <3>2. /\ q.step = "delete" /\ q.ws = w /\ q.user = u
          /\ q.seen.lead = project[w][u] /\ q.seen.account = account[u]
      BY DEF SeenNow
    <3> HIDE DEF q
    <3>3. TakesAdmin(q) \/ TakesLead(q) => Remains(q.ws, q.user, q.step)
      BY <2>3, <3>2 DEF TakesAdmin, TakesLead, CheckDelete, Remains, ActiveLeads, Active
    <3> QED BY <3>1, <3>3, StartKeepsSomeone
  <2>4. ASSUME NEW r \in Requests, NEW u \in Users, NEW role \in WorkspaceRoles,
               NEW on \in BOOLEAN, CheckUpdate(r, u, role, on)
        PROVE  SomeoneRemains'
    <3> DEFINE w == requests[r].ws
               q == [step |-> "update", ws |-> w, user |-> u, seen |-> SeenNow(w, u),
                     role |-> role, on |-> on]
    <3>1. Start(r, w, u, q)
      BY <2>4 DEF CheckUpdate
    <3>2. /\ q.step = "update" /\ q.ws = w /\ q.user = u /\ q.role = role /\ q.on = on
          /\ q.seen.role = direct[w][u] /\ q.seen.account = account[u]
      BY DEF SeenNow
    <3>3. KeepsAdmin(w, u, role, on)
      BY <2>4 DEF CheckUpdate
    <3> HIDE DEF q, w
    <3>4. TakesAdmin(q) \/ TakesLead(q) => Remains(q.ws, q.user, q.step)
      BY <3>2, <3>3 DEF TakesAdmin, TakesLead, KeepsAdmin, Remains, Active
    <3> QED BY <3>1, <3>4, StartKeepsSomeone
  <2>5. ASSUME NEW r \in Requests, CommitUpdate(r) PROVE SomeoneRemains'
    <3> SUFFICES ASSUME NEW p \in Requests, NEW q, q = requests'[p], p \notin overtaken',
                        TakesAdmin(q) \/ TakesLead(q)
                 PROVE  Remains(q.ws, q.user, q.step)'
      BY OneByOne
    <3>1. p # r /\ q = requests[p]
      BY <2>0, <2>5, UpdateOfOthers DEF TakesAdmin, TakesLead, Idle
    <3>2. InTransaction(p)
      BY <3>1 DEF InTransaction, TakesAdmin, TakesLead
    <3>3. p \notin overtaken
      BY <2>5, <3>1 DEF CommitUpdate
    <3>4. Remains(q.ws, q.user, q.step)
      BY <3>1, <3>3 DEF SomeoneRemains
    <3> QED BY <2>5, <3>1, <3>2, <3>4, UpdateKeepsRemains
  <2>6. ASSUME NEW r \in Requests, CommitPut(r) \/ CommitDelete(r) PROVE SomeoneRemains'
    BY <2>0, <2>6, ProjectCommitKeepsRemains
  <2>7. ASSUME NEW r \in Requests, Abandon(r) PROVE SomeoneRemains'
    <3>1. ~TakesAdmin(Idle) /\ ~TakesLead(Idle)
      BY DEF TakesAdmin, TakesLead, Idle
    <3> QED BY <2>0, <2>7, <3>1, RequestMoves DEF Abandon, End
  <2>8. ASSUME NEW w \in Workspaces, NEW u \in Users, NEW role \in WorkspaceRoles,
               CreateMember(w, u, role) \/ AcceptInvite(w, u, role)
        PROVE  SomeoneRemains'
    BY <2>0, <2>8, NewMembersGrow, GrowthKeepsSomeone
  <2>9. CASE UNCHANGED vars
    <3>1. \A w \in Workspaces : /\ ActiveAdmins(w) \subseteq ActiveAdmins(w)'
                                /\ ActiveLeads(w) \subseteq ActiveLeads(w)'
      BY <2>9 DEF vars, ActiveAdmins, ActiveLeads, Active
    <3> QED BY <2>0, <2>9, <3>1, GrowthKeepsSomeone DEF vars
  <2> QED BY <2>1, <2>2, <2>3, <2>4, <2>5, <2>6, <2>7, <2>8, <2>9 DEF Next
<1> QED BY <1>1, <1>2, LocksHold, ProjectsStayApart, PTL DEF Spec

----------------------------------------------------------------------------
(* Steps other than the commit of an update keep every active admin. *)
LEMMA OnlyUpdatesTakeAdmins ==
    ASSUME TypeOK, [Next]_vars, NEW w \in Workspaces,
           ~(ActiveAdmins(w) \subseteq ActiveAdmins(w)')
    PROVE  \E r \in Requests : CommitUpdate(r)
<1>1. ~UNCHANGED <<account, direct>>
  BY DEF ActiveAdmins, Active
<1>2. ASSUME NEW v \in Workspaces, NEW u \in Users, NEW role \in WorkspaceRoles,
             CreateMember(v, u, role) \/ AcceptInvite(v, u, role)
      PROVE  FALSE
  BY <1>2, NewMembersGrow
<1>3. ASSUME NEW r \in Requests,
             \/ CommitPut(r) \/ CommitDelete(r) \/ Abandon(r)
             \/ \E v \in Workspaces, u \in Users :
                  \/ Authorize(r, v, u) \/ CheckDelete(r, v, u)
                  \/ \E role \in ProjectRoles : CheckPut(r, v, u, role)
             \/ \E u \in Users, role \in WorkspaceRoles, on \in BOOLEAN :
                  CheckUpdate(r, u, role, on)
      PROVE  FALSE
  BY <1>1, <1>3 DEF CommitPut, CommitDelete, Abandon, Authorize, CheckDelete, CheckPut,
                    CheckUpdate, Start
<1> QED BY <1>1, <1>2, <1>3 DEF Next, vars

(* What the commit of an update that nobody has overtaken leaves behind.   *)
LEMMA UpdateLeavesAnAdmin ==
    ASSUME LocksInv, SomeoneRemains, NEW r \in Requests \ overtaken, CommitUpdate(r),
           ActiveAdmins(requests[r].ws) # {}
    PROVE  \E w \in Workspaces : w = requests[r].ws /\ ActiveAdmins(w)' # {}
<1>0. TypeOK
  BY DEF LocksInv
<1>1. PICK w \in Workspaces, u \in Users : w = requests[r].ws /\ u = requests[r].user
  BY <1>0, UpdateOfOthers
<1>2. CASE ActiveAdmins(w) \ {u} # {}
  <2>1. PICK v \in ActiveAdmins(w) : v # u
    BY <1>2
  <2>2. v \in ActiveAdmins(w)'
    BY <1>0, <1>1, <2>1, UpdateOfOthers DEF ActiveAdmins
  <2> QED BY <1>1, <2>2
<1>3. CASE ActiveAdmins(w) \ {u} = {}
  <2>1. u \in ActiveAdmins(w)
    BY <1>1, <1>3
  <2>2. requests[r].seen.role = "admin" /\ requests[r].seen.account = "active"
    BY <1>1, <2>1 DEF LocksInv, DecisionsStand, InTransaction, CommitUpdate, ActiveAdmins, Active
  <2>3. requests[r].role = "admin" /\ requests[r].on
    <3>1. ~Remains(w, u, "update")
      BY <1>3 DEF Remains
    <3>2. requests[r].step = "update"
      BY DEF CommitUpdate
    <3> QED BY <1>1, <2>2, <3>1, <3>2 DEF SomeoneRemains, TakesAdmin
  <2>4. u \in ActiveAdmins(w)'
    BY <1>0, <1>1, <2>3 DEF CommitUpdate, TypeOK, ActiveAdmins, Active
  <2> QED BY <1>1, <2>4
<1> QED BY <1>2, <1>3

(* A workspace loses its last active admin only to a transaction that      *)
(* counted an admin whom another has taken away since, or because another  *)
(* workspace deactivates the account.                                      *)
THEOREM LastAdminAlwaysStays == Spec => LastAdminStays
<1>1. LocksInv /\ SomeoneRemains /\ [Next]_vars =>
        [\A w \in Workspaces :
           ActiveAdmins(w) # {} /\ ActiveAdmins(w)' = {} =>
               \E r \in Requests :
                   /\ requests[r].step = "update" /\ requests'[r] = Idle
                   /\ r \in overtaken \/ (requests[r].ws # w /\ ~requests[r].on)]_vars
  <2> SUFFICES ASSUME LocksInv, SomeoneRemains, [Next]_vars, NEW w \in Workspaces,
                      ActiveAdmins(w) # {}, ActiveAdmins(w)' = {}
               PROVE  \E r \in Requests :
                          /\ requests[r].step = "update" /\ requests'[r] = Idle
                          /\ r \in overtaken \/ (requests[r].ws # w /\ ~requests[r].on)
    OBVIOUS
  <2>0. TypeOK
    BY DEF LocksInv
  <2>1. PICK r \in Requests : CommitUpdate(r)
    BY <2>0, OnlyUpdatesTakeAdmins
  <2>2. requests[r].step = "update" /\ requests'[r] = Idle
    BY <2>0, <2>1, UpdateOfOthers DEF CommitUpdate
  <2>3. requests[r].ws = w => r \in overtaken
    BY <2>1, UpdateLeavesAnAdmin
  <2>4. requests[r].ws # w => ~requests[r].on
    <3> SUFFICES ASSUME requests[r].ws # w, requests[r].on PROVE FALSE
      OBVIOUS
    <3>1. \A v \in Users : direct'[w][v] = direct[w][v]
      BY <2>0, <2>1 DEF CommitUpdate, TypeOK
    <3>2. \A v \in Users : account[v] = "active" => account'[v] = "active"
      BY <2>0, <2>1 DEF CommitUpdate, TypeOK
    <3> QED BY <3>1, <3>2 DEF ActiveAdmins, Active
  <2> QED BY <2>2, <2>3, <2>4
<1> QED BY <1>1, LocksHold, SomeoneStays, PTL DEF Spec, LastAdminStays

(* What a commit on project members does to the managers of the project.   *)
LEMMA CommitKeepsManager ==
    ASSUME LocksInv, SomeoneRemains,
           NEW r \in Requests, CommitPut(r) \/ CommitDelete(r), r \notin overtaken,
           NEW w \in Workspaces, ActiveAdmins(w) \cup ActiveLeads(w) # {}
    PROVE  (ActiveAdmins(w) \cup ActiveLeads(w))' # {}
<1>0. TypeOK
  BY DEF LocksInv
<1> DEFINE q == requests[r]
<1>1. q.ws \in Workspaces /\ q.user \in Users /\ q.step \in {"put", "delete"}
  BY <1>0 DEF CommitPut, CommitDelete, TypeOK, Request
<1>2. UNCHANGED <<account, direct>>
  BY DEF CommitPut, CommitDelete
<1>3. ActiveAdmins(w)' = ActiveAdmins(w)
  BY <1>2 DEF ActiveAdmins, Active
<1>4. \A x \in Workspaces, v \in Users :
        ~(x = q.ws /\ v = q.user) => project'[x][v] = project[x][v]
  BY <1>0, <1>1 DEF CommitPut, CommitDelete, TypeOK
<1>5. \A v \in ActiveLeads(w) : ~(w = q.ws /\ v = q.user) => v \in ActiveLeads(w)'
  BY <1>2, <1>4 DEF ActiveLeads, Active
<1>6. CASE w = q.ws /\ q.user \in ActiveLeads(w)
  <2>1. q.seen.account = "active" /\ q.seen.lead = "lead"
    BY <1>1, <1>6 DEF LocksInv, DecisionsStand, InTransaction, ActiveLeads, Active
  <2>2. CASE q.step = "put" /\ q.role = "lead"
    <3>1. CommitPut(r)
      BY <2>2 DEF CommitDelete
    <3>2. q.user \in ActiveLeads(w)'
      BY <1>0, <1>1, <1>2, <1>6, <2>2, <3>1 DEF CommitPut, ActiveLeads, Active, TypeOK
    <3> QED BY <3>2
  <2>3. CASE ~(q.step = "put" /\ q.role = "lead")
    <3>1. KeepsManager(w, q.user)
      BY <1>1, <1>6, <2>1, <2>3 DEF SomeoneRemains, TakesLead, Remains
    <3> QED BY <1>3, <1>5, <3>1 DEF KeepsManager
  <2> QED BY <2>2, <2>3
<1>7. CASE ~(w = q.ws /\ q.user \in ActiveLeads(w))
  BY <1>3, <1>5, <1>7
<1> QED BY <1>6, <1>7

(* No request on project members takes a project's last manager away,      *)
(* unless it counted one whom another transaction has taken away since.    *)
THEOREM ManagersAreKept == Spec => ProjectKeepsManager
<1>1. LocksInv /\ SomeoneRemains /\ [Next]_vars =>
        [\A w \in Workspaces :
           project'[w] # project[w] /\ ActiveAdmins(w) \cup ActiveLeads(w) # {} =>
               \/ (ActiveAdmins(w) \cup ActiveLeads(w))' # {}
               \/ \E r \in overtaken : requests'[r] = Idle]_vars
  <2> SUFFICES ASSUME LocksInv, SomeoneRemains, [Next]_vars,
                      NEW w \in Workspaces, project'[w] # project[w],
                      ActiveAdmins(w) \cup ActiveLeads(w) # {}
               PROVE  \/ (ActiveAdmins(w) \cup ActiveLeads(w))' # {}
                      \/ \E r \in overtaken : requests'[r] = Idle
    OBVIOUS
  <2>1. PICK r \in Requests : CommitPut(r) \/ CommitDelete(r)
    <3>1. ASSUME NEW r \in Requests, CommitUpdate(r) \/ Abandon(r) PROVE UNCHANGED project
      BY <3>1 DEF CommitUpdate, Abandon
    <3>2. ASSUME NEW r \in Requests, NEW v \in Workspaces, NEW u \in Users,
                 \/ Authorize(r, v, u) \/ CheckDelete(r, v, u)
                 \/ \E role \in ProjectRoles : CheckPut(r, v, u, role)
          PROVE  UNCHANGED project
      BY <3>2 DEF Authorize, CheckDelete, CheckPut, Start
    <3>3. ASSUME NEW r \in Requests, NEW u \in Users, NEW role \in WorkspaceRoles,
                 NEW on \in BOOLEAN, CheckUpdate(r, u, role, on)
          PROVE  UNCHANGED project
      BY <3>3 DEF CheckUpdate, Start
    <3>4. ASSUME NEW v \in Workspaces, NEW u \in Users, NEW role \in WorkspaceRoles,
                 CreateMember(v, u, role) \/ AcceptInvite(v, u, role)
          PROVE  UNCHANGED project
      BY <3>4 DEF CreateMember, AcceptInvite
    <3>5. project' # project
      OBVIOUS
    <3> QED BY <3>1, <3>2, <3>3, <3>4, <3>5 DEF Next, vars
  <2>2. requests'[r] = Idle
    BY <2>1 DEF CommitPut, CommitDelete, End, LocksInv, TypeOK
  <2>3. CASE r \notin overtaken
    BY <2>1, <2>3, CommitKeepsManager
  <2>4. CASE r \in overtaken
    BY <2>2, <2>4
  <2> QED BY <2>3, <2>4
<1> QED BY <1>1, LocksHold, SomeoneStays, PTL DEF Spec, ProjectKeepsManager

============================================================================
