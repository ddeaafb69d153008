--------------------- MODULE OrganizationAccessProofs ---------------------
(***************************************************************************)
(* For any users, groups, workspaces and overlapping requests: nobody has  *)
(* access through a deleted group; and while changes of the members of the *)
(* organization take turns, it keeps an administrator.                     *)
(***************************************************************************)
EXTENDS OrganizationAccess, FiniteSetTheorems, TLAPS

(* What a step that begins or ends a request may write.                    *)
LEMMA BeginsWell ==
    ASSUME TypeOK, NEW r \in Requests, NEW q \in Request, Begin(r, q), overlapped' \in BOOLEAN
    PROVE  TypeOK'
BY DEF Begin, TypeOK

LEMMA EndsWell ==
    ASSUME TypeOK, NEW r \in Requests, End(r)
    PROVE  request' \in [Requests -> Request]
BY DEF End, Idle, TypeOK, Request

(* Every value a step writes has its type.                                 *)
THEOREM TypeCorrect == Spec => []TypeOK
<1>1. Init => TypeOK
  <2> SUFFICES ASSUME Init PROVE TypeOK
    OBVIOUS
  <2>1. role \in [Users -> OrgRoles]
    BY DEF Init, OrgRoles
  <2>2. Idle \in Request
    BY DEF Idle, Request
  <2> QED BY <2>1, <2>2 DEF Init, TypeOK, Ranks
<1>2. TypeOK /\ [Next]_vars => TypeOK'
  <2> SUFFICES ASSUME TypeOK, [Next]_vars PROVE TypeOK'
    OBVIOUS
  <2>change. ASSUME NEW r \in Requests, NEW step \in {"count", "write"}, NEW change \in Changes,
                    NEW u \in Users, BeginChange(r, step, change, u)
             PROVE  TypeOK'
    <3>1. [step |-> step, change |-> change, user |-> u] \in Request
      BY DEF Request
    <3>2. overlapped' \in BOOLEAN
      BY <2>change DEF BeginChange, TypeOK
    <3> QED BY <2>change, <3>1, <3>2, BeginsWell DEF BeginChange
  <2>1. ASSUME NEW r \in Requests, BeginAddMember(r) PROVE TypeOK'
    BY <2>1, <2>change DEF BeginAddMember, Changes, TypeOK
  <2>2. ASSUME NEW r \in Requests, BeginRemoveMember(r) PROVE TypeOK'
    BY <2>2, <2>change DEF BeginRemoveMember, Changes
  <2>3. ASSUME NEW r \in Requests, CountAdmins(r) PROVE TypeOK'
    <3>1. [request[r] EXCEPT !.step = "write"] \in Request
      BY <2>3 DEF CountAdmins, TypeOK, Request
    <3> QED BY <2>3, <3>1 DEF CountAdmins, TypeOK
  <2>4. ASSUME NEW r \in Requests, WriteMember(r) PROVE TypeOK'
    <3>1. request[r].change \in Changes
      BY <2>4 DEF WriteMember, TypeOK, Request
    <3> QED BY <2>4, <3>1, EndsWell DEF WriteMember, TypeOK, Changes, OrgRoles
  <2>5. ASSUME NEW r \in Requests, BeginJoin(r) PROVE TypeOK'
    <3>1. \A g \in Groups, u \in Users : [step |-> "join", group |-> g, user |-> u] \in Request
      BY DEF Request
    <3> QED BY <2>5, <3>1, BeginsWell DEF BeginJoin, TypeOK
  <2>6. ASSUME NEW r \in Requests, Join(r) PROVE TypeOK'
    <3>1. request[r].group \in Groups /\ request[r].user \in Users
      BY <2>6 DEF Join, TypeOK, Request
    <3> QED BY <2>6, <3>1, EndsWell DEF Join, TypeOK
  <2>7. ASSUME NEW r \in Requests, BeginDelete(r) PROVE TypeOK'
    <3>1. PICK g \in Groups :
            /\ Begin(r, [step |-> "delete", group |-> g,
                         seen |-> {w \in Workspaces : assigned[w][g] # "none"}])
            /\ UNCHANGED overlapped
      BY <2>7 DEF BeginDelete
    <3>2. [step |-> "delete", group |-> g,
           seen |-> {w \in Workspaces : assigned[w][g] # "none"}] \in Request
      BY DEF Request
    <3> QED BY <3>1, <3>2, BeginsWell DEF TypeOK
  <2>8. ASSUME NEW r \in Requests, CommitDelete(r) PROVE TypeOK'
    <3>1. request[r].group \in Groups
      BY <2>8 DEF CommitDelete, TypeOK, Request
    <3>2. assigned' \in [Workspaces -> [Subjects -> Ranks]]
      BY <2>8 DEF CommitDelete, TypeOK, Ranks
    <3> QED BY <2>8, <3>1, <3>2, EndsWell DEF CommitDelete, TypeOK
  <2>9. ASSUME NEW r \in Requests, BeginAssign(r) PROVE TypeOK'
    <3>1. \A w \in Workspaces, s \in Subjects, k \in Ranks :
            [step |-> "assign", workspace |-> w, subject |-> s, rank |-> k] \in Request
      BY DEF Request
    <3> QED BY <2>9, <3>1, BeginsWell DEF BeginAssign, TypeOK
  <2>10. ASSUME NEW r \in Requests, Assign(r) PROVE TypeOK'
    <3>1. /\ request[r].workspace \in Workspaces
          /\ request[r].subject \in Subjects
          /\ request[r].rank \in Ranks
      BY <2>10 DEF Assign, TypeOK, Request
    <3> QED BY <2>10, <3>1, EndsWell DEF Assign, TypeOK
  <2>11. ASSUME NEW r \in Requests, Abort(r) PROVE TypeOK'
    BY <2>11, EndsWell DEF Abort, TypeOK
  <2>12. ASSUME NEW u \in Users, SetActive(u) \/ \E g \in Groups : Leave(g, u) PROVE TypeOK'
    BY <2>12 DEF SetActive, Leave, TypeOK
  <2>13. ASSUME NEW g \in Groups, CreateGroup(g) PROVE TypeOK'
    BY <2>13 DEF CreateGroup, TypeOK
  <2>14. ASSUME NEW w \in Workspaces, NEW s \in Subjects, Unassign(w, s) PROVE TypeOK'
    BY <2>14 DEF Unassign, TypeOK, Ranks
  <2>15. CASE UNCHANGED vars
    BY <2>15 DEF vars, TypeOK
  <2> QED
    BY <2>1, <2>2, <2>3, <2>4, <2>5, <2>6, <2>7, <2>8, <2>9, <2>10, <2>11, <2>12, <2>13,
       <2>14, <2>15 DEF Next
<1> QED BY <1>1, <1>2, PTL DEF Spec

----------------------------------------------------------------------------
(* The foreign key of group_members, and its cascade. *)
MembersOfLiveGroups == \A m \in members : group[m[1]] = "alive"

(* No deleted group gives anybody access, though its assignments may be    *)
(* left behind and requests to join it may be under way.                   *)
THEOREM AccessStaysThroughLiveGroups == Spec => []AccessIsThroughLiveGroups
<1>1. Init => MembersOfLiveGroups
  BY DEF Init, MembersOfLiveGroups
<1>2. TypeOK /\ MembersOfLiveGroups /\ [Next]_vars => MembersOfLiveGroups'
  <2> SUFFICES ASSUME TypeOK, MembersOfLiveGroups, [Next]_vars PROVE MembersOfLiveGroups'
    OBVIOUS
  <2>1. CASE UNCHANGED <<group, members>>
    BY <2>1 DEF MembersOfLiveGroups
  <2>2. ASSUME NEW r \in Requests, Join(r) PROVE MembersOfLiveGroups'
    BY <2>2 DEF Join, MembersOfLiveGroups
  <2>3. ASSUME NEW r \in Requests, CommitDelete(r) PROVE MembersOfLiveGroups'
    <3>1. /\ group' = [group EXCEPT ![request[r].group] = "deleted"]
          /\ members' = {m \in members : m[1] # request[r].group}
      BY <2>3 DEF CommitDelete
    <3>2. \A m \in members : m[1] \in Groups
      BY DEF TypeOK
    <3> QED BY <3>1, <3>2 DEF MembersOfLiveGroups, TypeOK
  <2>4. ASSUME NEW u \in Users, NEW g \in Groups, Leave(g, u) PROVE MembersOfLiveGroups'
    BY <2>4 DEF Leave, MembersOfLiveGroups
  <2>5. ASSUME NEW g \in Groups, CreateGroup(g) PROVE MembersOfLiveGroups'
    <3>1. \A m \in members : m[1] \in Groups
      BY DEF TypeOK
    <3> QED BY <2>5, <3>1 DEF CreateGroup, MembersOfLiveGroups, TypeOK
  <2>6. \/ UNCHANGED <<group, members>>
        \/ \E r \in Requests : Join(r) \/ CommitDelete(r)
        \/ \E u \in Users, g \in Groups : Leave(g, u)
        \/ \E g \in Groups : CreateGroup(g)
    BY DEF Next, vars, BeginAddMember, BeginRemoveMember, BeginChange, CountAdmins, WriteMember,
           BeginJoin, BeginDelete, BeginAssign, Assign, Abort, SetActive, Unassign, Begin
  <2> QED BY <2>1, <2>2, <2>3, <2>4, <2>5, <2>6
<1>3. MembersOfLiveGroups => AccessIsThroughLiveGroups
  BY OrganizationAssumption DEF MembersOfLiveGroups, AccessIsThroughLiveGroups, Sources
<1> QED BY <1>1, <1>2, <1>3, TypeCorrect, PTL DEF Spec

----------------------------------------------------------------------------
(* While changes of members take turns, the one that is about to take an   *)
(* administrator's role away leaves another one.                           *)
Harmless(q) ==
    q.step = "write" /\ q.change # "org_admin" => \E a \in Admins : a # q.user

TurnsTaken ==
    /\ Admins # {}
    /\ \A r, s \in Requests : Changing(r) /\ Changing(s) => r = s
    /\ \A r \in Requests : Harmless(request[r])

(* Counted as at least two, the administrators include another one.        *)
LEMMA AnotherAdmin ==
    ASSUME NEW u \in Users, ~LastAdmin(u), Admins # {}
    PROVE  \E a \in Admins : a # u
<1> SUFFICES ASSUME \A a \in Admins : a = u PROVE FALSE
  OBVIOUS
<1>1. Admins = {u}
  OBVIOUS
<1>2. Cardinality(Admins) = 1
  BY <1>1, FS_Singleton
<1>3. role[u] = "org_admin"
  BY <1>1 DEF Admins
<1> QED BY <1>2, <1>3 DEF LastAdmin

(* Steps that change neither the members of the organization nor a request *)
(* for that, and the beginnings and ends of other requests.                *)
LEMMA OthersTakeNoTurn ==
    ASSUME TypeOK, TurnsTaken, NEW r \in Requests, NEW q, request' = [request EXCEPT ![r] = q],
           q.step \notin {"count", "write"}, role' = role
    PROVE  TurnsTaken'
<1>1. /\ request'[r] = q
      /\ \A x \in Requests \ {r} : request'[x] = request[x]
  BY DEF TypeOK
<1>2. Admins' = Admins
  BY DEF Admins
<1>3. \A x \in Requests : Changing(x)' => Changing(x)
  BY <1>1 DEF Changing
<1>4. \A x \in Requests : Harmless(request[x])'
  BY <1>1, <1>2 DEF TurnsTaken, Harmless
<1> QED BY <1>2, <1>3, <1>4 DEF TurnsTaken

LEMMA TurnBegins ==
    ASSUME TypeOK, TurnsTaken, NEW r \in Requests, NEW step, NEW change, NEW u \in Users,
           BeginChange(r, step, change, u), ~overlapped',
           step = "write" /\ change # "org_admin" => role[u] # "org_admin"
    PROVE  TurnsTaken'
<1>1. /\ request'[r] = [step |-> step, change |-> change, user |-> u]
      /\ \A x \in Requests \ {r} : request'[x] = request[x]
      /\ role' = role
      /\ \A x \in Requests : ~Changing(x)
  BY DEF BeginChange, Begin, TypeOK
<1>2. Admins' = Admins
  BY <1>1 DEF Admins
<1>3. \A x \in Requests : Changing(x)' => x = r
  BY <1>1 DEF Changing
<1>4. \A x \in Requests : Harmless(request[x])'
  <2>1. Harmless(request[r])'
    BY <1>1, <1>2 DEF Harmless, TurnsTaken, Admins
  <2>2. ASSUME NEW x \in Requests \ {r} PROVE Harmless(request[x])'
    BY <1>1, <1>2 DEF Harmless, TurnsTaken
  <2> QED BY <2>1, <2>2
<1> QED BY <1>2, <1>3, <1>4 DEF TurnsTaken

(* An organization loses its last administrator only to changes that were  *)
(* served at the same time.                                                *)
THEOREM TurnsKeepAdmin == Spec => []OneAtATimeKeepsAdmin
<1> DEFINE Inv == overlapped \/ TurnsTaken
<1>1. Init => Inv
  <2> SUFFICES ASSUME Init PROVE TurnsTaken
    OBVIOUS
  <2>1. Admins # {}
    BY DEF Init, Admins
  <2> QED BY <2>1 DEF Init, TurnsTaken, Changing, Harmless, Idle
<1>2. TypeOK /\ Inv /\ [Next]_vars => Inv'
  <2> SUFFICES ASSUME TypeOK, Inv, [Next]_vars, ~overlapped' PROVE TurnsTaken'
    OBVIOUS
  <2>1. ~overlapped /\ TurnsTaken
    <3>1. ASSUME NEW r \in Requests, NEW step, NEW change, NEW u, BeginChange(r, step, change, u)
          PROVE  ~overlapped
      BY <3>1, Zenon DEF BeginChange
    <3>2. \/ \E r \in Requests : BeginAddMember(r) \/ BeginRemoveMember(r)
          \/ overlapped' = overlapped
      BY DEF Next, vars, CountAdmins, WriteMember, BeginJoin, Join, BeginDelete, CommitDelete,
             BeginAssign, Assign, Abort, SetActive, Leave, CreateGroup, Unassign
    <3>3. ~overlapped
      BY <3>1, <3>2, Zenon DEF BeginAddMember, BeginRemoveMember
    <3> QED BY <3>3
  <2>same. ASSUME UNCHANGED <<role, request>> PROVE TurnsTaken'
    BY <2>same, <2>1 DEF TurnsTaken, Admins, Changing, Harmless
  <2>end. ASSUME NEW r \in Requests, End(r), role' = role PROVE TurnsTaken'
    BY <2>end, <2>1, OthersTakeNoTurn DEF End, Idle
  <2>begin. ASSUME NEW r \in Requests, NEW q, Begin(r, q), q.step \notin {"count", "write"}
            PROVE  TurnsTaken'
    BY <2>begin, <2>1, OthersTakeNoTurn DEF Begin
  <2>2. ASSUME NEW r \in Requests, BeginAddMember(r) PROVE TurnsTaken'
    BY <2>2, <2>1, TurnBegins DEF BeginAddMember, TypeOK
  <2>3. ASSUME NEW r \in Requests, BeginRemoveMember(r) PROVE TurnsTaken'
    <3>1. PICK u \in Users :
            BeginChange(r, IF role[u] = "org_admin" THEN "count" ELSE "write", "remove", u)
      BY <2>3 DEF BeginRemoveMember
    <3> QED BY <3>1, <2>1, TurnBegins
  <2>4. ASSUME NEW r \in Requests, CountAdmins(r) PROVE TurnsTaken'
    <3>1. /\ request[r].step = "count"
          /\ request' = [request EXCEPT ![r].step = "write"]
          /\ role' = role
          /\ request[r].user \in Users
      BY <2>4 DEF CountAdmins, TypeOK, Request
    <3>2. \E a \in Admins : a # request[r].user
      BY <2>4, <3>1, <2>1, AnotherAdmin DEF CountAdmins, TurnsTaken
    <3>3. /\ \A x \in Requests \ {r} : request'[x] = request[x]
          /\ request'[r].user = request[r].user
      BY <3>1 DEF TypeOK, Request
    <3>4. Admins' = Admins
      BY <3>1 DEF Admins
    <3>5. \A x \in Requests : Changing(x)' => Changing(x)
      BY <3>1, <3>3 DEF Changing
    <3>6. \A x \in Requests : Harmless(request[x])'
      BY <3>2, <3>3, <3>4, <2>1 DEF Harmless, TurnsTaken
    <3> QED BY <3>4, <3>5, <3>6, <2>1 DEF TurnsTaken
  <2>5. ASSUME NEW r \in Requests, WriteMember(r) PROVE TurnsTaken'
    <3>1. /\ request[r].step = "write"
          /\ request' = [request EXCEPT ![r] = Idle]
          /\ role' = [role EXCEPT ![request[r].user] =
                        IF request[r].change = "remove" THEN "none" ELSE request[r].change]
          /\ request[r].user \in Users
          /\ request[r].change \in Changes
      BY <2>5 DEF WriteMember, End, TypeOK, Request
    <3>2. Admins' # {}
      <4>1. CASE request[r].change = "org_admin"
        BY <4>1, <3>1 DEF Admins, TypeOK
      <4>2. CASE request[r].change # "org_admin"
        <5>1. PICK a \in Admins : a # request[r].user
          BY <4>2, <3>1, <2>1 DEF TurnsTaken, Harmless
        <5>2. a \in Admins'
          BY <5>1, <3>1 DEF Admins, TypeOK
        <5> QED BY <5>2
      <4> QED BY <4>1, <4>2
    <3>3. \A x \in Requests : ~Changing(x)'
      BY <3>1, <2>1 DEF TurnsTaken, Changing, TypeOK, Idle
    <3> QED BY <3>2, <3>3 DEF TurnsTaken, Harmless, Changing
  <2>6. ASSUME NEW r \in Requests, Join(r) \/ CommitDelete(r) \/ Assign(r) \/ Abort(r)
        PROVE  TurnsTaken'
    BY <2>6, <2>end DEF Join, CommitDelete, Assign, Abort
  <2>7. ASSUME NEW r \in Requests, BeginJoin(r) PROVE TurnsTaken'
    BY <2>7, <2>begin DEF BeginJoin
  <2>8. ASSUME NEW r \in Requests, BeginDelete(r) PROVE TurnsTaken'
    BY <2>8, <2>begin DEF BeginDelete
  <2>9. ASSUME NEW r \in Requests, BeginAssign(r) PROVE TurnsTaken'
    BY <2>9, <2>begin DEF BeginAssign
  <2>10. ASSUME NEW u \in Users, SetActive(u) \/ \E g \in Groups : Leave(g, u) PROVE TurnsTaken'
    BY <2>10, <2>same DEF SetActive, Leave
  <2>11. ASSUME NEW g \in Groups, CreateGroup(g) PROVE TurnsTaken'
    BY <2>11, <2>same DEF CreateGroup
  <2>12. ASSUME NEW w \in Workspaces, NEW s \in Subjects, Unassign(w, s) PROVE TurnsTaken'
    BY <2>12, <2>same DEF Unassign
  <2>13. CASE UNCHANGED vars
    BY <2>13, <2>same DEF vars
  <2> QED
    BY <2>2, <2>3, <2>4, <2>5, <2>6, <2>7, <2>8, <2>9, <2>10, <2>11, <2>12, <2>13 DEF Next
<1>3. Inv => OneAtATimeKeepsAdmin
  BY DEF TurnsTaken, OneAtATimeKeepsAdmin
<1> QED BY <1>1, <1>2, <1>3, TypeCorrect, PTL DEF Spec
============================================================================
