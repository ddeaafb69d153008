------------------------ MODULE OrganizationAccess ------------------------
(***************************************************************************)
(* The members and groups of one organization, and the role assignments    *)
(* that give them access to its workspaces (backend/internal/organizations,*)
(* groups and workspaces).                                                 *)
(*                                                                         *)
(* None of these handlers locks what it reads.  Each is a first step that  *)
(* reads and a second one that writes, with anything in between; only      *)
(* rows that one transaction has deleted make another one wait.            *)
(*                                                                         *)
(* Who may ask is left out: a site admin may always.  So is the direct     *)
(* membership of workspaces, which WorkspaceMembers is about.              *)
(***************************************************************************)
EXTENDS Naturals, FiniteSets

CONSTANTS Users, Groups, Workspaces, Requests, None

ASSUME OrganizationAssumption ==
    /\ IsFiniteSet(Users)
    /\ Users \cap Groups = {}
    /\ None \notin Users \cup Groups \cup Workspaces

VARIABLES
    role,        \* organization_members
    active,      \* users.is_active
    group,
    members,     \* group_members
    assigned,    \* role_assignments of the workspaces
    request,
    overlapped   \* two changes of organization members were served at once

vars == <<role, active, group, members, assigned, request, overlapped>>

----------------------------------------------------------------------------
OrgRoles == {"none", "org_member", "org_admin"}
Ranks == {"none", "member", "admin"}
Subjects == Users \cup Groups

(* change is what a request does to an organization member; count says     *)
(* that the admins are still to be counted, seen which assignments of a    *)
(* group were deleted with it.                                             *)
Changes == {"remove", "org_member", "org_admin"}
Request ==
    [step : {"idle"}]
    \cup [step : {"count", "write"}, change : Changes, user : Users]
    \cup [step : {"join"}, group : Groups, user : Users]
    \cup [step : {"delete"}, group : Groups, seen : SUBSET Workspaces]
    \cup [step : {"assign"}, workspace : Workspaces, subject : Subjects, rank : Ranks]

Idle == [step |-> "idle"]

Admins == {u \in Users : role[u] = "org_admin"}

Init ==
    /\ \E u \in Users : role = [v \in Users |-> IF v = u THEN "org_admin" ELSE "none"]
    /\ active = Users
    /\ group = [g \in Groups |-> "absent"]
    /\ members = {}
    /\ assigned = [w \in Workspaces |-> [s \in Subjects |-> "none"]]
    /\ request = [r \in Requests |-> Idle]
    /\ overlapped = FALSE

Begin(r, q) ==
    /\ request[r] = Idle
    /\ request' = [request EXCEPT ![r] = q]
    /\ UNCHANGED <<role, active, group, members, assigned>>

End(r) == request' = [request EXCEPT ![r] = Idle]

(* A refusal, a failure, or the end of the request's time. *)
Abort(r) ==
    /\ request[r] # Idle
    /\ End(r)
    /\ UNCHANGED <<role, active, group, members, assigned, overlapped>>

----------------------------------------------------------------------------
(* Members of the organization. *)
Changing(r) == request[r].step \in {"count", "write"}

BeginChange(r, step, change, u) ==
    /\ Begin(r, [step |-> step, change |-> change, user |-> u])
    /\ overlapped' = (overlapped \/ \E s \in Requests : Changing(s))

(* An existing member's role is replaced.  Only a demotion looks at the    *)
(* other admins.                                                           *)
BeginAddMember(r) ==
    \E u \in active :
        \/ BeginChange(r, "write", "org_admin", u)
        \/ BeginChange(r, "count", "org_member", u)

(* The admins are counted if the member is an admin when first read. *)
BeginRemoveMember(r) ==
    \E u \in Users :
        /\ role[u] # "none"
        /\ BeginChange(r, IF role[u] = "org_admin" THEN "count" ELSE "write", "remove", u)

(* Seeded bug: the member itself is counted as another admin. *)
LastAdminOffByOne(u) == role[u] = "org_admin" /\ Cardinality(Admins) < 1

(* lastOrganizationAdmin: inactive admins count as well. *)
LastAdmin(u) == role[u] = "org_admin" /\ Cardinality(Admins) <= 1

CountAdmins(r) ==
    /\ request[r].step = "count"
    /\ ~LastAdmin(request[r].user)
    /\ request' = [request EXCEPT ![r].step = "write"]
    /\ UNCHANGED <<role, active, group, members, assigned, overlapped>>

(* The groups and assignments of a removed member stay. *)
WriteMember(r) ==
    /\ request[r].step = "write"
    /\ role' = [role EXCEPT ![request[r].user] =
                  IF request[r].change = "remove" THEN "none" ELSE request[r].change]
    /\ End(r)
    /\ UNCHANGED <<active, group, members, assigned, overlapped>>

(* team.updateWorkspaceMember does not look at organizations. *)
SetActive(u) ==
    /\ active' = IF u \in active THEN active \ {u} ELSE active \cup {u}
    /\ UNCHANGED <<role, group, members, assigned, request, overlapped>>

----------------------------------------------------------------------------
(* Groups. *)
CreateGroup(g) ==
    /\ group[g] = "absent"
    /\ group' = [group EXCEPT ![g] = "alive"]
    /\ UNCHANGED <<role, active, members, assigned, request, overlapped>>

BeginJoin(r) ==
    \E g \in Groups, u \in active :
        /\ group[g] = "alive"
        /\ role[u] # "none"
        /\ Begin(r, [step |-> "join", group |-> g, user |-> u])
        /\ UNCHANGED overlapped

(* Seeded bug: no foreign key from group_members to groups. *)
JoinAnyGroup(r) ==
    /\ request[r].step = "join"
    /\ members' = members \cup {<<request[r].group, request[r].user>>}
    /\ End(r)
    /\ UNCHANGED <<role, active, group, assigned, overlapped>>

(* The foreign key refuses a group that has been deleted. *)
Join(r) ==
    /\ request[r].step = "join"
    /\ group[request[r].group] = "alive"
    /\ members' = members \cup {<<request[r].group, request[r].user>>}
    /\ End(r)
    /\ UNCHANGED <<role, active, group, assigned, overlapped>>

Leave(g, u) ==
    /\ <<g, u>> \in members
    /\ members' = members \ {<<g, u>>}
    /\ UNCHANGED <<role, active, group, assigned, request, overlapped>>

(* deleteGroup deletes the assignments it sees, then the group and, by     *)
(* cascade, its members.  A second one waits, and finds nothing.           *)
BeginDelete(r) ==
    \E g \in Groups :
        /\ group[g] = "alive"
        /\ \A s \in Requests : ~(request[s].step = "delete" /\ request[s].group = g)
        /\ Begin(r, [step |-> "delete", group |-> g,
                     seen |-> {w \in Workspaces : assigned[w][g] # "none"}])
        /\ UNCHANGED overlapped

CommitDelete(r) ==
    /\ request[r].step = "delete"
    /\ LET g == request[r].group
       IN  /\ group' = [group EXCEPT ![g] = "deleted"]
           /\ members' = {m \in members : m[1] # g}
           /\ assigned' = [w \in Workspaces |->
                 IF w \in request[r].seen THEN [assigned[w] EXCEPT ![g] = "none"]
                 ELSE assigned[w]]
    /\ End(r)
    /\ UNCHANGED <<role, active, overlapped>>

----------------------------------------------------------------------------
(* Role assignments.  Their subject has no foreign key. *)
Known(s) ==
    IF s \in Groups THEN group[s] = "alive" ELSE role[s] # "none" /\ s \in active

BeginAssign(r) ==
    \E w \in Workspaces, s \in Subjects, k \in Ranks \ {"none"} :
        /\ Known(s)
        /\ Begin(r, [step |-> "assign", workspace |-> w, subject |-> s, rank |-> k])
        /\ UNCHANGED overlapped

(* A row that is being deleted is waited for, and then inserted again. *)
BeingDeleted(w, s) ==
    \E r \in Requests :
        request[r].step = "delete" /\ request[r].group = s /\ w \in request[r].seen

Assign(r) ==
    LET q == request[r]
    IN  /\ q.step = "assign"
        /\ ~BeingDeleted(q.workspace, q.subject)
        /\ assigned' = [assigned EXCEPT ![q.workspace][q.subject] = q.rank]
        /\ End(r)
        /\ UNCHANGED <<role, active, group, members, overlapped>>

Unassign(w, s) ==
    /\ assigned[w][s] # "none"
    /\ ~BeingDeleted(w, s)
    /\ assigned' = [assigned EXCEPT ![w][s] = "none"]
    /\ UNCHANGED <<role, active, group, members, request, overlapped>>

----------------------------------------------------------------------------
Next ==
    \/ \E r \in Requests :
        \/ BeginAddMember(r) \/ BeginRemoveMember(r) \/ CountAdmins(r) \/ WriteMember(r)
        \/ BeginJoin(r) \/ Join(r)
        \/ BeginDelete(r) \/ CommitDelete(r)
        \/ BeginAssign(r) \/ Assign(r)
        \/ Abort(r)
    \/ \E u \in Users : SetActive(u) \/ \E g \in Groups : Leave(g, u)
    \/ \E g \in Groups : CreateGroup(g)
    \/ \E w \in Workspaces, s \in Subjects : Unassign(w, s)

Spec == Init /\ [][Next]_vars

----------------------------------------------------------------------------
TypeOK ==
    /\ role \in [Users -> OrgRoles]
    /\ active \in SUBSET Users
    /\ group \in [Groups -> {"absent", "alive", "deleted"}]
    /\ members \in SUBSET (Groups \X Users)
    /\ assigned \in [Workspaces -> [Subjects -> Ranks]]
    /\ request \in [Requests -> Request]
    /\ overlapped \in BOOLEAN

(* organizations/handler.go: "an organization must keep at least one       *)
(* administrator".  Only changes of members that are served at the same    *)
(* time can leave it without; whatever else runs, one at a time cannot.    *)
OneAtATimeKeepsAdmin == overlapped \/ Admins # {}

(* effective_workspace_members: the assignments a user's role comes from.  *)
Sources(w, u) ==
    {s \in Subjects : assigned[w][s] # "none" /\ (s = u \/ <<s, u>> \in members)}

(* A deleted group may be left with assignments, but nobody has access     *)
(* through one: neither by joining while the group is deleted nor by an    *)
(* assignment that comes after.                                            *)
AccessIsThroughLiveGroups ==
    \A w \in Workspaces, u \in Users : \A s \in Sources(w, u) :
        s \in Groups => group[s] = "alive"
============================================================================
