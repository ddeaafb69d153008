------------------------- MODULE WorkspaceMembers -------------------------
(***************************************************************************)
(* Who belongs to which workspace, as what, and who leads its project:     *)
(* backend/internal/team, projectmembers, invites and the session lookup   *)
(* of auth.  Each workspace has one project here.                          *)
(*                                                                         *)
(* A request that guards the last administrator or the last project lead   *)
(* locks rows, counts the others without locking them, then writes: two    *)
(* steps, with READ COMMITTED in between, and any number of such           *)
(* transactions may be between theirs.  Waits for the row locks of         *)
(* foreign-key checks are left out; they only delay a step.                *)
(***************************************************************************)
EXTENDS FiniteSets

CONSTANTS
    Users,
    Workspaces,
    Founder,     \* the user each workspace was created by
    Assigned,    \* users a role assignment makes an admin of a workspace
    Requests     \* requests in progress at the same time

ASSUME WorkspaceMembersAssumption ==
    /\ Founder \in [Workspaces -> Users]
    /\ Assigned \in [Workspaces -> SUBSET Users]

VARIABLES
    account,    \* users: "none" before the account exists
    direct,     \* workspace_members
    project,    \* project_members of the workspace's project
    requests,
    overtaken   \* history: transactions that counted someone who has left since

vars == <<account, direct, project, requests, overtaken>>

----------------------------------------------------------------------------
Accounts == {"none", "active", "inactive"}
WorkspaceRoles == {"admin", "member"}
ProjectRoles == {"lead", "contributor"}    \* a viewer counts as a contributor here

(* What a transaction has read under its locks, and is about to write. *)
Seen == [account : Accounts, role : WorkspaceRoles \cup {"none"},
         lead : ProjectRoles \cup {"none"}]
Request ==
    [step : {"idle"}]
    \cup [step : {"authorized"}, ws : Workspaces, actor : Users]
    \cup [step : {"update"}, ws : Workspaces, user : Users, seen : Seen,
          role : WorkspaceRoles, on : BOOLEAN]
    \cup [step : {"put"}, ws : Workspaces, user : Users, seen : Seen, role : ProjectRoles]
    \cup [step : {"delete"}, ws : Workspaces, user : Users, seen : Seen]

Idle == [step |-> "idle"]
InTransaction(r) == requests[r].step \in {"update", "put", "delete"}

Active(u) == account[u] = "active"
ActiveAdmins(w) == {u \in Users : direct[w][u] = "admin" /\ Active(u)}
ActiveLeads(w) == {u \in Users : project[w][u] = "lead" /\ Active(u)}

(* effective_workspace_members *)
EffectiveAdmin(w, u) == Active(u) /\ (direct[w][u] = "admin" \/ u \in Assigned[w])

(* projectaccess: a lead must still belong to the workspace. *)
Manager(w, u) ==
    \/ EffectiveAdmin(w, u)
    \/ u \in ActiveLeads(w) /\ direct[w][u] # "none"

Init ==
    LET founders == {Founder[w] : w \in Workspaces}
    IN  /\ account = [u \in Users |-> IF u \in founders THEN "active" ELSE "none"]
        /\ direct = [w \in Workspaces |->
                       [u \in Users |-> IF u = Founder[w] THEN "admin" ELSE "none"]]
        /\ project = [w \in Workspaces |-> [u \in Users |-> "none"]]
        /\ requests = [r \in Requests |-> Idle]
        /\ overtaken = {}

----------------------------------------------------------------------------
(* Row locks.  The three transactions lock the users row of their target;  *)
(* those on project members also lock the project.                         *)
(* Seeded bug: nothing is locked. *)
NeverLocked(u) == FALSE

UserLocked(u) == \E r \in Requests : InTransaction(r) /\ requests[r].user = u

ProjectLocked(w) ==
    \E r \in Requests : requests[r].step \in {"put", "delete"} /\ requests[r].ws = w

Start(r, w, u, request) ==
    /\ ~UserLocked(u)
    /\ requests' = [requests EXCEPT ![r] = request]
    /\ UNCHANGED <<account, direct, project, overtaken>>

(* Seeded bug: the columns are scanned in the wrong order. *)
SeenSwapped(w, u) == [account |-> account[u], role |-> project[w][u], lead |-> direct[w][u]]

SeenNow(w, u) == [account |-> account[u], role |-> direct[w][u], lead |-> project[w][u]]

End(r) == requests' = [requests EXCEPT ![r] = Idle]

(* Whom a transaction counts: an update the admins, put and delete the     *)
(* leads as well.                                                          *)
Counted(r) ==
    LET q == requests[r]
    IN  ActiveAdmins(q.ws) \cup IF q.step = "update" THEN {} ELSE ActiveLeads(q.ws)

(* A failed check, any other error or the timeout of the request. *)
Abandon(r) ==
    /\ requests[r] # Idle
    /\ End(r)
    /\ overtaken' = overtaken \ {r}
    /\ UNCHANGED <<account, direct, project>>

----------------------------------------------------------------------------
(* The handler of team.updateMember reads the role from the session before *)
(* its transaction begins.                                                 *)
Authorize(r, w, actor) ==
    /\ requests[r] = Idle
    /\ EffectiveAdmin(w, actor)
    /\ requests' = [requests EXCEPT ![r] = [step |-> "authorized", ws |-> w, actor |-> actor]]
    /\ UNCHANGED <<account, direct, project, overtaken>>

(* Seeded bug: the member itself is counted. *)
KeepsAnyAdmin(w, u, role, on) ==
    direct[w][u] = "admin" /\ Active(u) /\ ~(role = "admin" /\ on) => ActiveAdmins(w) # {}

KeepsAdmin(w, u, role, on) ==
    direct[w][u] = "admin" /\ Active(u) /\ ~(role = "admin" /\ on) =>
        ActiveAdmins(w) \ {u} # {}

(* updateWorkspaceMember, up to the count of the other active admins. *)
CheckUpdate(r, u, role, on) ==
    /\ requests[r].step = "authorized"
    /\ u # requests[r].actor
    /\ LET w == requests[r].ws
       IN  /\ direct[w][u] # "none"
           /\ KeepsAdmin(w, u, role, on)
           /\ Start(r, w, u, [step |-> "update", ws |-> w, user |-> u,
                              seen |-> SeenNow(w, u), role |-> role, on |-> on])

(* is_active is a column of users: it changes in every workspace.  The     *)
(* transactions that have counted the user are not told.                   *)
CommitUpdate(r) ==
    /\ requests[r].step = "update"
    /\ LET q == requests[r]
       IN  /\ direct' = [direct EXCEPT ![q.ws][q.user] = q.role]
           /\ account' = [account EXCEPT ![q.user] = IF q.on THEN "active" ELSE "inactive"]
    /\ End(r)
    /\ UNCHANGED project
    /\ overtaken' = (overtaken \ {r}) \cup
         {s \in Requests \ {r} : InTransaction(s) /\ ~(Counted(s) \subseteq Counted(s)')}

----------------------------------------------------------------------------
(* Seeded bug: the lead who goes away is counted. *)
KeepsAnyManager(w, u) == ActiveAdmins(w) \cup ActiveLeads(w) # {}

(* ensureProjectKeepsManager counts direct admins and the other leads. *)
KeepsManager(w, u) == ActiveAdmins(w) \cup (ActiveLeads(w) \ {u}) # {}

(* putProjectMember, up to its last check: the project is locked first, so *)
(* the manager is checked after the wait.                                  *)
CheckPut(r, w, u, role) ==
    /\ requests[r] = Idle
    /\ ~ProjectLocked(w)
    /\ \E m \in Users : Manager(w, m)
    /\ direct[w][u] # "none"
    /\ Active(u)
    /\ project[w][u] = "lead" /\ role # "lead" => KeepsManager(w, u)
    /\ Start(r, w, u, [step |-> "put", ws |-> w, user |-> u,
                       seen |-> SeenNow(w, u), role |-> role])

CommitPut(r) ==
    /\ requests[r].step = "put"
    /\ project' = [project EXCEPT ![requests[r].ws][requests[r].user] = requests[r].role]
    /\ End(r)
    /\ overtaken' = overtaken \ {r}
    /\ UNCHANGED <<account, direct>>

(* deleteProjectMember, up to its last check. *)
CheckDelete(r, w, u) ==
    /\ requests[r] = Idle
    /\ ~ProjectLocked(w)
    /\ \E m \in Users : Manager(w, m)
    /\ project[w][u] # "none"
    /\ u \in ActiveLeads(w) => KeepsManager(w, u)
    /\ Start(r, w, u, [step |-> "delete", ws |-> w, user |-> u, seen |-> SeenNow(w, u)])

CommitDelete(r) ==
    /\ requests[r].step = "delete"
    /\ project' = [project EXCEPT ![requests[r].ws][requests[r].user] = "none"]
    /\ End(r)
    /\ overtaken' = overtaken \ {r}
    /\ UNCHANGED <<account, direct>>

----------------------------------------------------------------------------
(* createWorkspaceMember makes a new account a member. *)
CreateMember(w, u, role) ==
    /\ account[u] = "none"
    /\ \E a \in Users : EffectiveAdmin(w, a)
    /\ account' = [account EXCEPT ![u] = "active"]
    /\ direct' = [direct EXCEPT ![w][u] = role]
    /\ UNCHANGED <<project, requests, overtaken>>

(* acceptInvite: an invite creates or reactivates the account and gives it *)
(* the invited role, unless it is an active member already.  Any pending   *)
(* invite is possible.                                                     *)
AcceptInvite(w, u, role) ==
    /\ ~UserLocked(u)
    /\ ~(direct[w][u] # "none" /\ Active(u))
    /\ account' = [account EXCEPT ![u] = "active"]
    /\ direct' = [direct EXCEPT ![w][u] = role]
    /\ UNCHANGED <<project, requests, overtaken>>

----------------------------------------------------------------------------
Next ==
    \/ \E r \in Requests, w \in Workspaces, u \in Users :
         \/ Authorize(r, w, u)
         \/ \E role \in ProjectRoles : CheckPut(r, w, u, role)
         \/ CheckDelete(r, w, u)
    \/ \E r \in Requests :
         \/ \E u \in Users, role \in WorkspaceRoles, on \in BOOLEAN : CheckUpdate(r, u, role, on)
         \/ CommitUpdate(r) \/ CommitPut(r) \/ CommitDelete(r) \/ Abandon(r)
    \/ \E w \in Workspaces, u \in Users, role \in WorkspaceRoles :
         CreateMember(w, u, role) \/ AcceptInvite(w, u, role)

Spec == Init /\ [][Next]_vars

----------------------------------------------------------------------------
TypeOK ==
    /\ account \in [Users -> Accounts]
    /\ direct \in [Workspaces -> [Users -> WorkspaceRoles \cup {"none"}]]
    /\ project \in [Workspaces -> [Users -> ProjectRoles \cup {"none"}]]
    /\ requests \in [Requests -> Request]
    /\ overtaken \subseteq {r \in Requests : InTransaction(r)}

(* team/handler.go: "workspace must keep at least one active admin".  The  *)
(* code does not keep it: members_admin_race.cfg shows two demotions that  *)
(* overlap.                                                                *)
WorkspaceKeepsAdmin == \A w \in Workspaces : ActiveAdmins(w) # {}

(* What the check of updateWorkspaceMember does keep, over role changes,    *)
(* deactivations, invites, stale authorizations and any overlap: a         *)
(* workspace loses its last active admin only where the account is         *)
(* deactivated from another workspace, or by a transaction that has        *)
(* counted an admin whom another one has taken away since.                 *)
LastAdminStays ==
    [][\A w \in Workspaces :
         ActiveAdmins(w) # {} /\ ActiveAdmins(w)' = {} =>
             \E r \in Requests :
                 /\ requests[r].step = "update" /\ requests'[r] = Idle
                 /\ r \in overtaken \/ (requests[r].ws # w /\ ~requests[r].on)]_vars

(* What a transaction decided upon is still so when it writes, however     *)
(* invites, deactivations from other workspaces and other requests are     *)
(* interleaved: none of them is undone by writing back what was read.      *)
DecisionsStand ==
    \A r \in Requests : InTransaction(r) =>
        LET q == requests[r]
        IN  /\ q.step = "update" =>
                 q.seen.account = account[q.user] /\ q.seen.role = direct[q.ws][q.user]
            /\ q.step \in {"put", "delete"} =>
                 q.seen.account = account[q.user] /\ q.seen.lead = project[q.ws][q.user]

(* projectmembers/handler.go: "project requires an active lead when no     *)
(* active workspace admin exists": removing or demoting leads never takes  *)
(* the last manager away, even where another workspace has deactivated     *)
(* the admins, unless an admin or lead was counted whom another            *)
(* transaction has taken away before the write.                            *)
ProjectKeepsManager ==
    [][\A w \in Workspaces :
         project'[w] # project[w] /\ ActiveAdmins(w) \cup ActiveLeads(w) # {} =>
             \/ (ActiveAdmins(w) \cup ActiveLeads(w))' # {}
             \/ \E r \in overtaken : requests'[r] = Idle]_vars
============================================================================
