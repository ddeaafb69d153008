----------------------------- MODULE Planning -----------------------------
(***************************************************************************)
(* Sprints, the issue hierarchy and issue links: backend/internal/sprints, *)
(* the parent and link handlers of backend/internal/issues, and            *)
(* archiveProject of backend/internal/projects.                            *)
(*                                                                         *)
(* Every handler locks a project row first and reads what it decides upon  *)
(* after that.  A handler that concerns rows of two projects locks the     *)
(* second row later, so that between the two locks everything else may     *)
(* run, and two handlers may wait for each other; the database or the five *)
(* seconds of the request then end one of them.                            *)
(*                                                                         *)
(* Titles, priorities, points, labels and comments are left out, and so    *)
(* are the permissions.  The unique index on relates links and the         *)
(* CHECK constraints on types and parents are left out on purpose: the     *)
(* properties say that the handlers never run into them.                   *)
(***************************************************************************)
EXTENDS FiniteSets

CONSTANTS
    Projects, Issues, Sprints,
    Home,         \* the project of each issue and sprint
    Types,        \* issue types in use
    LinkTypes,    \* link types in use
    Goals,        \* what the name, goal and dates of a sprint may be
    Requests,     \* requests served at the same time
    None

ASSUME PlanningAssumption ==
    /\ Home \in [Issues \cup Sprints -> Projects]
    /\ Types \subseteq {"task", "epic", "subtask"}    \* bug and story are as task
    /\ LinkTypes \subseteq {"relates", "blocks"}
    /\ Issues \cap Sprints = {}
    /\ None \notin Issues \cup Sprints

VARIABLES
    open,       \* projects that are not archived
    sprint,
    issue,
    links,
    request     \* the transaction each request is in

vars == <<open, sprint, issue, links, request>>

----------------------------------------------------------------------------
SprintStatuses == {"absent", "planned", "active", "completed"}
SprintRow == [status : SprintStatuses, goal : Goals \cup {None}]
Stages == {"absent", "open", "archived"}
IssueRow == [stage : Stages, type : Types \cup {"none"},
             parent : Issues \cup {None}, sprint : Sprints \cup {None}]
Links == Issues \X Issues \X LinkTypes

(* issue and other are the rows the request names; from is the parent that *)
(* setIssueParent read, or the source of the link that is to be deleted.   *)
Steps == {"idle", "create", "parent", "reparent", "add", "remove",
          "link", "find", "unlink"}
Request == [step : Steps, issue : Issues \cup {None},
            other : Issues \cup Sprints \cup {None},
            kind : Types \cup LinkTypes \cup {"none"},
            from : Issues \cup {None}, locks : SUBSET Projects]
Idle == [step |-> "idle", issue |-> None, other |-> None, kind |-> "none",
         from |-> None, locks |-> {}]

NoRow == [stage |-> "absent", type |-> "none", parent |-> None, sprint |-> None]

Init ==
    /\ open = Projects
    /\ sprint = [s \in Sprints |-> [status |-> "absent", goal |-> None]]
    /\ issue = [i \in Issues |-> NoRow]
    /\ links = {}
    /\ request = [r \in Requests |-> Idle]

(* The issues that the handlers and the queries of the hierarchy can see. *)
Live == {i \in Issues : issue[i].stage = "open" /\ Home[i] \in open}

LinkOf(q) == IF q.from = q.issue THEN <<q.issue, q.other, q.kind>>
                                 ELSE <<q.other, q.issue, q.kind>>

----------------------------------------------------------------------------
(* Row locks.  A statement that needs a row locked by another transaction  *)
(* waits; it then finds the row, or not, as it is when the lock is free.   *)
Free(r, p) == \A s \in Requests \ {r} : p \notin request[s].locks
Lockable(r, p) == Free(r, p) /\ p \in open

(* The project that a transaction still has to lock. *)
Wanted(q) ==
    CASE q.step \in {"create", "parent", "link", "unlink"} /\ q.other # None -> {Home[q.other]}
      [] q.step \in {"add", "remove"} -> {Home[q.issue]}
      [] OTHER -> {}

(* deleteIssueLink locks the link's row between its two projects. *)
WaitsForLink(r, s) ==
    /\ request[r].step = "find"
    /\ request[s].step = "unlink"
    /\ LinkOf(request[r]) = LinkOf(request[s])

Begin(r, step, i, o, kind, from, p) ==
    /\ request[r] = Idle
    /\ Lockable(r, p)
    /\ request' = [request EXCEPT ![r] = [step |-> step, issue |-> i, other |-> o,
                                          kind |-> kind, from |-> from, locks |-> {p}]]
    /\ UNCHANGED <<open, sprint, issue, links>>

BeginCreate(r) ==
    \E i \in Issues, o \in Issues \cup {None}, t \in Types :
        /\ issue[i].stage = "absent"
        /\ \A s \in Requests : ~(request[s].step = "create" /\ request[s].issue = i)
        /\ t = "subtask" => o # None
        /\ t = "epic" => o = None
        /\ i # o
        /\ Begin(r, "create", i, o, t, None, Home[i])

BeginSetParent(r) ==
    \E i \in Live, o \in Issues \cup {None} :
        /\ issue[i].type = "epic" => o = None
        /\ issue[i].type = "subtask" => o # None
        /\ o \notin {i, issue[i].parent}
        /\ Begin(r, "parent", i, o, "none", issue[i].parent, Home[i])

BeginAdd(r) ==
    \E i \in Issues, s \in Sprints :
        /\ sprint[s].status # "absent"
        /\ Begin(r, "add", i, s, "none", None, Home[s])

BeginRemove(r) ==
    \E i \in Issues, s \in Sprints :
        /\ sprint[s].status # "absent"
        /\ Begin(r, "remove", i, s, "none", None, Home[s])

BeginLink(r) ==
    \E i \in Live, o \in Issues, t \in LinkTypes :
        i # o /\ Begin(r, "link", i, o, t, i, Home[i])

BeginUnlink(r) ==
    \E l \in links :
    \E i \in {l[1], l[2]} \cap Live :
        Begin(r, "find", i, IF i = l[1] THEN l[2] ELSE l[1], l[3], l[1], Home[i])

----------------------------------------------------------------------------
(* The second half of a handler: its remaining lock, then its reads and    *)
(* writes.  A check that fails rolls the transaction back.                 *)
Ready(r) ==
    /\ Wanted(request[r]) \subseteq {p \in Projects : Free(r, p)}
    /\ \A s \in Requests \ {r} : ~WaitsForLink(r, s)
Visible(r) == Wanted(request[r]) \subseteq open

Finish(r) == request' = [request EXCEPT ![r] = Idle]

Rollback(r) ==
    /\ Finish(r)
    /\ UNCHANGED <<open, sprint, issue, links>>

(* Seeded bug: only the issue itself is refused as its parent. *)
ReachesItself(o, i) == o = i

(* verifyIssueParent walks up from the new parent through live issues; on  *)
(* a walk that has entered a cycle it does not come back.                  *)
ClosedUpwards(T) == \A i \in T : issue[i].parent \in Live => issue[i].parent \in T
Reaches(o, i) == \A T \in SUBSET Live : o \in T /\ ClosedUpwards(T) => i \in T
Cycle(S) == S # {} /\ S \subseteq Live /\ \A i \in S : issue[i].parent \in S
WalkEnds(o) == ~\E S \in SUBSET Live : Cycle(S) /\ \A i \in S : Reaches(o, i)

ParentAccepted(q) ==
    \/ q.other = None
    \/ q.other \in Live /\ ~Reaches(q.other, q.issue) /\ WalkEnds(q.other)

(* Seeded bug: relates links are compared in one direction. *)
LinkKnownOneWay(q) == LinkOf(q) \in links

LinkKnown(q) ==
    \/ LinkOf(q) \in links
    \/ q.kind = "relates" /\ <<q.other, q.issue, q.kind>> \in links

(* Seeded bug: the status of the sprint is not looked at. *)
AcceptedAnyStatus(q) ==
    CASE q.step = "add" -> q.issue \in Live /\ Home[q.issue] = Home[q.other]
      [] q.step = "create" -> q.other = None \/ q.other \in Live
      [] OTHER -> FALSE

Accepted(q) ==
    CASE q.step = "create" -> q.other = None \/ q.other \in Live
      [] q.step = "parent" -> ParentAccepted(q)
      [] q.step = "add" -> sprint[q.other].status # "completed" /\ q.issue \in Live
                           /\ Home[q.issue] = Home[q.other]
      [] q.step = "remove" -> sprint[q.other].status # "completed" /\ q.issue \in Live
                              /\ issue[q.issue].sprint = q.other
      [] q.step = "link" -> {q.issue, q.other} \subseteq Live /\ ~LinkKnown(q)
      [] q.step = "find" -> LinkOf(q) \in links /\ {q.issue, q.other} \subseteq Live
      [] OTHER -> TRUE

(* Seeded bug: a failed check returns without a rollback. *)
RefuseHiddenOnly(r) ==
    /\ request[r].step \notin {"idle", "reparent"}
    /\ Ready(r)
    /\ ~Visible(r)
    /\ Rollback(r)

Refuse(r) ==
    /\ request[r].step \notin {"idle", "reparent"}
    /\ Ready(r)
    /\ ~(Visible(r) /\ Accepted(request[r]))
    /\ Rollback(r)

Proceed(r, step) ==
    /\ request[r].step = step
    /\ Ready(r)
    /\ Visible(r)
    /\ Accepted(request[r])

Create(r) ==
    LET q == request[r]
    IN  /\ Proceed(r, "create")
        /\ issue' = [issue EXCEPT ![q.issue] = [stage |-> "open", type |-> q.kind,
                                                parent |-> q.other, sprint |-> None]]
        /\ Finish(r)
        /\ UNCHANGED <<open, sprint, links>>

(* Seeded bug: the project of the new parent is not locked. *)
CheckParentUnlocked(r) ==
    /\ Proceed(r, "parent")
    /\ request' = [request EXCEPT ![r].step = "reparent"]
    /\ UNCHANGED <<open, sprint, issue, links>>

CheckParent(r) ==
    /\ Proceed(r, "parent")
    /\ request' = [request EXCEPT ![r].step = "reparent",
                                  ![r].locks = @ \cup Wanted(request[r])]
    /\ UNCHANGED <<open, sprint, issue, links>>

SetParent(r) ==
    LET q == request[r]
    IN  /\ q.step = "reparent"
        /\ issue' = [issue EXCEPT ![q.issue].parent = q.other]
        /\ Finish(r)
        /\ UNCHANGED <<open, sprint, links>>

Add(r) ==
    LET q == request[r]
    IN  /\ Proceed(r, "add")
        /\ issue' = [issue EXCEPT ![q.issue].sprint = q.other]
        /\ Finish(r)
        /\ UNCHANGED <<open, sprint, links>>

Remove(r) ==
    LET q == request[r]
    IN  /\ Proceed(r, "remove")
        /\ issue' = [issue EXCEPT ![q.issue].sprint = None]
        /\ Finish(r)
        /\ UNCHANGED <<open, sprint, links>>

Link(r) ==
    /\ Proceed(r, "link")
    /\ links' = links \cup {LinkOf(request[r])}
    /\ Finish(r)
    /\ UNCHANGED <<open, sprint, issue>>

FindLink(r) ==
    /\ Proceed(r, "find")
    /\ request' = [request EXCEPT ![r].step = "unlink"]
    /\ UNCHANGED <<open, sprint, issue, links>>

(* The other issue is read again by the statement that waits for the lock  *)
(* on its project, as it was before the wait: it may have been archived.   *)
(* A refusal is an Abort.                                                  *)
Unlink(r) ==
    /\ Proceed(r, "unlink")
    /\ links' = links \ {LinkOf(request[r])}
    /\ Finish(r)
    /\ UNCHANGED <<open, sprint, issue>>

(* Missing permission, the five seconds of the request, a lost connection, *)
(* or being chosen to end a deadlock.                                      *)
Abort(r) == request[r].step # "idle" /\ Rollback(r)

----------------------------------------------------------------------------
(* Handlers that lock one row and are over before anyone else runs. *)
Unlocked(p) == \A r \in Requests : p \notin request[r].locks

CreateSprint(s, g) ==
    /\ sprint[s].status = "absent"
    /\ Home[s] \in open /\ Unlocked(Home[s])
    /\ sprint' = [sprint EXCEPT ![s] = [status |-> "planned", goal |-> g]]
    /\ UNCHANGED <<open, issue, links, request>>

UpdateSprint(s, g) ==
    /\ sprint[s].status \in {"planned", "active"}
    /\ Home[s] \in open /\ Unlocked(Home[s])
    /\ sprint' = [sprint EXCEPT ![s].goal = g]
    /\ UNCHANGED <<open, issue, links, request>>

(* idx_sprints_one_active_per_project refuses a second active sprint. *)
StartSprint(s) ==
    /\ sprint[s].status = "planned"
    /\ Home[s] \in open /\ Unlocked(Home[s])
    /\ \A t \in Sprints : Home[t] = Home[s] => sprint[t].status # "active"
    /\ sprint' = [sprint EXCEPT ![s].status = "active"]
    /\ UNCHANGED <<open, issue, links, request>>

CompleteSprint(s) ==
    /\ sprint[s].status = "active"
    /\ Home[s] \in open /\ Unlocked(Home[s])
    /\ sprint' = [sprint EXCEPT ![s].status = "completed"]
    /\ UNCHANGED <<open, issue, links, request>>

UpdateIssue(i, t) ==
    /\ i \in Live
    /\ Unlocked(Home[i])
    /\ t = "subtask" => issue[i].parent # None
    /\ t = "epic" => issue[i].parent = None
    /\ issue' = [issue EXCEPT ![i].type = t]
    /\ UNCHANGED <<open, sprint, links, request>>

(* Seeded bug: the project is not locked. *)
ArchiveIssueUnlocked(i) ==
    /\ i \in Live
    /\ issue' = [issue EXCEPT ![i].stage = "archived"]
    /\ UNCHANGED <<open, sprint, links, request>>

ArchiveIssue(i) ==
    /\ i \in Live
    /\ Unlocked(Home[i])
    /\ issue' = [issue EXCEPT ![i].stage = "archived"]
    /\ UNCHANGED <<open, sprint, links, request>>

(* Seeded bug: the row locks of others do not matter. *)
ArchiveProjectUnlocked(p) ==
    /\ p \in open
    /\ open' = open \ {p}
    /\ UNCHANGED <<sprint, issue, links, request>>

(* One UPDATE of the row that the transactions lock. *)
ArchiveProject(p) ==
    /\ p \in open
    /\ Unlocked(p)
    /\ open' = open \ {p}
    /\ UNCHANGED <<sprint, issue, links, request>>

----------------------------------------------------------------------------
Starts(r) ==
    \/ BeginCreate(r) \/ BeginSetParent(r)
    \/ BeginAdd(r) \/ BeginRemove(r)
    \/ BeginLink(r) \/ BeginUnlink(r)

Continues(r) ==
    \/ Create(r) \/ CheckParent(r) \/ SetParent(r)
    \/ Add(r) \/ Remove(r)
    \/ Link(r) \/ FindLink(r) \/ Unlink(r)
    \/ Refuse(r)

Next ==
    \/ \E r \in Requests : Starts(r) \/ Continues(r) \/ Abort(r)
    \/ \E s \in Sprints, g \in Goals : CreateSprint(s, g) \/ UpdateSprint(s, g)
    \/ \E s \in Sprints : StartSprint(s) \/ CompleteSprint(s)
    \/ \E i \in Issues : ArchiveIssue(i) \/ \E t \in Types : UpdateIssue(i, t)
    \/ \E p \in Projects : ArchiveProject(p)

Spec == Init /\ [][Next]_vars

(* A set of transactions each of which waits for a row that another one of *)
(* them holds: the database ends one.                                      *)
WaitsFor(r, s) ==
    r # s /\ (Wanted(request[r]) \cap request[s].locks # {} \/ WaitsForLink(r, s))
Deadlocked == {r \in Requests :
    \E D \in SUBSET Requests : r \in D /\ \A x \in D : \E y \in D : WaitsFor(x, y)}
EndDeadlock == \E r \in Deadlocked : Rollback(r)

(* Requests wait for a row in turn, so that each gets it some time; nobody *)
(* relies on the five seconds.                                             *)
FairSpec ==
    /\ Spec
    /\ WF_vars(EndDeadlock)
    /\ \A r \in Requests : SF_vars(Continues(r))

----------------------------------------------------------------------------
TypeOK ==
    /\ open \in SUBSET Projects
    /\ sprint \in [Sprints -> SprintRow]
    /\ issue \in [Issues -> IssueRow]
    /\ links \in SUBSET Links
    /\ request \in [Requests -> Request]

(* No issue of a project is its own ancestor within that project, however  *)
(* requests overlap: the ancestors are read under the lock that the parent *)
(* is written under.                                                       *)
NoCycleInProject ==
    \A p \in Projects : \A S \in SUBSET {i \in Issues : Home[i] = p} : ~Cycle(S)

(* The same across projects; it does not hold (see the README). *)
NoOpenCycle == \A S \in SUBSET Live : ~Cycle(S)

(* The database constraints never fire, not even the one whose violation   *)
(* createIssueLink turns into "duplicate" (issues/handler.go:2192):        *)
(* an epic has no parent and a subtask has one, though types and parents   *)
(* are changed by different requests, each of which checks only its own    *)
(* side; and two issues are related once, whichever of them the requests   *)
(* name first.                                                             *)
TypesFitParents ==
    \A i \in Issues :
        /\ issue[i].type = "epic" => issue[i].parent = None
        /\ issue[i].type = "subtask" => issue[i].parent # None
RelatesOnce ==
    \A i, o \in Issues : <<i, o, "relates">> \in links => <<o, i, "relates">> \notin links
ConstraintsHold == TypesFitParents /\ RelatesOnce

(* What a transaction read before it waited for its second lock still      *)
(* stands when it writes: the parent that the activity entry calls the     *)
(* previous one, the type the parent was checked against, and the link     *)
(* that is to be deleted.                                                  *)
ReadsStand ==
    \A r \in Requests :
        LET q == request[r]
        IN  /\ q.step \in {"parent", "reparent"} =>
                 /\ issue[q.issue].parent = q.from
                 /\ issue[q.issue].type = "epic" => q.other = None
                 /\ issue[q.issue].type = "subtask" => q.other # None
            /\ q.step = "reparent" => {q.issue, q.other} \ {None} \subseteq Live
            /\ q.step = "unlink" => LinkOf(q) \in links

(* An archived issue, and an issue of an archived project, is never        *)
(* changed again, nor is a sprint of an archived project, though requests  *)
(* may be halfway through when the archiving begins.                       *)
ArchiveIsFinal ==
    [][ /\ open' \subseteq open
        /\ \A i \in Issues :
             Home[i] \notin open \/ issue[i].stage = "archived" => issue'[i] = issue[i]
        /\ \A s \in Sprints : Home[s] \notin open => sprint'[s] = sprint[s] ]_vars

(* A completed sprint is not edited or started again, and gains no issue.  *)
CompletedGainsNothing ==
    [][ \A s \in Sprints : sprint[s].status = "completed" =>
            /\ sprint'[s] = sprint[s]
            /\ \A i \in Issues : issue'[i].sprint = s => issue[i].sprint = s ]_vars

(* Requests may be interleaved as they like: what each of them writes is   *)
(* what the handler, run alone and at once, would have written, apart from *)
(* the ancestors in other projects (PlanningBoard).                        *)
Board == INSTANCE PlanningBoard
HandlersAreAtomic == Board!Spec

(* Two requests over the same two projects do not wait for each other for  *)
(* ever: every request ends.                                               *)
RequestsEnd == \A r \in Requests : request[r].step # "idle" ~> request[r].step = "idle"
============================================================================
