-------------------------- MODULE ProjectWorkflow --------------------------
(***************************************************************************)
(* One project: its workflow (statuses and allowed transitions), its       *)
(* issues, its automation rules and the engine that runs them inside the   *)
(* transaction of the request that triggered them.                         *)
(*                                                                         *)
(* Every writer of the project takes the project row FOR UPDATE first      *)
(* (projectaccess), so at most one transaction of this module is open at a *)
(* time: phase tells which.  A transaction that only reads what the lock   *)
(* protects before it commits is one action.  Label deletion and changes   *)
(* of membership do not take the lock; the transactions they can overtake  *)
(* (an issue change with its automation run, and a rule write) are split   *)
(* into the statements that read what those change.  Transactions run at   *)
(* READ COMMITTED.                                                         *)
(***************************************************************************)
EXTENDS Naturals, Sequences, FiniteSets

CONSTANTS
    Statuses,      \* workflow statuses, existing or yet to be created
    Default,       \* those of a new project
    DefaultDone,   \* of these, the ones of category 'done'
    Issues, Labels, Users, Rules,
    Nobody,        \* no assignee
    Workflows,     \* sets of transitions that requests may store
    Definitions,   \* rule definitions that requests may store
    SharedUsers    \* users who also belong to another workspace

Triggers == {"issue_created", "status_changed", "assignee_changed", "priority_changed"}

(* Conditions and actions on the fields other components can invalidate;   *)
(* those on issue type, priority and reporter are left out.                *)
Values == Statuses \cup Users \cup Labels \cup {Nobody}
Condition == [field : {"status", "assignee", "label"}, value : Values]
Action == [field : {"status", "assignee", "add label", "remove label"}, value : Values]
Definition == [trigger : Triggers, conditions : SUBSET Condition, actions : Seq(Action)]

ASSUME ProjectWorkflowAssumption ==
    /\ Default \subseteq Statuses
    /\ DefaultDone \subseteq Default
    /\ DefaultDone # {}
    /\ Nobody \notin Users
    /\ Statuses \cap (Labels \cup Users \cup {Nobody}) = {}
    /\ Labels \cap (Users \cup {Nobody}) = {}
    /\ Workflows \subseteq SUBSET (Statuses \X Statuses)
    /\ Definitions # {}
    /\ Definitions \subseteq Definition
    /\ \A d \in Definitions : d.actions # <<>>
    /\ SharedUsers \subseteq Users

VARIABLES
    statuses,     \* project_workflow_statuses
    transitions,  \* project_workflow_transitions
    stage,        \* an issue does not exist, is open or is archived
    issues,       \* its status, assignee and labels
    logged,       \* the status its activity log leads to
    rules,        \* automation_rules
    order,        \* the rules by position
    labels,       \* labels of the workspace
    eligible,     \* users an issue of the project may be assigned to
    phase,        \* which transaction holds the project lock, and how far it is
    run,          \* the issue transaction
    draft         \* the rule transaction

vars == <<statuses, transitions, stage, issues, logged, rules, order, labels,
          eligible, phase, run, draft>>
workflowVars == <<statuses, transitions>>
issueVars == <<stage, issues, logged>>
ruleVars == <<rules, order>>

----------------------------------------------------------------------------
StatusRow == [stage : {"none", "active", "archived"}, done : BOOLEAN]
Fields == [status : Statuses, assignee : Users \cup {Nobody}, labels : SUBSET Labels]
RuleRow == [def : Definitions, enabled : BOOLEAN]

NoIssue == CHOOSE f \in Fields : f.assignee = Nobody /\ f.labels = {}
NoRule == [def |-> CHOOSE d \in Definitions : TRUE, enabled |-> FALSE]

Active(s) == statuses[s].stage = "active"
ActiveStatuses == {s \in Statuses : Active(s)}
Open(i) == stage[i] = "open"
ExistingRules == {order[n] : n \in 1..Len(order)}

(* An automation run: loaded are the definitions by position when the      *)
(* engine read them, selected the positions of those it runs, queue of     *)
(* those it has not considered, actions what is left of the current one,   *)
(* before the fields when that one began; trail is the status reached by   *)
(* the activity entries written so far, unbroken unless one does not start *)
(* where the previous one ended.                                           *)
Run == [issue : Issues, trigger : Triggers, snapshot : Fields, current : Fields,
        before : Fields, loaded : Seq(Definitions), selected : SUBSET Nat,
        queue : SUBSET Nat, actions : Seq(Action), trail : Statuses,
        unbroken : BOOLEAN]

Draft == [rule : Rules, def : Definitions, enabled : BOOLEAN]

Init ==
    /\ statuses = [s \in Statuses |->
                     [stage |-> IF s \in Default THEN "active" ELSE "none",
                      done |-> s \in DefaultDone]]
    /\ transitions = {t \in Default \X Default : t[1] # t[2]}
    /\ stage = [i \in Issues |-> "none"]
    /\ issues = [i \in Issues |-> NoIssue]
    /\ logged = [i \in Issues |-> NoIssue.status]
    /\ rules = [r \in Rules |-> NoRule]
    /\ order = <<>>
    /\ labels = Labels
    /\ eligible = Users
    /\ phase = "free"
    /\ run = <<>>
    /\ draft = <<>>

----------------------------------------------------------------------------
(* What rules depend on, and whether it can be used now. *)
DependsOn(def, v) ==
    \/ \E c \in def.conditions : c.value = v
    \/ \E n \in 1..Len(def.actions) : def.actions[n].value = v

Live(v) == v \in ActiveStatuses \cup labels \cup eligible \cup {Nobody}

DependenciesLive(def) == \A v \in Values : DependsOn(def, v) => Live(v)

(* Seeded bug: only rules with a condition on v are disabled. *)
DisableMatchingRulesFor(v) ==
    rules' = [r \in Rules |->
                [rules[r] EXCEPT !.enabled = @ /\ \A c \in rules[r].def.conditions : c.value # v]]

(* The UPDATE of the invalidation functions: enabled rules that depend on  *)
(* v are disabled.                                                         *)
DisableRulesFor(v) ==
    rules' = [r \in Rules |->
                [rules[r] EXCEPT !.enabled = @ /\ ~DependsOn(rules[r].def, v)]]

----------------------------------------------------------------------------
(* Workflow administration, under the project lock. *)
CreateStatus(s, done) ==
    /\ phase = "free"
    /\ statuses[s].stage = "none"
    /\ statuses' = [statuses EXCEPT ![s] = [stage |-> "active", done |-> done]]
    /\ UNCHANGED <<transitions, issueVars, ruleVars, labels, eligible, phase, run, draft>>

(* Seeded bug: the status that goes away is counted. *)
AnyDone(s) == \E d \in ActiveStatuses : statuses[d].done

AnotherDone(s) == \E d \in ActiveStatuses \ {s} : statuses[d].done

UpdateStatus(s, done) ==
    /\ phase = "free"
    /\ Active(s)
    /\ statuses[s].done /\ ~done => AnotherDone(s)
    /\ statuses' = [statuses EXCEPT ![s].done = done]
    /\ UNCHANGED <<transitions, issueVars, ruleVars, labels, eligible, phase, run, draft>>

(* Seeded bug: the statuses of the new transitions are not checked. *)
ReplaceUnchecked(T) ==
    /\ phase = "free"
    /\ transitions' = T
    /\ UNCHANGED <<statuses, issueVars, ruleVars, labels, eligible, phase, run, draft>>

ReplaceTransitions(T) ==
    /\ phase = "free"
    /\ \A t \in T : Active(t[1]) /\ Active(t[2]) /\ t[1] # t[2]
    /\ transitions' = T
    /\ UNCHANGED <<statuses, issueVars, ruleVars, labels, eligible, phase, run, draft>>

(* Seeded bug: archived issues stay behind. *)
OpenOnStatus(s) == {i \in Issues : Open(i) /\ issues[i].status = s}

OnStatus(s) == {i \in Issues : stage[i] # "none" /\ issues[i].status = s}

(* The issues of the archived status, archived issues included, move to    *)
(* the replacement with an activity entry each.                            *)
ArchiveStatus(s, replacement) ==
    /\ phase = "free"
    /\ s # replacement
    /\ Active(s)
    /\ Active(replacement)
    /\ statuses[s].done => AnotherDone(s)
    /\ LET moved == OnStatus(s)
       IN  /\ issues' = [i \in Issues |-> IF i \in moved
                             THEN [issues[i] EXCEPT !.status = replacement] ELSE issues[i]]
           /\ logged' = [i \in Issues |-> IF i \in moved THEN replacement ELSE logged[i]]
    /\ transitions' = {t \in transitions : t[1] # s /\ t[2] # s}
    /\ statuses' = [statuses EXCEPT ![s].stage = "archived"]
    /\ DisableRulesFor(s)
    /\ UNCHANGED <<stage, order, labels, eligible, phase, run, draft>>

----------------------------------------------------------------------------
(* The transaction of an issue change, up to its own update: it holds the  *)
(* project lock from here on.                                              *)
Begin(i, trigger, fields, trail, unbroken) ==
    /\ phase = "free"
    /\ phase' = "changed"
    /\ run' = [issue |-> i, trigger |-> trigger, snapshot |-> fields,
               current |-> fields, before |-> fields, loaded |-> <<>>,
               selected |-> {}, queue |-> {}, actions |-> <<>>, trail |-> trail,
               unbroken |-> unbroken]
    /\ UNCHANGED <<workflowVars, issueVars, ruleVars, labels, eligible, draft>>

MayBeAssigned(u) == u = Nobody \/ u \in eligible

(* The activity entry of the change: it leads from one status to another.  *)
BeginCreate(i, fields) ==
    /\ stage[i] = "none"
    /\ MayBeAssigned(fields.assignee)
    /\ fields.labels \subseteq labels
    /\ Active(fields.status)
    /\ Begin(i, "issue_created", fields, fields.status, TRUE)

BeginTransition(i, target) ==
    /\ Open(i)
    /\ Active(target)
    /\ <<issues[i].status, target>> \in transitions
    /\ Begin(i, "status_changed", [issues[i] EXCEPT !.status = target],
             target, issues[i].status = logged[i])

BeginAssign(i, u) ==
    /\ Open(i)
    /\ MayBeAssigned(u)
    /\ u # issues[i].assignee
    /\ Begin(i, "assignee_changed", [issues[i] EXCEPT !.assignee = u], logged[i], TRUE)

(* updateIssue: only a new priority triggers rules. *)
BeginUpdate(i) ==
    /\ Open(i)
    /\ Begin(i, "priority_changed", issues[i], logged[i], TRUE)

----------------------------------------------------------------------------
(* Engine.Execute. *)
IsEnabledFor(r) == rules[r].enabled /\ rules[r].def.trigger = run.trigger

Selected == {n \in 1..Len(order) : IsEnabledFor(order[n])}

(* loadRuntimeIssue and loadRuntimeRules: a label deleted since the change *)
(* is gone from the snapshot.                                              *)
LoadRules ==
    /\ phase = "changed"
    /\ phase' = "running"
    /\ LET seen == [run.current EXCEPT !.labels = @ \cap labels]
       IN  run' = [run EXCEPT !.snapshot = seen, !.current = seen, !.before = seen,
                              !.loaded = [n \in 1..Len(order) |-> rules[order[n]].def],
                              !.selected = Selected, !.queue = Selected]
    /\ UNCHANGED <<workflowVars, issueVars, ruleVars, labels, eligible, draft>>

Matches(fields, condition) ==
    CASE condition.field = "status"   -> fields.status = condition.value
      [] condition.field = "assignee" -> fields.assignee = condition.value
      [] condition.field = "label"    -> condition.value \in fields.labels

MatchesConditions(fields, def) == \A c \in def.conditions : Matches(fields, c)

(* Seeded bug: the conditions see what the earlier rules did. *)
ActionsOfChained(def) ==
    IF MatchesConditions(run.current, def) THEN def.actions ELSE <<>>

(* The conditions are matched against the snapshot, not against what the   *)
(* earlier rules did.                                                      *)
ActionsOf(def) ==
    IF MatchesConditions(run.snapshot, def) THEN def.actions ELSE <<>>

StartRule ==
    /\ phase = "running"
    /\ run.actions = <<>>
    /\ \E n \in run.queue :
         /\ \A m \in run.queue : n <= m
         /\ run' = [run EXCEPT !.queue = @ \ {n},
                               !.before = run.current,
                               !.actions = ActionsOf(run.loaded[n])]
    /\ UNCHANGED <<workflowVars, issueVars, ruleVars, labels, eligible, phase, draft>>

(* Seeded bug: an automation may move an issue anywhere. *)
ApplicableAnywhere(fields, action) ==
    CASE action.field = "status"   -> action.value \in ActiveStatuses
      [] action.field = "assignee" -> MayBeAssigned(action.value)
      [] OTHER -> action.value \in labels

(* applyAction succeeds only if what it refers to can be used now, and a   *)
(* status only along an allowed transition from the current one.           *)
Applicable(fields, action) ==
    CASE action.field = "status" ->
           /\ action.value \in ActiveStatuses
           /\ action.value # fields.status => <<fields.status, action.value>> \in transitions
      [] action.field = "assignee" -> MayBeAssigned(action.value)
      [] OTHER -> action.value \in labels

Applied(fields, action) ==
    CASE action.field = "status"    -> [fields EXCEPT !.status = action.value]
      [] action.field = "assignee"  -> [fields EXCEPT !.assignee = action.value]
      [] action.field = "add label" -> [fields EXCEPT !.labels = @ \cup {action.value}]
      [] OTHER                      -> [fields EXCEPT !.labels = @ \ {action.value}]

(* Seeded bug: an entry starts at the status of the snapshot. *)
EntryStartSnapshot == run.snapshot.status

EntryStart == run.before.status

(* The rule's activity entry, written after its last action, carries the   *)
(* status before and after the rule if they differ.                        *)
RunAction ==
    /\ phase = "running"
    /\ run.actions # <<>>
    /\ Applicable(run.current, Head(run.actions))
    /\ LET after == Applied(run.current, Head(run.actions))
           moves == Tail(run.actions) = <<>> /\ after.status # EntryStart
       IN  run' = [run EXCEPT
                    !.current = after,
                    !.actions = Tail(@),
                    !.trail = IF moves THEN after.status ELSE @,
                    !.unbroken = @ /\ (moves => EntryStart = run.trail)]
    /\ UNCHANGED <<workflowVars, issueVars, ruleVars, labels, eligible, phase, draft>>

EndTransaction ==
    /\ phase' = "free"
    /\ run' = <<>>
    /\ draft' = <<>>

(* A label deleted during the run has taken its issue_labels row along. *)
CommitIssue ==
    /\ phase = "running"
    /\ run.actions = <<>>
    /\ run.queue = {}
    /\ stage' = [stage EXCEPT ![run.issue] = "open"]
    /\ issues' = [issues EXCEPT ![run.issue] =
                    [run.current EXCEPT !.labels = @ \cap labels]]
    /\ logged' = [logged EXCEPT ![run.issue] = run.trail]
    /\ EndTransaction
    /\ UNCHANGED <<workflowVars, ruleVars, labels, eligible>>

(* A failing action, any other error or the request's timeout rolls the    *)
(* whole transaction back, the user's own change included.                 *)
Rollback ==
    /\ phase # "free"
    /\ EndTransaction
    /\ UNCHANGED <<workflowVars, issueVars, ruleVars, labels, eligible>>

----------------------------------------------------------------------------
(* Issue changes that trigger no rule. *)
SetLabels(i, L) ==
    /\ phase = "free"
    /\ Open(i)
    /\ L \subseteq labels
    /\ issues' = [issues EXCEPT ![i].labels = L]
    /\ UNCHANGED <<workflowVars, stage, logged, ruleVars, labels, eligible, phase, run, draft>>

ArchiveIssue(i) ==
    /\ phase = "free"
    /\ Open(i)
    /\ stage' = [stage EXCEPT ![i] = "archived"]
    /\ UNCHANGED <<workflowVars, issues, logged, ruleVars, labels, eligible, phase, run, draft>>

----------------------------------------------------------------------------
(* Rule administration.  A write validates the dependencies it stores or   *)
(* enables, then commits.                                                  *)
BeginRule(d) ==
    /\ phase = "free"
    /\ phase' = "rule"
    /\ draft' = d
    /\ UNCHANGED <<workflowVars, issueVars, ruleVars, labels, eligible, run>>

BeginCreateRule(r, def, enabled) ==
    /\ r \notin ExistingRules
    /\ DependenciesLive(def)
    /\ BeginRule([rule |-> r, def |-> def, enabled |-> enabled])

(* Renaming a rule, changing its trigger or disabling it is not validated. *)
NeedsValidation(r, def, enabled) ==
    \/ def.conditions # rules[r].def.conditions
    \/ def.actions # rules[r].def.actions
    \/ enabled /\ ~rules[r].enabled

BeginUpdateRule(r, def, enabled) ==
    /\ r \in ExistingRules
    /\ NeedsValidation(r, def, enabled) => DependenciesLive(def)
    /\ BeginRule([rule |-> r, def |-> def, enabled |-> enabled])

CommitRule ==
    /\ phase = "rule"
    /\ rules' = [rules EXCEPT ![draft.rule] = [def |-> draft.def, enabled |-> draft.enabled]]
    /\ order' = IF draft.rule \in ExistingRules THEN order ELSE Append(order, draft.rule)
    /\ EndTransaction
    /\ UNCHANGED <<workflowVars, issueVars, labels, eligible>>

OrderWithout(n) == [m \in 1..Len(order) - 1 |-> order[IF m < n THEN m ELSE m + 1]]

DeleteRule(r) ==
    /\ phase = "free"
    /\ \E n \in 1..Len(order) : order[n] = r /\ order' = OrderWithout(n)
    /\ rules' = [rules EXCEPT ![r] = NoRule]
    /\ UNCHANGED <<workflowVars, issueVars, labels, eligible, phase, run, draft>>

(* Seeded bug: a rule may be listed twice in place of another. *)
ReorderWithRepeats(new) ==
    /\ phase = "free"
    /\ Len(new) = Len(order)
    /\ order' = new
    /\ UNCHANGED <<workflowVars, issueVars, rules, labels, eligible, phase, run, draft>>

ReorderRules(new) ==
    /\ phase = "free"
    /\ Len(new) = Len(order)
    /\ {new[n] : n \in 1..Len(new)} = ExistingRules
    /\ order' = new
    /\ UNCHANGED <<workflowVars, issueVars, rules, labels, eligible, phase, run, draft>>

----------------------------------------------------------------------------
(* Writers that do not take the project lock.  Their UPDATE of the rules   *)
(* waits for a rule transaction that has locked a row it selects: an       *)
(* enabled rule that already depends on v.                                 *)
WaitsForRule(v) ==
    /\ phase = "rule"
    /\ draft.rule \in ExistingRules
    /\ rules[draft.rule].enabled
    /\ DependsOn(rules[draft.rule].def, v)

(* The cascade to issue_labels waits for a run that added or removed l.    *)
WaitsForIssue(l) ==
    /\ phase \in {"changed", "running"}
    /\ \/ stage[run.issue] = "none" /\ l \in run.current.labels
       \/ stage[run.issue] # "none" /\
             ~(l \in run.current.labels <=> l \in issues[run.issue].labels)

DeleteLabel(l) ==
    /\ l \in labels
    /\ ~WaitsForRule(l)
    /\ ~WaitsForIssue(l)
    /\ labels' = labels \ {l}
    /\ issues' = [i \in Issues |-> [issues[i] EXCEPT !.labels = @ \ {l}]]
    /\ DisableRulesFor(l)
    /\ UNCHANGED <<workflowVars, stage, logged, order, eligible, phase, run, draft>>

(* updateWorkspaceMember deactivates or demotes a user who then has no     *)
(* access to the project.                                                  *)
RevokeUser(u) ==
    /\ u \in eligible
    /\ ~WaitsForRule(u)
    /\ eligible' = eligible \ {u}
    /\ DisableRulesFor(u)
    /\ UNCHANGED <<workflowVars, issueVars, order, labels, phase, run, draft>>

(* deleteProjectMember does the same under the project lock. *)
RemoveProjectMember(u) ==
    /\ phase = "free"
    /\ RevokeUser(u)

(* Another workspace the user belongs to deactivates the account: only its *)
(* own rules are disabled.                                                 *)
DeactivateElsewhere(u) ==
    /\ u \in SharedUsers \cap eligible
    /\ eligible' = eligible \ {u}
    /\ UNCHANGED <<workflowVars, issueVars, ruleVars, labels, phase, run, draft>>

(* The user is reactivated, promoted or made a member of the project. *)
AdmitUser(u) ==
    /\ u \notin eligible
    /\ eligible' = eligible \cup {u}
    /\ UNCHANGED <<workflowVars, issueVars, ruleVars, labels, phase, run, draft>>

----------------------------------------------------------------------------
Administer ==
    \/ \E s \in Statuses, done \in BOOLEAN : CreateStatus(s, done) \/ UpdateStatus(s, done)
    \/ \E T \in Workflows : ReplaceTransitions(T)
    \/ \E s, replacement \in Statuses : ArchiveStatus(s, replacement)

ChangeIssue ==
    \/ \E i \in Issues :
         \/ \E f \in Fields : BeginCreate(i, f)
         \/ \E s \in Statuses : BeginTransition(i, s)
         \/ \E u \in Users \cup {Nobody} : BeginAssign(i, u)
         \/ BeginUpdate(i)
         \/ \E L \in SUBSET Labels : SetLabels(i, L)
         \/ ArchiveIssue(i)
    \/ LoadRules \/ StartRule \/ RunAction \/ CommitIssue

ChangeRule ==
    \/ \E r \in Rules :
         \/ \E d \in Definitions, on \in BOOLEAN :
              BeginCreateRule(r, d, on) \/ BeginUpdateRule(r, d, on)
         \/ DeleteRule(r)
    \/ CommitRule
    \/ \E new \in [1..Len(order) -> ExistingRules] : ReorderRules(new)

Invalidate ==
    \/ \E l \in Labels : DeleteLabel(l)
    \/ \E u \in Users :
         \/ RevokeUser(u) \/ RemoveProjectMember(u)
         \/ DeactivateElsewhere(u) \/ AdmitUser(u)

Next == Administer \/ ChangeIssue \/ ChangeRule \/ Rollback \/ Invalidate

Spec == Init /\ [][Next]_vars

----------------------------------------------------------------------------
TypeOK ==
    /\ statuses \in [Statuses -> StatusRow]
    /\ transitions \subseteq Statuses \X Statuses
    /\ stage \in [Issues -> {"none", "open", "archived"}]
    /\ issues \in [Issues -> Fields]
    /\ logged \in [Issues -> Statuses]
    /\ rules \in [Rules -> RuleRow]
    /\ order \in Seq(Rules)
    /\ \A m, n \in 1..Len(order) : order[m] = order[n] => m = n
    /\ labels \subseteq Labels
    /\ eligible \subseteq Users
    /\ phase \in {"free", "changed", "running", "rule"}
    /\ phase \in {"changed", "running"} =>
         run \in Run /\ run.queue \subseteq 1..Len(run.loaded)
    /\ phase = "rule" => draft \in Draft

(* No issue, archived ones included, is ever left on a status the workflow *)
(* no longer has, whatever rules and status archiving do to it.            *)
IssuesOnActiveStatus ==
    \A i \in Issues : stage[i] # "none" => Active(issues[i].status)

(* Work can always be finished: some active status is of category 'done'.  *)
DoneStatusExists == \E s \in ActiveStatuses : statuses[s].done

(* No transition leads from or to a status that was archived. *)
TransitionsLive == \A t \in transitions : Active(t[1]) /\ Active(t[2])

(* An enabled rule depends on active statuses only: archiving and rule     *)
(* writes, in any order, leave no rule that would move issues to nowhere.  *)
StatusDependenciesLive ==
    \A r \in Rules, s \in Statuses :
        rules[r].enabled /\ DependsOn(rules[r].def, s) => Active(s)

(* The activity log of an issue tells its history: every entry starts from *)
(* the status the previous one led to, and the last leads to the status    *)
(* the issue has, through transitions, rules and status archiving.         *)
ActivityExplainsStatus ==
    /\ \A i \in Issues : stage[i] # "none" => logged[i] = issues[i].status
    /\ phase \in {"changed", "running"} => run.unbroken

(* What the rules of a run amount to: the actions of the selected rules    *)
(* whose conditions the snapshot meets, by the position of the rule and    *)
(* the place of the action in it.                                          *)
Effects ==
    UNION {{<<n, k>> : k \in 1..Len(run.loaded[n].actions)} :
           n \in {m \in run.selected : MatchesConditions(run.snapshot, run.loaded[m])}}

ActionAt(p) == run.loaded[p[1]].actions[p[2]]

Later(q, p) == q[1] > p[1] \/ (q[1] = p[1] /\ q[2] > p[2])

SetsLabel(a, l) == a.field \in {"add label", "remove label"} /\ a.value = l

SameTarget(a, b) ==
    \/ a.field \in {"status", "assignee"} /\ a.field = b.field
    \/ SetsLabel(a, a.value) /\ SetsLabel(b, a.value)

HasEffect(fields, a) ==
    CASE a.field = "status"    -> fields.status = a.value
      [] a.field = "assignee"  -> fields.assignee = a.value
      [] a.field = "add label" -> a.value \in fields.labels
      [] OTHER                 -> a.value \notin fields.labels

(* The issue is what the actions at the places E make of the snapshot: an  *)
(* action that none of the later ones overrules has its effect, and what   *)
(* none of them mentions is as it was.                                     *)
Outcome(E) ==
    /\ \A p \in E :
          (\A q \in E : Later(q, p) => ~SameTarget(ActionAt(p), ActionAt(q))) =>
              HasEffect(run.current, ActionAt(p))
    /\ (\A p \in E : ActionAt(p).field # "status") =>
          run.current.status = run.snapshot.status
    /\ (\A p \in E : ActionAt(p).field # "assignee") =>
          run.current.assignee = run.snapshot.assignee
    /\ \A l \in Labels : (\A p \in E : ~SetsLabel(ActionAt(p), l)) =>
          (l \in run.current.labels <=> l \in run.snapshot.labels)

(* docs/v4-plan.md: rules match the snapshot taken after the user's        *)
(* change, each runs once, and the later action has priority.              *)
LaterActionsWin ==
    phase = "running" /\ run.queue = {} /\ run.actions = <<>> => Outcome(Effects)

(* The workflow leads from s to u if every set of statuses with s in it    *)
(* that is closed under the transitions contains u.                        *)
Closed(S) == \A t \in transitions : t[1] \in S => t[2] \in S

LeadsTo(s, u) == \A S \in SUBSET Statuses : s \in S /\ Closed(S) => u \in S

(* No step moves an existing issue where the workflow has no path, unless  *)
(* the status it was on is archived by that very step.                     *)
StatusMovesAreAllowed ==
    [][\A i \in Issues :
         stage[i] # "none" /\ issues'[i].status # issues[i].status =>
             \/ LeadsTo(issues[i].status, issues'[i].status)
             \/ Active(issues[i].status) /\ statuses'[issues[i].status].stage = "archived"]_vars

(* docs/v4-plan.md: a rule whose dependency becomes unavailable is         *)
(* disabled, and one with an invalid dependency cannot be saved.           *)
EnabledRulesUsable ==
    \A r \in ExistingRules : rules[r].enabled => DependenciesLive(rules[r].def)
============================================================================
