----------------------- MODULE ProjectWorkflowProofs -----------------------
(***************************************************************************)
(* Theorems about ProjectWorkflow, for every set of statuses, issues,      *)
(* rules, labels, users and rule definitions.                              *)
(***************************************************************************)
EXTENDS ProjectWorkflow, SequenceTheorems, FunctionTheorems, FiniteSetTheorems, TLAPS

(* Fields, rows and runs that the actions write have their types. *)
LEMMA DefinitionFields ==
    ASSUME NEW d \in Definitions
    PROVE  /\ d.actions \in Seq(Action)
           /\ d.trigger \in Triggers
  BY ProjectWorkflowAssumption DEF Definition

LEMMA FieldsAccess ==
    ASSUME NEW f \in Fields
    PROVE  f.status \in Statuses /\ f.assignee \in Users \cup {Nobody} /\ f.labels \subseteq Labels
  BY DEF Fields

LEMMA FieldsUpdated ==
    ASSUME NEW f \in Fields
    PROVE  /\ \A s \in Statuses : [f EXCEPT !.status = s] \in Fields
           /\ \A u \in Users \cup {Nobody} : [f EXCEPT !.assignee = u] \in Fields
           /\ \A L \in SUBSET Labels : [f EXCEPT !.labels = L] \in Fields
  BY DEF Fields

(* An action that applyAction accepts leaves an issue with proper fields, *)
(* and on an active status if it was on one.                               *)
LEMMA AppliedFields ==
    ASSUME TypeOK, NEW f \in Fields, NEW a \in Action, Applicable(f, a)
    PROVE  /\ Applied(f, a) \in Fields
           /\ Active(f.status) => Active(Applied(f, a).status)
<1>1. CASE a.field = "status"
  <2>1. a.value \in Statuses /\ Active(a.value)
    BY <1>1 DEF Applicable, ActiveStatuses
  <2>2. Applied(f, a) = [f EXCEPT !.status = a.value]
    BY <1>1 DEF Applied
  <2>3. [f EXCEPT !.status = a.value].status = a.value
    BY DEF Fields
  <2> QED BY <2>1, <2>2, <2>3, FieldsUpdated DEF Active
<1>2. CASE a.field = "assignee"
  <2>1. a.value \in Users \cup {Nobody}
    BY <1>2 DEF Applicable, MayBeAssigned, TypeOK
  <2>2. Applied(f, a) = [f EXCEPT !.assignee = a.value]
    BY <1>2 DEF Applied
  <2>3. [f EXCEPT !.assignee = a.value].status = f.status
    BY DEF Fields
  <2> QED BY <2>1, <2>2, <2>3, FieldsUpdated DEF Active
<1>3. CASE a.field = "add label"
  <2>1. a.value \in Labels /\ f.labels \cup {a.value} \in SUBSET Labels
    BY <1>3, FieldsAccess DEF Applicable, TypeOK
  <2>2. Applied(f, a) = [f EXCEPT !.labels = f.labels \cup {a.value}]
    BY <1>3 DEF Applied
  <2>3. [f EXCEPT !.labels = f.labels \cup {a.value}].status = f.status
    BY DEF Fields
  <2> QED BY <2>1, <2>2, <2>3, FieldsUpdated DEF Active
<1>4. CASE a.field = "remove label"
  <2>1. f.labels \ {a.value} \in SUBSET Labels
    BY <1>4, FieldsAccess
  <2>2. Applied(f, a) = [f EXCEPT !.labels = f.labels \ {a.value}]
    BY <1>4 DEF Applied
  <2>3. [f EXCEPT !.labels = f.labels \ {a.value}].status = f.status
    BY DEF Fields
  <2> QED BY <2>1, <2>2, <2>3, FieldsUpdated DEF Active
<1> QED BY <1>1, <1>2, <1>3, <1>4 DEF Action

LEMMA NoRuleType == NoRule \in RuleRow
  BY ProjectWorkflowAssumption DEF NoRule, RuleRow

LEMMA NoIssueType == NoIssue \in Fields
<1>1. PICK s : s \in Statuses
  BY ProjectWorkflowAssumption
<1>2. [status |-> s, assignee |-> Nobody, labels |-> {}] \in Fields
  BY <1>1 DEF Fields
<1>3. \E f \in Fields : f.assignee = Nobody /\ f.labels = {}
  BY <1>2
<1> QED BY <1>3 DEF NoIssue

(* The disabled rules are still rules. *)
LEMMA DisabledRules ==
    ASSUME TypeOK, NEW v, DisableRulesFor(v)
    PROVE  /\ rules' \in [Rules -> RuleRow]
           /\ \A r \in Rules : /\ rules'[r].def = rules[r].def
                               /\ rules'[r].enabled =>
                                     rules[r].enabled /\ ~DependsOn(rules[r].def, v)
<1> SUFFICES ASSUME NEW r \in Rules
             PROVE  LET row == [rules[r] EXCEPT !.enabled =
                                  @ /\ ~DependsOn(rules[r].def, v)]
                    IN  /\ row \in RuleRow
                        /\ row.def = rules[r].def
                        /\ row.enabled => rules[r].enabled /\ ~DependsOn(rules[r].def, v)
  BY DEF DisableRulesFor
<1>1. rules[r] \in RuleRow
  BY DEF TypeOK
<1>2. \A b \in BOOLEAN : /\ [rules[r] EXCEPT !.enabled = b] \in RuleRow
                         /\ [rules[r] EXCEPT !.enabled = b].def = rules[r].def
                         /\ [rules[r] EXCEPT !.enabled = b].enabled = b
  BY <1>1 DEF RuleRow
<1>3. (rules[r].enabled /\ ~DependsOn(rules[r].def, v)) \in BOOLEAN
  OBVIOUS
<1> HIDE DEF RuleRow
<1> QED BY <1>2, <1>3

----------------------------------------------------------------------------
(* The steps of a run: each keeps a typed run, and says what it wrote. *)
LEMMA BeginType ==
    ASSUME TypeOK, NEW i \in Issues, NEW trigger \in Triggers, NEW fields \in Fields,
           NEW trail \in Statuses, NEW unbroken \in BOOLEAN,
           Begin(i, trigger, fields, trail, unbroken)
    PROVE  /\ TypeOK'
           /\ phase' = "changed" /\ run'.issue = i
           /\ run'.current = fields /\ run'.before = fields /\ run'.actions = <<>>
           /\ run'.trail = trail /\ run'.unbroken = unbroken
<1>1. run' \in Run /\ run'.queue \subseteq 1..Len(run'.loaded)
  BY DEF Begin, Run
<1>2. phase' = "changed"
  BY DEF Begin
<1>3. UNCHANGED <<workflowVars, issueVars, ruleVars, labels, eligible, draft>>
  BY DEF Begin
<1>4. TypeOK'
  BY <1>1, <1>2, <1>3 DEF TypeOK, workflowVars, issueVars, ruleVars
<1> QED BY <1>4 DEF Begin

LEMMA RunFields ==
    ASSUME NEW q \in Run
    PROVE  /\ q.issue \in Issues /\ q.trigger \in Triggers
           /\ q.snapshot \in Fields /\ q.current \in Fields /\ q.before \in Fields
           /\ q.loaded \in Seq(Definitions) /\ q.selected \in SUBSET Nat
           /\ q.queue \in SUBSET Nat /\ q.actions \in Seq(Action)
           /\ q.trail \in Statuses /\ q.unbroken \in BOOLEAN
  BY DEF Run

LEMMA LoadRulesType ==
    ASSUME TypeOK, LoadRules
    PROVE  /\ TypeOK'
           /\ run'.current.status = run.current.status
           /\ run'.before.status = run.current.status
           /\ run'.actions = run.actions
           /\ run'.issue = run.issue
           /\ run'.snapshot = run'.current /\ run'.queue = run'.selected
           /\ run'.selected \subseteq 1..Len(run'.loaded)
           /\ run'.trail = run.trail /\ run'.unbroken = run.unbroken
<1> DEFINE seen == [run.current EXCEPT !.labels = @ \cap labels]
           defs == [n \in 1..Len(order) |-> rules[order[n]].def]
<1>1. run \in Run
  BY DEF LoadRules, TypeOK
<1>2. run.current \in Fields
  BY <1>1, RunFields
<1>3. /\ run.current.labels \cap labels \in SUBSET Labels
      /\ \A L \in SUBSET Labels : [run.current EXCEPT !.labels = L].status = run.current.status
  BY <1>2, FieldsAccess DEF Fields
<1>4. seen \in Fields /\ seen.status = run.current.status
  BY <1>2, <1>3, FieldsUpdated
<1>5. order \in Seq(Rules) /\ rules \in [Rules -> RuleRow]
  BY DEF TypeOK
<1>6. \A n \in 1..Len(order) : rules[order[n]].def \in Definitions
  BY <1>5 DEF RuleRow
<1>7. Len(order) \in Nat
  BY <1>5
<1>8. defs \in Seq(Definitions) /\ Len(defs) = Len(order)
  BY <1>6, <1>7, IsASeq
<1>9. Selected \in SUBSET Nat /\ Selected \subseteq 1..Len(order)
  BY <1>7 DEF Selected
<1> HIDE DEF seen, defs
<1>10. run' = [run EXCEPT !.snapshot = seen, !.current = seen, !.before = seen,
                          !.loaded = defs, !.selected = Selected, !.queue = Selected]
  BY DEF LoadRules, seen, defs
<1>11. /\ run' \in Run
       /\ run'.queue = Selected /\ run'.selected = Selected /\ run'.loaded = defs
       /\ run'.issue = run.issue /\ run'.snapshot = seen
       /\ run'.current = seen /\ run'.before = seen /\ run'.actions = run.actions
       /\ run'.trail = run.trail /\ run'.unbroken = run.unbroken
  BY <1>1, <1>4, <1>8, <1>9, <1>10 DEF Run
<1>12. phase' = "running" /\ UNCHANGED <<workflowVars, issueVars, ruleVars, labels, eligible, draft>>
  BY DEF LoadRules
<1>13. TypeOK'
  BY <1>8, <1>9, <1>11, <1>12 DEF TypeOK, workflowVars, issueVars, ruleVars
<1> QED BY <1>4, <1>8, <1>9, <1>11, <1>13

LEMMA StartRuleType ==
    ASSUME TypeOK, StartRule
    PROVE  /\ TypeOK'
           /\ run'.current = run.current /\ run'.before = run.current
           /\ run'.issue = run.issue
           /\ run'.snapshot = run.snapshot /\ run'.loaded = run.loaded
           /\ run'.selected = run.selected
           /\ run'.trail = run.trail /\ run'.unbroken = run.unbroken
           /\ \E n \in run.queue : /\ \A m \in run.queue : n <= m
                                  /\ run'.queue = run.queue \ {n}
                                  /\ run'.actions = ActionsOf(run.loaded[n])
<1>1. run \in Run /\ run.queue \subseteq 1..Len(run.loaded)
  BY DEF StartRule, TypeOK
<1>2. PICK n \in run.queue : /\ \A m \in run.queue : n <= m
                             /\ run' = [run EXCEPT !.queue = @ \ {n},
                                                   !.before = run.current,
                                                   !.actions = ActionsOf(run.loaded[n])]
  BY DEF StartRule
<1>3. run.loaded \in Seq(Definitions) /\ run.current \in Fields /\ run.queue \in SUBSET Nat
  BY <1>1, RunFields
<1>4. run.loaded[n] \in Definitions
  BY <1>1, <1>3
<1>5. ActionsOf(run.loaded[n]) \in Seq(Action)
  BY <1>4, DefinitionFields DEF ActionsOf
<1>6. run.queue \ {n} \in SUBSET Nat
  BY <1>3
<1>7. /\ run' \in Run
      /\ run'.queue = run.queue \ {n} /\ run'.actions = ActionsOf(run.loaded[n])
      /\ run'.issue = run.issue
      /\ run'.snapshot = run.snapshot /\ run'.loaded = run.loaded
      /\ run'.selected = run.selected
      /\ run'.current = run.current /\ run'.before = run.current
      /\ run'.trail = run.trail /\ run'.unbroken = run.unbroken
  BY <1>1, <1>2, <1>3, <1>5, <1>6 DEF Run
<1>8. phase' = phase /\ UNCHANGED <<workflowVars, issueVars, ruleVars, labels, eligible, draft>>
  BY DEF StartRule
<1>9. TypeOK'
  BY <1>1, <1>7, <1>8 DEF TypeOK, workflowVars, issueVars, ruleVars
<1> QED BY <1>2, <1>7, <1>9

LEMMA RunActionType ==
    ASSUME TypeOK, RunAction
    PROVE  /\ TypeOK'
           /\ Active(run.current.status) => Active(run'.current.status)
           /\ run'.current = Applied(run.current, Head(run.actions))
           /\ run'.issue = run.issue
           /\ run'.snapshot = run.snapshot /\ run'.loaded = run.loaded
           /\ run'.selected = run.selected /\ run'.queue = run.queue
           /\ run'.before = run.before /\ run'.actions = Tail(run.actions)
           /\ LET moves == Tail(run.actions) = <<>> /\ run'.current.status # run.before.status
              IN  /\ run'.trail = IF moves THEN run'.current.status ELSE run.trail
                  /\ run'.unbroken = (run.unbroken /\ (moves => run.before.status = run.trail))
<1> DEFINE act == Head(run.actions)
           after == Applied(run.current, act)
           moves == Tail(run.actions) = <<>> /\ after.status # run.before.status
           trail == IF moves THEN after.status ELSE run.trail
           unbroken == run.unbroken /\ (moves => run.before.status = run.trail)
<1>1. run \in Run /\ run.queue \subseteq 1..Len(run.loaded)
  BY DEF RunAction, TypeOK
<1>2. run.actions \in Seq(Action) /\ run.actions # <<>>
  BY <1>1, RunFields DEF RunAction
<1>3. act \in Action /\ Tail(run.actions) \in Seq(Action)
  BY <1>2
<1>4. run.current \in Fields /\ Applicable(run.current, act)
  BY <1>1, RunFields DEF RunAction
<1>5. after \in Fields /\ (Active(run.current.status) => Active(after.status))
  BY <1>3, <1>4, AppliedFields
<1>6. trail \in Statuses /\ unbroken \in BOOLEAN
  BY <1>1, <1>5, RunFields, FieldsAccess
<1>7. run' = [run EXCEPT !.current = after, !.actions = Tail(run.actions),
                         !.trail = trail, !.unbroken = unbroken]
  BY DEF RunAction, EntryStart
<1> HIDE DEF act, after, moves, trail, unbroken
<1>8. /\ run' \in Run
      /\ run'.issue = run.issue
      /\ run'.snapshot = run.snapshot /\ run'.loaded = run.loaded
      /\ run'.selected = run.selected /\ run'.queue = run.queue
      /\ run'.current = after /\ run'.before = run.before
      /\ run'.actions = Tail(run.actions)
      /\ run'.trail = trail /\ run'.unbroken = unbroken
  BY <1>1, <1>3, <1>5, <1>6, <1>7 DEF Run
<1>9. phase' = phase /\ UNCHANGED <<workflowVars, issueVars, ruleVars, labels, eligible, draft>>
  BY DEF RunAction
<1>10. TypeOK'
  BY <1>1, <1>8, <1>9 DEF TypeOK, workflowVars, issueVars, ruleVars
<1> QED BY <1>5, <1>8, <1>10 DEF act, after, moves, trail, unbroken, Active

(* A list of all existing rules as long as the order lists none twice. *)
LEMMA ReorderKeepsOrder ==
    ASSUME TypeOK, NEW new \in [1..Len(order) -> ExistingRules], ReorderRules(new)
    PROVE  /\ order' = new /\ order' \in Seq(Rules)
           /\ \A m, n \in 1..Len(order') : order'[m] = order'[n] => m = n
<1> DEFINE S == 1..Len(order)
<1>1. order \in Seq(Rules) /\ Len(order) \in Nat
  BY DEF TypeOK
<1>2. ExistingRules \subseteq Rules
  BY <1>1 DEF ExistingRules
<1>3. order' = new /\ order' \in Seq(Rules) /\ Len(new) = Len(order)
  BY <1>1, <1>2, IsASeq DEF ReorderRules
<1>4. order \in [S -> ExistingRules]
  BY <1>1 DEF ExistingRules
<1>5. order \in Bijection(S, ExistingRules)
  <2>1. \A m, n \in S : order[m] = order[n] => m = n
    BY DEF TypeOK
  <2>2. \A r \in ExistingRules : \E n \in S : order[n] = r
    BY DEF ExistingRules
  <2> QED BY <1>4, <2>1, <2>2, Fun_IsBij
<1>6. IsFiniteSet(S) /\ Cardinality(S) = Cardinality(ExistingRules)
  <2>1. IsFiniteSet(S)
    BY <1>1, FS_Interval
  <2> QED BY <1>5, <2>1, FS_Bijection DEF ExistsBijection
<1>7. new \in Surjection(S, ExistingRules)
  BY <1>3 DEF ReorderRules, Surjection
<1>8. new \in Injection(S, ExistingRules)
  BY <1>6, <1>7, FS_SurjSameCardinalityImpliesInj
<1> QED BY <1>3, <1>8 DEF Injection, IsInjective

----------------------------------------------------------------------------
(* ProjectWorkflow's type invariant: the table rows, the order of the      *)
(* rules, which lists none twice, and the transaction in progress.         *)
THEOREM TypeCorrect == Spec => []TypeOK
<1>1. Init => TypeOK
  BY ProjectWorkflowAssumption, NoIssueType, NoRuleType, FieldsAccess
     DEF Init, TypeOK, StatusRow
<1>2. ASSUME TypeOK, Next PROVE TypeOK'
  <2>1. ASSUME NEW s \in Statuses, NEW done \in BOOLEAN, CreateStatus(s, done)
        PROVE TypeOK'
    BY <1>2, <2>1 DEF CreateStatus, TypeOK, StatusRow, issueVars, ruleVars
  <2>2. ASSUME NEW s \in Statuses, NEW done \in BOOLEAN, UpdateStatus(s, done)
        PROVE TypeOK'
    <3>1. [statuses[s] EXCEPT !.done = done] \in StatusRow
      BY <1>2 DEF TypeOK, StatusRow
    <3>2. statuses' \in [Statuses -> StatusRow]
      BY <1>2, <2>2, <3>1 DEF UpdateStatus, TypeOK
    <3> QED BY <1>2, <2>2, <3>2 DEF UpdateStatus, TypeOK, issueVars, ruleVars
  <2>3. ASSUME NEW T \in Workflows, ReplaceTransitions(T)
        PROVE TypeOK'
    <3>1. T \subseteq Statuses \X Statuses
      BY ProjectWorkflowAssumption
    <3> QED BY <1>2, <2>3, <3>1 DEF ReplaceTransitions, TypeOK, issueVars, ruleVars
  <2>4. ASSUME NEW s \in Statuses, NEW replacement \in Statuses,
               ArchiveStatus(s, replacement)
        PROVE TypeOK'
    <3>1. rules' \in [Rules -> RuleRow]
      BY <1>2, <2>4, DisabledRules DEF ArchiveStatus
    <3>2. issues' \in [Issues -> Fields] /\ logged' \in [Issues -> Statuses]
      BY <1>2, <2>4, FieldsUpdated DEF ArchiveStatus, TypeOK
    <3>3. statuses' \in [Statuses -> StatusRow] /\ transitions' \subseteq Statuses \X Statuses
      BY <1>2, <2>4 DEF ArchiveStatus, TypeOK, StatusRow
    <3> QED BY <1>2, <2>4, <3>1, <3>2, <3>3 DEF ArchiveStatus, TypeOK
  <2>5. ASSUME NEW i \in Issues, NEW f \in Fields, BeginCreate(i, f)
        PROVE TypeOK'
    BY <1>2, <2>5, BeginType, FieldsAccess DEF BeginCreate, Triggers
  <2>6. ASSUME NEW i \in Issues, NEW s \in Statuses, BeginTransition(i, s)
        PROVE TypeOK'
    <3>1. [issues[i] EXCEPT !.status = s] \in Fields
      BY <1>2, FieldsUpdated DEF TypeOK
    <3> QED BY <1>2, <2>6, <3>1, BeginType DEF BeginTransition, Triggers
  <2>7. ASSUME NEW i \in Issues, NEW u \in Users \cup {Nobody}, BeginAssign(i, u)
        PROVE TypeOK'
    <3>1. [issues[i] EXCEPT !.assignee = u] \in Fields /\ logged[i] \in Statuses
      BY <1>2, FieldsUpdated DEF TypeOK
    <3> QED BY <1>2, <2>7, <3>1, BeginType DEF BeginAssign, Triggers
  <2>8. ASSUME NEW i \in Issues, BeginUpdate(i)
        PROVE TypeOK'
    <3>1. issues[i] \in Fields /\ logged[i] \in Statuses
      BY <1>2 DEF TypeOK
    <3> QED BY <1>2, <2>8, <3>1, BeginType DEF BeginUpdate, Triggers
  <2>9. ASSUME NEW i \in Issues, NEW L \in SUBSET Labels, SetLabels(i, L)
        PROVE TypeOK'
    BY <1>2, <2>9, FieldsUpdated DEF SetLabels, TypeOK, workflowVars, ruleVars
  <2>10. ASSUME NEW i \in Issues, ArchiveIssue(i)
         PROVE TypeOK'
    BY <1>2, <2>10 DEF ArchiveIssue, TypeOK, workflowVars, ruleVars
  <2>11. CASE LoadRules
    BY <1>2, <2>11, LoadRulesType
  <2>12. CASE StartRule
    BY <1>2, <2>12, StartRuleType
  <2>13. CASE RunAction
    BY <1>2, <2>13, RunActionType
  <2>14. CASE CommitIssue
    <3>1. run.issue \in Issues /\ run.current \in Fields /\ run.trail \in Statuses
      BY <1>2, <2>14, RunFields DEF CommitIssue, TypeOK
    <3>2. [run.current EXCEPT !.labels = @ \cap labels] \in Fields
      BY <3>1, FieldsUpdated, FieldsAccess
    <3> QED BY <1>2, <2>14, <3>1, <3>2
            DEF CommitIssue, EndTransaction, TypeOK, workflowVars, ruleVars
  <2>15. CASE Rollback
    BY <1>2, <2>15 DEF Rollback, EndTransaction, TypeOK, workflowVars, issueVars, ruleVars
  <2>16. ASSUME NEW r \in Rules, NEW d \in Definitions, NEW on \in BOOLEAN,
                BeginCreateRule(r, d, on) \/ BeginUpdateRule(r, d, on)
         PROVE TypeOK'
    <3>1. BeginRule([rule |-> r, def |-> d, enabled |-> on])
      BY <2>16 DEF BeginCreateRule, BeginUpdateRule
    <3>2. [rule |-> r, def |-> d, enabled |-> on] \in Draft
      BY DEF Draft
    <3> QED BY <1>2, <3>1, <3>2 DEF BeginRule, TypeOK, workflowVars, issueVars, ruleVars
  <2>17. ASSUME NEW r \in Rules, DeleteRule(r)
         PROVE TypeOK'
    <3>1. PICK n \in 1..Len(order) : order' = OrderWithout(n)
      BY <2>17 DEF DeleteRule
    <3>2. Len(order) \in Nat /\ Len(order) - 1 \in Nat /\ order \in Seq(Rules)
      BY <1>2, <3>1 DEF TypeOK
    <3>3. \A m \in 1..Len(order) - 1 : (IF m < n THEN m ELSE m + 1) \in 1..Len(order)
      BY <3>1, <3>2
    <3>4. \A m \in 1..Len(order) - 1 : order'[m] = order[IF m < n THEN m ELSE m + 1]
      BY <3>1 DEF OrderWithout
    <3>5. \A m \in 1..Len(order) - 1 : order[IF m < n THEN m ELSE m + 1] \in Rules
      BY <3>2, <3>3
    <3>6. order' \in Seq(Rules) /\ Len(order') = Len(order) - 1
      BY <3>1, <3>2, <3>5, IsASeq DEF OrderWithout
    <3>7. ASSUME NEW m \in 1..Len(order'), NEW k \in 1..Len(order'), order'[m] = order'[k]
          PROVE  m = k
      <4>1. (IF m < n THEN m ELSE m + 1) = (IF k < n THEN k ELSE k + 1)
        BY <1>2, <3>3, <3>4, <3>6, <3>7 DEF TypeOK
      <4> QED BY <3>1, <3>2, <3>6, <4>1
    <3>8. rules' \in [Rules -> RuleRow]
      BY <1>2, <2>17, NoRuleType DEF DeleteRule, TypeOK
    <3> QED BY <1>2, <2>17, <3>6, <3>7, <3>8 DEF DeleteRule, TypeOK, workflowVars, issueVars
  <2>18. CASE CommitRule
    <3>1. draft.rule \in Rules /\ [def |-> draft.def, enabled |-> draft.enabled] \in RuleRow
      BY <1>2, <2>18 DEF CommitRule, TypeOK, Draft, RuleRow
    <3>2. rules' \in [Rules -> RuleRow]
      BY <1>2, <2>18, <3>1 DEF CommitRule, TypeOK
    <3>3. order' \in Seq(Rules) /\ \A m, n \in 1..Len(order') : order'[m] = order'[n] => m = n
      <4>1. CASE draft.rule \in ExistingRules
        BY <1>2, <2>18, <4>1 DEF CommitRule, TypeOK
      <4>2. CASE draft.rule \notin ExistingRules
        <5>1. order' = Append(order, draft.rule) /\ order \in Seq(Rules)
          BY <1>2, <2>18, <4>2 DEF CommitRule, TypeOK
        <5>2. /\ order' \in Seq(Rules) /\ Len(order') = Len(order) + 1
              /\ \A m \in 1..Len(order) : order'[m] = order[m]
              /\ order'[Len(order) + 1] = draft.rule
          BY <3>1, <5>1, AppendProperties
        <5>3. \A m \in 1..Len(order) : order[m] # draft.rule
          BY <4>2 DEF ExistingRules
        <5>4. Len(order) \in Nat
          BY <5>1
        <5>5. \A m, n \in 1..Len(order) : order[m] = order[n] => m = n
          BY <1>2 DEF TypeOK
        <5>6. 1..Len(order') = 1..Len(order) \cup {Len(order) + 1}
          BY <5>2, <5>4
        <5> QED BY <5>2, <5>3, <5>5, <5>6
      <4> QED BY <4>1, <4>2
    <3> QED BY <1>2, <2>18, <3>2, <3>3
            DEF CommitRule, EndTransaction, TypeOK, workflowVars, issueVars
  <2>19. ASSUME NEW new \in [1..Len(order) -> ExistingRules], ReorderRules(new)
         PROVE TypeOK'
    BY <1>2, <2>19, ReorderKeepsOrder DEF ReorderRules, TypeOK, workflowVars, issueVars
  <2>20. ASSUME NEW l \in Labels, DeleteLabel(l)
         PROVE TypeOK'
    <3>1. rules' \in [Rules -> RuleRow]
      BY <1>2, <2>20, DisabledRules DEF DeleteLabel
    <3>2. issues' \in [Issues -> Fields]
      BY <1>2, <2>20, FieldsUpdated, FieldsAccess DEF DeleteLabel, TypeOK
    <3> QED BY <1>2, <2>20, <3>1, <3>2 DEF DeleteLabel, TypeOK, workflowVars
  <2>21. ASSUME NEW u \in Users, RevokeUser(u)
         PROVE TypeOK'
    <3>1. rules' \in [Rules -> RuleRow]
      BY <1>2, <2>21, DisabledRules DEF RevokeUser
    <3> QED BY <1>2, <2>21, <3>1 DEF RevokeUser, TypeOK, workflowVars, issueVars
  <2>22. ASSUME NEW u \in Users, DeactivateElsewhere(u) \/ AdmitUser(u)
         PROVE TypeOK'
    BY <1>2, <2>22 DEF DeactivateElsewhere, AdmitUser, TypeOK, workflowVars, issueVars, ruleVars
  <2> QED BY <1>2, <2>1, <2>2, <2>3, <2>4, <2>5, <2>6, <2>7, <2>8, <2>9, <2>10, <2>11,
             <2>12, <2>13, <2>14, <2>15, <2>16, <2>17, <2>18, <2>19, <2>20, <2>21, <2>22
          DEF Next, Administer, ChangeIssue, ChangeRule, Invalidate, RemoveProjectMember
<1>3. TypeOK /\ UNCHANGED vars => TypeOK'
  BY DEF TypeOK, vars
<1> QED BY <1>1, <1>2, <1>3, PTL DEF Spec

----------------------------------------------------------------------------
(* Every step by what it touches: only administration changes the          *)
(* workflow, and it does so while no transaction is in progress.           *)
LEMMA StepKinds ==
    ASSUME Next
    PROVE  \/ /\ phase = "free" /\ phase' = "free"
              /\ \/ \E s \in Statuses, done \in BOOLEAN :
                      CreateStatus(s, done) \/ UpdateStatus(s, done)
                 \/ \E T \in Workflows : ReplaceTransitions(T)
                 \/ \E s, replacement \in Statuses : ArchiveStatus(s, replacement)
           \/ UNCHANGED workflowVars
<1> USE DEF workflowVars
<1>1. CASE Administer
  BY <1>1 DEF Administer, CreateStatus, UpdateStatus, ReplaceTransitions, ArchiveStatus
<1>2. CASE ChangeIssue
  BY <1>2 DEF ChangeIssue, BeginCreate, BeginTransition, BeginAssign, BeginUpdate, Begin,
              SetLabels, ArchiveIssue, LoadRules, StartRule, RunAction, CommitIssue
<1>3. CASE ChangeRule
  BY <1>3 DEF ChangeRule, BeginCreateRule, BeginUpdateRule, BeginRule, DeleteRule,
              CommitRule, ReorderRules
<1>4. CASE Rollback
  BY <1>4 DEF Rollback
<1>5. CASE Invalidate
  BY <1>5 DEF Invalidate, DeleteLabel, RevokeUser, RemoveProjectMember,
              DeactivateElsewhere, AdmitUser
<1> QED BY <1>1, <1>2, <1>3, <1>4, <1>5 DEF Next

(* An administrative step keeps the statuses other than s active. *)
LEMMA ActiveKept ==
    ASSUME TypeOK, NEW s \in Statuses,
           \/ \E done \in BOOLEAN : CreateStatus(s, done) \/ UpdateStatus(s, done)
           \/ \E replacement \in Statuses : ArchiveStatus(s, replacement)
    PROVE  /\ \A t \in Statuses : Active(t) /\ t # s => Active(t)'
           /\ (\E done \in BOOLEAN : CreateStatus(s, done) \/ UpdateStatus(s, done)) =>
                 \A t \in Statuses : Active(t) => Active(t)'
           /\ (\E replacement \in Statuses : ArchiveStatus(s, replacement)) =>
                 \A t \in Statuses : t # s => statuses'[t].done = statuses[t].done
<1>1. statuses \in [Statuses -> StatusRow]
  BY DEF TypeOK
<1>2. ASSUME NEW done \in BOOLEAN, CreateStatus(s, done)
      PROVE  \A t \in Statuses : Active(t) => Active(t)'
  BY <1>1, <1>2 DEF CreateStatus, Active
<1>3. ASSUME NEW done \in BOOLEAN, UpdateStatus(s, done)
      PROVE  \A t \in Statuses : Active(t) => Active(t)'
  <2>1. statuses' = [statuses EXCEPT ![s].done = done]
    BY <1>3 DEF UpdateStatus
  <2>2. [statuses[s] EXCEPT !.done = done].stage = statuses[s].stage
    BY <1>1 DEF StatusRow
  <2> QED BY <1>1, <2>1, <2>2 DEF Active
<1>4. ASSUME NEW replacement \in Statuses, ArchiveStatus(s, replacement)
      PROVE  \A t \in Statuses : t # s => statuses'[t] = statuses[t]
  BY <1>1, <1>4 DEF ArchiveStatus
<1> QED BY <1>2, <1>3, <1>4 DEF Active

LEMMA ActiveUnchanged ==
    ASSUME UNCHANGED workflowVars
    PROVE  \A t \in Statuses : Active(t)' = Active(t)
  BY DEF workflowVars, Active

(* Work can always be finished: administration never takes away the last   *)
(* active status of category 'done' (ensureAnotherDoneStatus).             *)
THEOREM DoneStatusStays == Spec => []DoneStatusExists
<1>1. Init => DoneStatusExists
  <2> SUFFICES ASSUME Init PROVE DoneStatusExists
    OBVIOUS
  <2>1. PICK d \in DefaultDone : d \in Statuses /\ d \in Default
    BY ProjectWorkflowAssumption
  <2>2. statuses[d].stage = "active" /\ statuses[d].done
    BY <2>1 DEF Init
  <2> QED BY <2>1, <2>2 DEF DoneStatusExists, ActiveStatuses, Active
<1>2. ASSUME TypeOK, DoneStatusExists, Next PROVE DoneStatusExists'
  <2>1. PICK d \in Statuses : Active(d) /\ statuses[d].done
    BY <1>2 DEF DoneStatusExists, ActiveStatuses
  <2>2. ASSUME NEW s \in Statuses, NEW done \in BOOLEAN, CreateStatus(s, done)
        PROVE DoneStatusExists'
    <3>1. d # s
      BY <2>1, <2>2 DEF CreateStatus, Active
    <3>2. Active(d)' /\ statuses'[d].done
      BY <1>2, <2>1, <2>2, <3>1 DEF CreateStatus, Active, TypeOK
    <3> QED BY <3>2 DEF DoneStatusExists, ActiveStatuses
  <2>3. ASSUME NEW s \in Statuses, NEW done \in BOOLEAN, UpdateStatus(s, done)
        PROVE DoneStatusExists'
    <3>1. PICK e \in Statuses : Active(e) /\ statuses[e].done /\ (e # s \/ done)
      BY <2>1, <2>3 DEF UpdateStatus, AnotherDone, ActiveStatuses
    <3>2. Active(e)'
      BY <1>2, <2>3, <3>1, ActiveKept
    <3>3. statuses'[e].done
      <4>1. statuses \in [Statuses -> StatusRow] /\ statuses' = [statuses EXCEPT ![s].done = done]
        BY <1>2, <2>3 DEF UpdateStatus, TypeOK
      <4>2. [statuses[s] EXCEPT !.done = done].done = done
        BY <4>1 DEF StatusRow
      <4> QED BY <3>1, <4>1, <4>2
    <3> QED BY <3>2, <3>3 DEF DoneStatusExists, ActiveStatuses
  <2>4. ASSUME NEW s \in Statuses, NEW replacement \in Statuses,
               ArchiveStatus(s, replacement)
        PROVE DoneStatusExists'
    <3>1. PICK e \in Statuses : Active(e) /\ statuses[e].done /\ e # s
      BY <2>1, <2>4 DEF ArchiveStatus, AnotherDone, ActiveStatuses
    <3>2. Active(e)' /\ statuses'[e].done
      BY <1>2, <2>4, <3>1, ActiveKept
    <3> QED BY <3>2 DEF DoneStatusExists, ActiveStatuses
  <2>5. ASSUME NEW T \in Workflows, ReplaceTransitions(T)
        PROVE DoneStatusExists'
    BY <2>1, <2>5 DEF ReplaceTransitions, DoneStatusExists, ActiveStatuses, Active
  <2>6. CASE UNCHANGED workflowVars
    BY <2>1, <2>6 DEF workflowVars, DoneStatusExists, ActiveStatuses, Active
  <2> QED BY <1>2, <2>2, <2>3, <2>4, <2>5, <2>6, StepKinds
<1>3. DoneStatusExists /\ UNCHANGED vars => DoneStatusExists'
  BY DEF vars, DoneStatusExists, ActiveStatuses, Active
<1> QED BY <1>1, <1>2, <1>3, TypeCorrect, PTL DEF Spec

(* No transition ever leads from or to an archived status. *)
THEOREM TransitionsStayLive == Spec => []TransitionsLive
<1>1. Init => TransitionsLive
  BY ProjectWorkflowAssumption DEF Init, TransitionsLive, Active
<1>2. ASSUME TypeOK, TransitionsLive, Next PROVE TransitionsLive'
  <2> USE DEF TransitionsLive
  <2>1. \A t \in transitions : t[1] \in Statuses /\ t[2] \in Statuses
    BY <1>2 DEF TypeOK
  <2>2. ASSUME NEW s \in Statuses, NEW done \in BOOLEAN,
               CreateStatus(s, done) \/ UpdateStatus(s, done)
        PROVE TransitionsLive'
    <3>1. transitions' = transitions
      BY <2>2 DEF CreateStatus, UpdateStatus
    <3>2. \A t \in Statuses : Active(t) => Active(t)'
      BY <1>2, <2>2, ActiveKept
    <3> QED BY <1>2, <2>1, <3>1, <3>2
  <2>3. ASSUME NEW T \in Workflows, ReplaceTransitions(T)
        PROVE TransitionsLive'
    BY <2>3 DEF ReplaceTransitions, Active
  <2>4. ASSUME NEW s \in Statuses, NEW replacement \in Statuses,
               ArchiveStatus(s, replacement)
        PROVE TransitionsLive'
    <3>1. \A t \in transitions' : t \in transitions /\ t[1] # s /\ t[2] # s
      BY <2>4 DEF ArchiveStatus
    <3>2. \A t \in Statuses : Active(t) /\ t # s => Active(t)'
      BY <1>2, <2>4, ActiveKept
    <3> QED BY <1>2, <2>1, <3>1, <3>2
  <2>5. CASE UNCHANGED workflowVars
    BY <1>2, <2>5 DEF workflowVars, Active
  <2> QED BY <1>2, <2>2, <2>3, <2>4, <2>5, StepKinds
<1>3. TransitionsLive /\ UNCHANGED vars => TransitionsLive'
  BY DEF vars, TransitionsLive, Active
<1> QED BY <1>1, <1>2, <1>3, TypeCorrect, PTL DEF Spec

----------------------------------------------------------------------------
(* Steps outside administration, by what they do to issues and to the run. *)
BeginSteps ==
    \E i \in Issues :
       \/ \E f \in Fields : BeginCreate(i, f)
       \/ \E s \in Statuses : BeginTransition(i, s)
       \/ \E u \in Users \cup {Nobody} : BeginAssign(i, u)
       \/ BeginUpdate(i)

(* What the run and the log of an issue depend on stays as it was. *)
IssuesKept ==
    /\ \A i \in Issues : /\ stage'[i] # "none" => stage[i] # "none"
                         /\ issues'[i].status = issues[i].status
                         /\ logged'[i] = logged[i]
    /\ \/ phase' \notin {"changed", "running"}
       \/ phase' = phase /\ run' = run

LEMMA IssueSteps ==
    ASSUME TypeOK, Next, UNCHANGED workflowVars
    PROVE  \/ BeginSteps \/ LoadRules \/ StartRule \/ RunAction \/ CommitIssue
           \/ IssuesKept
<1>1. ASSUME NEW i \in Issues, NEW L \in SUBSET Labels, SetLabels(i, L)
      PROVE  IssuesKept
  <2>1. \A j \in Issues : issues'[j].status = issues[j].status
    <3>1. issues \in [Issues -> Fields] /\ issues' = [issues EXCEPT ![i].labels = L]
      BY <1>1 DEF SetLabels, TypeOK
    <3>2. [issues[i] EXCEPT !.labels = L].status = issues[i].status
      BY <3>1 DEF Fields
    <3> QED BY <3>1, <3>2
  <2> QED BY <1>1, <2>1 DEF SetLabels, IssuesKept
<1>2. ASSUME NEW i \in Issues, ArchiveIssue(i)
      PROVE  IssuesKept
  BY <1>2 DEF ArchiveIssue, Open, TypeOK, IssuesKept
<1>3. ASSUME NEW l \in Labels, DeleteLabel(l)
      PROVE  IssuesKept
  <2>1. \A j \in Issues : issues'[j].status = issues[j].status
    <3>1. /\ issues \in [Issues -> Fields]
          /\ issues' = [i \in Issues |-> [issues[i] EXCEPT !.labels = @ \ {l}]]
      BY <1>3 DEF DeleteLabel, TypeOK
    <3>2. \A j \in Issues : [issues[j] EXCEPT !.labels = @ \ {l}].status = issues[j].status
      BY <3>1 DEF Fields
    <3> QED BY <3>1, <3>2
  <2> QED BY <1>3, <2>1 DEF DeleteLabel, IssuesKept
<1>4. CASE ChangeRule \/ Rollback
  BY <1>4 DEF ChangeRule, Rollback, BeginCreateRule, BeginUpdateRule, BeginRule, DeleteRule,
              CommitRule, ReorderRules, EndTransaction, issueVars, IssuesKept
<1>5. ASSUME NEW u \in Users,
             RevokeUser(u) \/ DeactivateElsewhere(u) \/ AdmitUser(u)
      PROVE  IssuesKept
  BY <1>5 DEF RevokeUser, DeactivateElsewhere, AdmitUser, issueVars, IssuesKept
<1>6. CASE Administer
  <2>1. ASSUME NEW s \in Statuses, NEW replacement \in Statuses,
               ArchiveStatus(s, replacement)
        PROVE  FALSE
    <3>1. statuses \in [Statuses -> StatusRow] /\ statuses[s].stage = "active"
      BY <2>1 DEF ArchiveStatus, Active, TypeOK
    <3>2. statuses'[s].stage = "archived"
      BY <2>1, <3>1 DEF ArchiveStatus, StatusRow
    <3> QED BY <3>1, <3>2 DEF workflowVars
  <2>2. ASSUME NEW s \in Statuses, NEW done \in BOOLEAN,
               CreateStatus(s, done) \/ UpdateStatus(s, done)
        PROVE  IssuesKept
    BY <2>2 DEF CreateStatus, UpdateStatus, issueVars, IssuesKept
  <2>3. ASSUME NEW T \in Workflows, ReplaceTransitions(T)
        PROVE  IssuesKept
    BY <2>3 DEF ReplaceTransitions, issueVars, IssuesKept
  <2> QED BY <1>6, <2>1, <2>2, <2>3 DEF Administer
<1> QED BY <1>1, <1>2, <1>3, <1>4, <1>5, <1>6
        DEF Next, ChangeIssue, Invalidate, RemoveProjectMember, BeginSteps

----------------------------------------------------------------------------
(* No issue is left on a status that is gone.  The inductive invariant     *)
(* adds the issue in transit: its current status is active as long as the  *)
(* transaction holds the project lock.                                     *)
InTransit == phase \in {"changed", "running"}

IssuesActive ==
    /\ IssuesOnActiveStatus
    /\ InTransit => Active(run.current.status)

THEOREM IssuesStayOnActiveStatuses == Spec => []IssuesOnActiveStatus
<1>1. Init => IssuesActive
  BY DEF Init, IssuesActive, IssuesOnActiveStatus, InTransit
<1>2. ASSUME TypeOK, IssuesActive, Next PROVE IssuesActive'
  <2> USE DEF IssuesActive, IssuesOnActiveStatus, InTransit
  <2>1. issues \in [Issues -> Fields] /\ statuses \in [Statuses -> StatusRow]
    BY <1>2 DEF TypeOK
  <2>2. \A i \in Issues : issues[i].status \in Statuses
    BY <2>1, FieldsAccess
  <2>3. ASSUME NEW s \in Statuses, NEW done \in BOOLEAN,
               CreateStatus(s, done) \/ UpdateStatus(s, done)
        PROVE IssuesActive'
    <3>1. UNCHANGED <<stage, issues>> /\ phase' = "free"
      BY <2>3 DEF CreateStatus, UpdateStatus, issueVars
    <3>2. \A t \in Statuses : Active(t) => Active(t)'
      BY <1>2, <2>3, ActiveKept
    <3> QED BY <1>2, <2>2, <3>1, <3>2 DEF Active
  <2>4. ASSUME NEW T \in Workflows, ReplaceTransitions(T)
        PROVE IssuesActive'
    BY <1>2, <2>4 DEF ReplaceTransitions, issueVars, Active
  <2>5. ASSUME NEW s \in Statuses, NEW replacement \in Statuses,
               ArchiveStatus(s, replacement)
        PROVE IssuesActive'
    <3>1. phase' = "free" /\ stage' = stage /\ replacement # s /\ Active(replacement)
      BY <2>5 DEF ArchiveStatus
    <3>2. \A t \in Statuses : Active(t) /\ t # s => Active(t)'
      BY <1>2, <2>5, ActiveKept
    <3>3. ASSUME NEW i \in Issues, stage[i] # "none"
          PROVE  issues'[i].status \in Statuses \ {s} /\ Active(issues'[i].status)
      <4>1. CASE issues[i].status = s
        <5>1. issues'[i] = [issues[i] EXCEPT !.status = replacement]
          BY <2>1, <2>5, <3>3, <4>1 DEF ArchiveStatus, OnStatus
        <5>2. [issues[i] EXCEPT !.status = replacement].status = replacement
          BY <2>1 DEF Fields
        <5> QED BY <3>1, <5>1, <5>2
      <4>2. CASE issues[i].status # s
        <5>1. issues'[i] = issues[i]
          BY <2>1, <2>5, <4>2 DEF ArchiveStatus, OnStatus
        <5> QED BY <1>2, <2>2, <3>3, <4>2, <5>1
      <4> QED BY <4>1, <4>2
    <3> QED BY <3>1, <3>2, <3>3 DEF Active
  <2>6. CASE UNCHANGED workflowVars
    <3>1. \A t : Active(t)' = Active(t)
      BY <2>6 DEF workflowVars, Active
    <3>2. CASE BeginSteps
      <4>1. ASSUME NEW i \in Issues, NEW fields \in Fields, NEW trigger \in Triggers,
                   NEW trail \in Statuses, NEW unbroken \in BOOLEAN,
                   Begin(i, trigger, fields, trail, unbroken), Active(fields.status)
            PROVE  IssuesActive'
        BY <1>2, <3>1, <4>1, BeginType DEF Begin, issueVars, Active
      <4>2. ASSUME NEW i \in Issues, NEW f \in Fields, BeginCreate(i, f)
            PROVE  IssuesActive'
        BY <4>1, <4>2, FieldsAccess DEF BeginCreate, Triggers
      <4>3. ASSUME NEW i \in Issues, NEW s \in Statuses, BeginTransition(i, s)
            PROVE  IssuesActive'
        <5>1. [issues[i] EXCEPT !.status = s] \in Fields
          BY <2>1, FieldsUpdated
        <5>2. [issues[i] EXCEPT !.status = s].status = s
          BY <2>1 DEF Fields
        <5> QED BY <4>1, <4>3, <5>1, <5>2 DEF BeginTransition, Triggers, Active
      <4>4. ASSUME NEW i \in Issues, NEW u \in Users \cup {Nobody}, BeginAssign(i, u)
            PROVE  IssuesActive'
        <5>1. [issues[i] EXCEPT !.assignee = u] \in Fields /\ logged[i] \in Statuses
          BY <1>2, <2>1, FieldsUpdated DEF TypeOK
        <5>2. [issues[i] EXCEPT !.assignee = u].status = issues[i].status
          BY <2>1 DEF Fields
        <5>3. Active(issues[i].status)
          BY <1>2, <4>4 DEF BeginAssign, Open
        <5> QED BY <4>1, <4>4, <5>1, <5>2, <5>3 DEF BeginAssign, Triggers, Active
      <4>5. ASSUME NEW i \in Issues, BeginUpdate(i)
            PROVE  IssuesActive'
        <5>1. Active(issues[i].status) /\ logged[i] \in Statuses
          BY <1>2, <4>5 DEF BeginUpdate, Open, TypeOK
        <5> QED BY <2>1, <4>1, <4>5, <5>1 DEF BeginUpdate, Triggers
      <4> QED BY <3>2, <4>2, <4>3, <4>4, <4>5 DEF BeginSteps
    <3>3. CASE LoadRules
      BY <1>2, <3>1, <3>3, LoadRulesType DEF LoadRules, issueVars, Active
    <3>4. CASE StartRule
      <4>1. run'.current = run.current
        BY <1>2, <3>4, StartRuleType
      <4>2. phase = "running" /\ UNCHANGED <<stage, issues>>
        BY <3>4 DEF StartRule, issueVars
      <4> QED BY <1>2, <3>1, <4>1, <4>2 DEF Active
    <3>5. CASE RunAction
      BY <1>2, <3>1, <3>5, RunActionType DEF RunAction, issueVars, Active
    <3>6. CASE CommitIssue
      <4>1. run \in Run /\ run.current \in Fields /\ Active(run.current.status)
        BY <1>2, <3>6, RunFields DEF CommitIssue, TypeOK
      <4>2. [run.current EXCEPT !.labels = @ \cap labels].status = run.current.status
        BY <4>1 DEF Fields
      <4>3. \A i \in Issues : \/ issues'[i] = issues[i] /\ stage'[i] = stage[i]
                              \/ issues'[i].status = run.current.status
        BY <1>2, <3>6, <4>2 DEF CommitIssue, TypeOK
      <4> QED BY <1>2, <3>1, <3>6, <4>1, <4>3 DEF CommitIssue, EndTransaction, Active
    <3>7. CASE IssuesKept
      <4>1. \A i \in Issues : stage'[i] # "none" => Active(issues'[i].status)
        BY <1>2, <3>7 DEF IssuesKept, Active
      <4>2. InTransit' => Active(run'.current.status)
        BY <1>2, <3>7 DEF IssuesKept, Active
      <4> QED BY <3>1, <4>1, <4>2 DEF Active
    <3> QED BY <1>2, <2>6, <3>2, <3>3, <3>4, <3>5, <3>6, <3>7, IssueSteps
  <2> QED BY <1>2, <2>3, <2>4, <2>5, <2>6, StepKinds
<1>3. IssuesActive /\ UNCHANGED vars => IssuesActive'
  BY DEF vars, IssuesActive, IssuesOnActiveStatus, InTransit, Active
<1>4. IssuesActive => IssuesOnActiveStatus
  BY DEF IssuesActive
<1> QED BY <1>1, <1>2, <1>3, <1>4, TypeCorrect, PTL DEF Spec

----------------------------------------------------------------------------
(* The activity log explains the status.  The inductive invariant says     *)
(* where the log of the issue in transit has got to: at its current status *)
(* between rules, at the status before the rule while one is being run.    *)
LogFollows ==
    /\ run.unbroken
    /\ run.trail = IF run.actions = <<>> THEN run.current.status ELSE run.before.status
    /\ phase = "changed" => run.actions = <<>>

ActivityInv ==
    /\ ActivityExplainsStatus
    /\ InTransit => LogFollows

THEOREM ActivityIsComplete == Spec => []ActivityExplainsStatus
<1>1. Init => ActivityInv
  BY DEF Init, ActivityInv, ActivityExplainsStatus, InTransit
<1>2. ASSUME TypeOK, ActivityInv, Next PROVE ActivityInv'
  <2> USE DEF ActivityInv, ActivityExplainsStatus, InTransit
  <2>1. issues \in [Issues -> Fields] /\ logged \in [Issues -> Statuses]
    BY <1>2 DEF TypeOK
  <2>2. ASSUME NEW s \in Statuses, NEW done \in BOOLEAN,
               CreateStatus(s, done) \/ UpdateStatus(s, done)
        PROVE ActivityInv'
    <3>1. UNCHANGED <<stage, issues, logged>> /\ phase' = "free"
      BY <2>2 DEF CreateStatus, UpdateStatus, issueVars
    <3> QED BY <1>2, <3>1
  <2>3. ASSUME NEW T \in Workflows, ReplaceTransitions(T)
        PROVE ActivityInv'
    <3>1. UNCHANGED <<stage, issues, logged>> /\ phase' = "free"
      BY <2>3 DEF ReplaceTransitions, issueVars
    <3> QED BY <1>2, <3>1
  <2>4. ASSUME NEW s \in Statuses, NEW replacement \in Statuses,
               ArchiveStatus(s, replacement)
        PROVE ActivityInv'
    <3>1. phase' = "free" /\ stage' = stage
      BY <2>4 DEF ArchiveStatus
    <3>2. ASSUME NEW i \in Issues, stage[i] # "none"
          PROVE  logged'[i] = issues'[i].status
      <4>1. CASE issues[i].status = s
        <5>1. logged'[i] = replacement /\ issues'[i] = [issues[i] EXCEPT !.status = replacement]
          BY <2>1, <2>4, <3>2, <4>1 DEF ArchiveStatus, OnStatus
        <5>2. [issues[i] EXCEPT !.status = replacement].status = replacement
          BY <2>1 DEF Fields
        <5> QED BY <5>1, <5>2
      <4>2. CASE issues[i].status # s
        <5>1. logged'[i] = logged[i] /\ issues'[i] = issues[i]
          BY <2>1, <2>4, <4>2 DEF ArchiveStatus, OnStatus
        <5> QED BY <1>2, <3>2, <5>1
      <4> QED BY <4>1, <4>2
    <3> QED BY <3>1, <3>2
  <2>5. CASE UNCHANGED workflowVars
    <3>1. ASSUME NEW i \in Issues, NEW fields \in Fields, NEW trigger \in Triggers,
                 NEW trail \in Statuses, trail = fields.status,
                 NEW unbroken \in BOOLEAN, unbroken,
                 Begin(i, trigger, fields, trail, unbroken)
          PROVE  ActivityInv'
      <4>1. UNCHANGED <<stage, issues, logged>>
        BY <3>1 DEF Begin, issueVars
      <4>2. LogFollows'
        <5>1. /\ run'.current = fields /\ run'.actions = <<>>
              /\ run'.trail = trail /\ run'.unbroken = unbroken
          BY <1>2, <3>1, BeginType
        <5> QED BY <3>1, <5>1 DEF LogFollows
      <4> QED BY <1>2, <4>1, <4>2 DEF LogFollows
    <3>2. CASE BeginSteps
      <4>1. ASSUME NEW i \in Issues, NEW f \in Fields, BeginCreate(i, f)
            PROVE  ActivityInv'
        BY <3>1, <4>1, FieldsAccess DEF BeginCreate, Triggers
      <4>2. ASSUME NEW i \in Issues, NEW s \in Statuses, BeginTransition(i, s)
            PROVE  ActivityInv'
        <5>1. [issues[i] EXCEPT !.status = s] \in Fields
          BY <2>1, FieldsUpdated
        <5>2. [issues[i] EXCEPT !.status = s].status = s
          BY <2>1 DEF Fields
        <5>3. issues[i].status = logged[i]
          BY <1>2, <4>2 DEF BeginTransition, Open
        <5> QED BY <3>1, <4>2, <5>1, <5>2, <5>3 DEF BeginTransition, Triggers
      <4>3. ASSUME NEW i \in Issues, NEW u \in Users \cup {Nobody}, BeginAssign(i, u)
            PROVE  ActivityInv'
        <5>1. [issues[i] EXCEPT !.assignee = u] \in Fields
          BY <2>1, FieldsUpdated
        <5>2. [issues[i] EXCEPT !.assignee = u].status = logged[i]
          BY <1>2, <2>1, <4>3 DEF Fields, BeginAssign, Open
        <5> QED BY <2>1, <3>1, <4>3, <5>1, <5>2 DEF BeginAssign, Triggers
      <4>4. ASSUME NEW i \in Issues, BeginUpdate(i)
            PROVE  ActivityInv'
        <5>1. issues[i].status = logged[i]
          BY <1>2, <4>4 DEF BeginUpdate, Open
        <5> QED BY <2>1, <3>1, <4>4, <5>1 DEF BeginUpdate, Triggers
      <4> QED BY <3>2, <4>1, <4>2, <4>3, <4>4 DEF BeginSteps
    <3>3. CASE LoadRules
      <4>1. UNCHANGED <<stage, issues, logged>> /\ phase = "changed" /\ phase' = "running"
        BY <3>3 DEF LoadRules, issueVars
      <4>2. LogFollows'
        BY <1>2, <3>3, <4>1, LoadRulesType DEF LogFollows
      <4> QED BY <1>2, <4>1, <4>2 DEF LogFollows
    <3>4. CASE StartRule
      <4>1. UNCHANGED <<stage, issues, logged, phase>> /\ phase = "running" /\ run.actions = <<>>
        BY <3>4 DEF StartRule, issueVars
      <4>2. LogFollows'
        BY <1>2, <3>4, <4>1, StartRuleType DEF LogFollows
      <4> QED BY <1>2, <4>1, <4>2 DEF LogFollows
    <3>5. CASE RunAction
      <4>1. UNCHANGED <<stage, issues, logged, phase>> /\ phase = "running" /\ run.actions # <<>>
        BY <3>5 DEF RunAction, issueVars
      <4>2. LogFollows'
        BY <1>2, <3>5, <4>1, RunActionType DEF LogFollows
      <4> QED BY <1>2, <4>1, <4>2 DEF LogFollows
    <3>6. CASE CommitIssue
      <4>1. run \in Run /\ run.current \in Fields /\ run.trail = run.current.status
        BY <1>2, <3>6, RunFields DEF CommitIssue, TypeOK, LogFollows
      <4>2. [run.current EXCEPT !.labels = @ \cap labels].status = run.current.status
        BY <4>1 DEF Fields
      <4>3. ASSUME NEW i \in Issues, stage'[i] # "none"
            PROVE  logged'[i] = issues'[i].status
        <5>1. CASE i = run.issue
          BY <2>1, <3>6, <4>1, <4>2, <5>1 DEF CommitIssue
        <5>2. CASE i # run.issue
          <6>1. stage'[i] = stage[i] /\ issues'[i] = issues[i] /\ logged'[i] = logged[i]
            BY <1>2, <2>1, <3>6, <5>2 DEF CommitIssue, TypeOK
          <6> QED BY <1>2, <4>3, <6>1
        <5> QED BY <5>1, <5>2
      <4> QED BY <3>6, <4>3 DEF CommitIssue, EndTransaction
    <3>7. CASE IssuesKept
      <4>1. \A i \in Issues : stage'[i] # "none" => logged'[i] = issues'[i].status
        BY <1>2, <3>7 DEF IssuesKept
      <4> QED BY <1>2, <3>7, <4>1 DEF IssuesKept, LogFollows
    <3> QED BY <1>2, <2>5, <3>2, <3>3, <3>4, <3>5, <3>6, <3>7, IssueSteps
  <2> QED BY <1>2, <2>2, <2>3, <2>4, <2>5, StepKinds
<1>3. ActivityInv /\ UNCHANGED vars => ActivityInv'
  BY DEF vars, ActivityInv, ActivityExplainsStatus, InTransit, LogFollows
<1>4. ActivityInv => ActivityExplainsStatus
  BY DEF ActivityInv
<1> QED BY <1>1, <1>2, <1>3, <1>4, TypeCorrect, PTL DEF Spec

----------------------------------------------------------------------------
(* Paths of the workflow: a status leads to itself, and what one           *)
(* transition, or an applicable action, adds to a path is a path.          *)
LEMMA PathsGrow ==
    ASSUME NEW s \in Statuses
    PROVE  /\ LeadsTo(s, s)
           /\ \A u, w \in Statuses : LeadsTo(s, u) /\ <<u, w>> \in transitions => LeadsTo(s, w)
  BY DEF LeadsTo, Closed

LEMMA ApplyingFollowsPaths ==
    ASSUME TypeOK, NEW s \in Statuses, NEW f \in Fields, NEW a \in Action,
           Applicable(f, a), LeadsTo(s, f.status)
    PROVE  LeadsTo(s, Applied(f, a).status)
<1>1. CASE a.field = "status"
  <2>1. Applied(f, a).status = a.value /\ a.value \in Statuses
    BY <1>1 DEF Applied, Fields, Applicable, ActiveStatuses
  <2>2. a.value = f.status \/ <<f.status, a.value>> \in transitions
    BY <1>1 DEF Applicable
  <2> QED BY <2>1, <2>2, PathsGrow, FieldsAccess
<1>2. CASE a.field # "status"
  <2>1. Applied(f, a).status = f.status
    BY <1>2 DEF Applied, Fields
  <2> QED BY <2>1
<1> QED BY <1>1, <1>2

LEMMA PathsKept ==
    ASSUME UNCHANGED workflowVars
    PROVE  \A s, u : LeadsTo(s, u)' = LeadsTo(s, u)
  BY DEF workflowVars, LeadsTo, Closed

(* A status changes only along the transitions of the workflow, or because *)
(* it is archived.  The inductive invariant is about the issue in transit: *)
(* the workflow leads from the status that is stored to the one the run    *)
(* has reached, and nobody replaces the transitions meanwhile.             *)
OnItsWay ==
    InTransit /\ stage[run.issue] # "none" =>
        LeadsTo(issues[run.issue].status, run.current.status)

THEOREM StatusesFollowTheWorkflow == Spec => StatusMovesAreAllowed
<1> DEFINE Moves ==
        \A i \in Issues :
          stage[i] # "none" /\ issues'[i].status # issues[i].status =>
             \/ LeadsTo(issues[i].status, issues'[i].status)
             \/ Active(issues[i].status) /\ statuses'[issues[i].status].stage = "archived"
<1>1. Init => OnItsWay
  BY DEF Init, OnItsWay, InTransit
<1>2. ASSUME TypeOK, OnItsWay, Next PROVE OnItsWay' /\ Moves
  <2> USE DEF OnItsWay, InTransit
  <2>1. issues \in [Issues -> Fields] /\ statuses \in [Statuses -> StatusRow]
    BY <1>2 DEF TypeOK
  <2>2. \A i \in Issues : issues[i].status \in Statuses
    BY <2>1, FieldsAccess
  <2>3. ASSUME NEW s \in Statuses, NEW done \in BOOLEAN,
               CreateStatus(s, done) \/ UpdateStatus(s, done)
        PROVE  OnItsWay' /\ Moves
    BY <2>3 DEF CreateStatus, UpdateStatus, issueVars
  <2>4. ASSUME NEW T \in Workflows, ReplaceTransitions(T)
        PROVE  OnItsWay' /\ Moves
    BY <2>4 DEF ReplaceTransitions, issueVars
  <2>5. ASSUME NEW s \in Statuses, NEW replacement \in Statuses,
               ArchiveStatus(s, replacement)
        PROVE  OnItsWay' /\ Moves
    <3>1. phase' = "free"
      BY <2>5 DEF ArchiveStatus
    <3>2. statuses'[s].stage = "archived" /\ Active(s)
      BY <2>1, <2>5 DEF ArchiveStatus, StatusRow
    <3>3. \A i \in Issues : issues[i].status # s => issues'[i] = issues[i]
      BY <2>1, <2>5 DEF ArchiveStatus, OnStatus
    <3> QED BY <3>1, <3>2, <3>3
  <2>6. CASE UNCHANGED workflowVars
    <3>1. \A s, u : LeadsTo(s, u)' = LeadsTo(s, u)
      BY <2>6, PathsKept
    <3>2. CASE BeginSteps
      <4>1. ASSUME NEW i \in Issues, NEW fields \in Fields, NEW trigger \in Triggers,
                   NEW trail \in Statuses, NEW unbroken \in BOOLEAN,
                   Begin(i, trigger, fields, trail, unbroken),
                   stage[i] # "none" => LeadsTo(issues[i].status, fields.status)
            PROVE  OnItsWay' /\ Moves
        BY <1>2, <3>1, <4>1, BeginType DEF Begin, issueVars
      <4>2. ASSUME NEW i \in Issues, NEW f \in Fields, BeginCreate(i, f)
            PROVE  OnItsWay' /\ Moves
        BY <4>1, <4>2, FieldsAccess DEF BeginCreate, Triggers
      <4>3. ASSUME NEW i \in Issues, NEW s \in Statuses, BeginTransition(i, s)
            PROVE  OnItsWay' /\ Moves
        <5>1. [issues[i] EXCEPT !.status = s] \in Fields
          BY <2>1, FieldsUpdated
        <5>2. [issues[i] EXCEPT !.status = s].status = s
          BY <2>1 DEF Fields
        <5>3. LeadsTo(issues[i].status, s)
          BY <2>2, <4>3, PathsGrow DEF BeginTransition
        <5> QED BY <4>1, <4>3, <5>1, <5>2, <5>3 DEF BeginTransition, Triggers
      <4>4. ASSUME NEW i \in Issues, NEW u \in Users \cup {Nobody}, BeginAssign(i, u)
            PROVE  OnItsWay' /\ Moves
        <5>1. [issues[i] EXCEPT !.assignee = u] \in Fields /\ logged[i] \in Statuses
          BY <1>2, <2>1, FieldsUpdated DEF TypeOK
        <5>2. [issues[i] EXCEPT !.assignee = u].status = issues[i].status
          BY <2>1 DEF Fields
        <5> QED BY <2>2, <4>1, <4>4, <5>1, <5>2, PathsGrow DEF BeginAssign, Triggers
      <4>5. ASSUME NEW i \in Issues, BeginUpdate(i)
            PROVE  OnItsWay' /\ Moves
        <5>1. logged[i] \in Statuses
          BY <1>2 DEF TypeOK
        <5> QED BY <2>1, <2>2, <4>1, <4>5, <5>1, PathsGrow DEF BeginUpdate, Triggers
      <4> QED BY <3>2, <4>2, <4>3, <4>4, <4>5 DEF BeginSteps
    <3>3. CASE LoadRules
      <4>1. UNCHANGED <<stage, issues>> /\ phase = "changed"
        BY <3>3 DEF LoadRules, issueVars
      <4>2. run'.issue = run.issue
        BY <1>2, <3>3, LoadRulesType
      <4> QED BY <1>2, <3>1, <3>3, <4>1, <4>2, LoadRulesType
    <3>4. CASE StartRule
      <4>1. UNCHANGED <<stage, issues, phase>>
        BY <3>4 DEF StartRule, issueVars
      <4> QED BY <1>2, <3>1, <3>4, <4>1, StartRuleType
    <3>5. CASE RunAction
      <4>1. UNCHANGED <<stage, issues>> /\ phase = "running" /\ run.actions # <<>>
        BY <3>5 DEF RunAction, issueVars
      <4>2. run \in Run /\ run.current \in Fields /\ run.actions \in Seq(Action)
        BY <1>2, <4>1, RunFields DEF TypeOK
      <4>3. /\ run'.issue = run.issue
            /\ run'.current = Applied(run.current, Head(run.actions))
        BY <1>2, <3>5, RunActionType
      <4>4. Head(run.actions) \in Action /\ Applicable(run.current, Head(run.actions))
        BY <3>5, <4>1, <4>2 DEF RunAction
      <4>5. run.issue \in Issues /\ issues[run.issue].status \in Statuses
        BY <2>2, <4>2, RunFields
      <4> QED BY <1>2, <3>1, <4>1, <4>2, <4>3, <4>4, <4>5, ApplyingFollowsPaths
    <3>6. CASE CommitIssue
      <4>1. run \in Run /\ run.current \in Fields /\ phase = "running" /\ phase' = "free"
        BY <1>2, <3>6, RunFields DEF CommitIssue, EndTransaction, TypeOK
      <4>2. [run.current EXCEPT !.labels = @ \cap labels].status = run.current.status
        BY <4>1 DEF Fields
      <4>3. \A i \in Issues : IF i = run.issue THEN issues'[i].status = run.current.status
                                               ELSE issues'[i] = issues[i]
        BY <2>1, <3>6, <4>2 DEF CommitIssue
      <4> QED BY <1>2, <4>1, <4>3
    <3>7. CASE IssuesKept
      BY <1>2, <3>1, <3>7, RunFields DEF IssuesKept, TypeOK
    <3> QED BY <1>2, <2>6, <3>2, <3>3, <3>4, <3>5, <3>6, <3>7, IssueSteps
  <2> HIDE DEF Moves
  <2> QED BY <1>2, <2>3, <2>4, <2>5, <2>6, StepKinds
<1>3. OnItsWay /\ UNCHANGED vars => OnItsWay'
  BY DEF vars, OnItsWay, InTransit, LeadsTo, Closed
<1>4. TypeOK /\ OnItsWay /\ [Next]_vars =>
        [\A i \in Issues :
           stage[i] # "none" /\ issues'[i].status # issues[i].status =>
             \/ LeadsTo(issues[i].status, issues'[i].status)
             \/ Active(issues[i].status) /\ statuses'[issues[i].status].stage = "archived"]_vars
  BY <1>2
<1> HIDE DEF Moves
<1> QED BY <1>1, <1>2, <1>3, <1>4, TypeCorrect, PTL DEF Spec, StatusMovesAreAllowed

----------------------------------------------------------------------------
(* What applyAction does to the fields: the action has its effect, what    *)
(* has another target keeps its own, and what it does not mention stays.   *)
LEMMA AppliedHasEffect ==
    ASSUME NEW f \in Fields, NEW a \in Action
    PROVE  HasEffect(Applied(f, a), a)
<1>1. CASE a.field = "status"
  BY <1>1 DEF Applied, HasEffect, Fields
<1>2. CASE a.field = "assignee"
  BY <1>2 DEF Applied, HasEffect, Fields
<1>3. CASE a.field = "add label"
  BY <1>3 DEF Applied, HasEffect, Fields
<1>4. CASE a.field = "remove label"
  BY <1>4 DEF Applied, HasEffect, Fields
<1> QED BY <1>1, <1>2, <1>3, <1>4 DEF Action

LEMMA AppliedKeepsTheRest ==
    ASSUME NEW f \in Fields, NEW a \in Action
    PROVE  /\ a.field # "status" => Applied(f, a).status = f.status
           /\ a.field # "assignee" => Applied(f, a).assignee = f.assignee
           /\ \A l : ~SetsLabel(a, l) => (l \in Applied(f, a).labels <=> l \in f.labels)
<1>1. CASE a.field = "status"
  BY <1>1 DEF Applied, Fields
<1>2. CASE a.field = "assignee"
  BY <1>2 DEF Applied, Fields
<1>3. CASE a.field = "add label"
  BY <1>3 DEF Applied, Fields, SetsLabel
<1>4. CASE a.field = "remove label"
  BY <1>4 DEF Applied, Fields, SetsLabel
<1> QED BY <1>1, <1>2, <1>3, <1>4 DEF Action

LEMMA OtherEffectsStay ==
    ASSUME NEW f \in Fields, NEW a \in Action, NEW b \in Action,
           HasEffect(f, b), ~SameTarget(b, a)
    PROVE  HasEffect(Applied(f, a), b)
<1>1. CASE b.field = "status"
  BY <1>1, AppliedKeepsTheRest DEF HasEffect, SameTarget
<1>2. CASE b.field = "assignee"
  BY <1>2, AppliedKeepsTheRest DEF HasEffect, SameTarget
<1>3. CASE b.field \in {"add label", "remove label"}
  BY <1>3, AppliedKeepsTheRest DEF HasEffect, SameTarget, SetsLabel
<1> QED BY <1>1, <1>2, <1>3 DEF Action

(* The actions rule n contributes to the run. *)
EffectOf(n) == IF n \in run.selected /\ MatchesConditions(run.snapshot, run.loaded[n])
               THEN run.loaded[n].actions ELSE <<>>

(* The run has performed all actions of the rules before c, and the first  *)
(* j of rule c.                                                            *)
UpTo(c, j) == {p \in Effects : p[1] < c \/ (p[1] = c /\ p[2] <= j)}

ReachedAt(c, j) ==
    /\ run.queue = {n \in run.selected : n > c}
    /\ Len(run.actions) = Len(EffectOf(c)) - j
    /\ \A m \in 1..Len(run.actions) : run.actions[m] = EffectOf(c)[j + m]
    /\ Outcome(UpTo(c, j))

RunsInOrder ==
    /\ phase = "changed" => run.actions = <<>>
    /\ phase = "running" => /\ run.selected \subseteq 1..Len(run.loaded)
                            /\ \E c, j \in Nat : ReachedAt(c, j)

LEMMA EffectPlaces ==
    ASSUME TypeOK, phase = "running", run.selected \subseteq 1..Len(run.loaded)
    PROVE  /\ \A n : EffectOf(n) \in Seq(Action)
           /\ \A p \in Effects : /\ p = <<p[1], p[2]>>
                                 /\ p[1] \in run.selected /\ p[1] \in Nat
                                 /\ p[2] \in 1..Len(EffectOf(p[1]))
                                 /\ ActionAt(p) \in Action
           /\ \A n : \A k \in 1..Len(EffectOf(n)) :
                 /\ <<n, k>> \in Effects
                 /\ ActionAt(<<n, k>>) = EffectOf(n)[k]
<1>1. run \in Run /\ run.loaded \in Seq(Definitions) /\ run.selected \in SUBSET Nat
  BY RunFields DEF TypeOK
<1>2. \A n \in run.selected : run.loaded[n] \in Definitions
  BY <1>1
<1>3. \A n \in run.selected : run.loaded[n].actions \in Seq(Action)
  BY <1>2, DefinitionFields
<1>4. \A n : EffectOf(n) \in Seq(Action)
  BY <1>3 DEF EffectOf
<1>5. ASSUME NEW p \in Effects
      PROVE  /\ p = <<p[1], p[2]>>
             /\ p[1] \in run.selected /\ p[1] \in Nat
             /\ p[2] \in 1..Len(EffectOf(p[1]))
             /\ ActionAt(p) \in Action
  <2>1. PICK n \in run.selected :
           /\ MatchesConditions(run.snapshot, run.loaded[n])
           /\ \E k \in 1..Len(run.loaded[n].actions) : p = <<n, k>>
    BY <1>5 DEF Effects
  <2>2. EffectOf(n) = run.loaded[n].actions
    BY <2>1 DEF EffectOf
  <2>3. PICK k \in 1..Len(run.loaded[n].actions) : p = <<n, k>>
    BY <2>1
  <2>4. run.loaded[n].actions[k] \in Action
    BY <1>3
  <2> QED BY <1>1, <2>2, <2>3, <2>4 DEF ActionAt
<1>6. ASSUME NEW n, NEW k \in 1..Len(EffectOf(n))
      PROVE  <<n, k>> \in Effects /\ ActionAt(<<n, k>>) = EffectOf(n)[k]
  <2>1. n \in run.selected /\ MatchesConditions(run.snapshot, run.loaded[n])
    BY <1>6 DEF EffectOf
  <2>2. EffectOf(n) = run.loaded[n].actions
    BY <2>1 DEF EffectOf
  <2> QED BY <1>6, <2>1, <2>2 DEF Effects, ActionAt
<1> QED BY <1>4, <1>5, <1>6

LEMMA OrderKept ==
    ASSUME RunsInOrder, phase' = phase, run' = run
    PROVE  RunsInOrder'
<1>1. /\ \A n : EffectOf(n)' = EffectOf(n)
      /\ Effects' = Effects /\ \A p : ActionAt(p)' = ActionAt(p)
  BY DEF EffectOf, Effects, ActionAt
<1>2. \A c, j \in Nat : UpTo(c, j)' = UpTo(c, j)
  BY <1>1 DEF UpTo
<1>3. ASSUME NEW c \in Nat, NEW j \in Nat, ReachedAt(c, j)
      PROVE  ReachedAt(c, j)'
  <2>1. Outcome(UpTo(c, j))'
    BY <1>1, <1>2, <1>3 DEF ReachedAt, Outcome
  <2> QED BY <1>1, <1>3, <2>1 DEF ReachedAt
<1> QED BY <1>3 DEF RunsInOrder

(* The three kinds of steps of a run advance the place it has reached. *)
LEMMA LoadingStartsInOrder ==
    ASSUME TypeOK, RunsInOrder, LoadRules
    PROVE  RunsInOrder'
<1>1. /\ phase = "changed" /\ phase' = "running" /\ run.actions = <<>>
  BY DEF LoadRules, RunsInOrder
<1>2. /\ TypeOK' /\ run'.actions = <<>> /\ run'.snapshot = run'.current
      /\ run'.queue = run'.selected /\ run'.selected \subseteq 1..Len(run'.loaded)
  BY <1>1, LoadRulesType
<1>3. run'.selected \subseteq Nat /\ 0 \notin run'.selected
      /\ \A n \in run'.selected : n > 0
  BY <1>2
<1>4. EffectOf(0)' = <<>>
  BY <1>3 DEF EffectOf
<1>5. \A p \in Effects' : p[1] \in run'.selected
  BY DEF Effects
<1>6. UpTo(0, 0)' = {}
  BY <1>3, <1>5 DEF UpTo
<1>7. Outcome(UpTo(0, 0))'
  BY <1>2, <1>6 DEF Outcome
<1>8. run'.queue = {n \in run'.selected : n > 0}
  BY <1>2, <1>3
<1>9. ReachedAt(0, 0)'
  BY <1>2, <1>4, <1>7, <1>8 DEF ReachedAt
<1> QED BY <1>1, <1>2, <1>9 DEF RunsInOrder

LEMMA StartingStaysInOrder ==
    ASSUME TypeOK, RunsInOrder, StartRule
    PROVE  RunsInOrder'
<1>1. phase = "running" /\ phase' = "running" /\ run.actions = <<>>
  BY DEF StartRule
<1>2. run.selected \subseteq 1..Len(run.loaded) /\ run.selected \subseteq Nat
  BY <1>1 DEF RunsInOrder
<1>3. PICK c \in Nat, j \in Nat : ReachedAt(c, j)
  BY <1>1 DEF RunsInOrder
<1>4. PICK n \in run.queue : /\ \A m \in run.queue : n <= m
                             /\ run'.queue = run.queue \ {n}
                             /\ run'.actions = ActionsOf(run.loaded[n])
  BY StartRuleType
<1>5. /\ run'.current = run.current /\ run'.snapshot = run.snapshot
      /\ run'.loaded = run.loaded /\ run'.selected = run.selected
  BY StartRuleType
<1>6. /\ \A m : EffectOf(m)' = EffectOf(m)
      /\ Effects' = Effects /\ \A p : ActionAt(p)' = ActionAt(p)
  BY <1>5 DEF EffectOf, Effects, ActionAt
<1>7. n \in run.selected /\ n \in Nat /\ n > c
  BY <1>2, <1>3, <1>4 DEF ReachedAt
<1>8. run'.actions = EffectOf(n)
  BY <1>4, <1>7 DEF EffectOf, ActionsOf
<1>9. EffectOf(c) \in Seq(Action) /\ Len(EffectOf(c)) = j
  BY <1>1, <1>2, <1>3, EffectPlaces DEF ReachedAt
<1>10. UpTo(n, 0)' = UpTo(c, j)
  <2>1. ASSUME NEW p \in Effects
        PROVE  (p[1] < n \/ (p[1] = n /\ p[2] <= 0)) <=> (p[1] < c \/ (p[1] = c /\ p[2] <= j))
    <3>1. p[1] \in run.selected /\ p[1] \in Nat /\ p[2] \in 1..Len(EffectOf(p[1]))
      BY <1>1, <1>2, <2>1, EffectPlaces
    <3>2. p[1] > c => p[1] >= n
      BY <1>3, <1>4, <3>1 DEF ReachedAt
    <3>3. Len(EffectOf(p[1])) \in Nat
      BY <1>1, <1>2, EffectPlaces
    <3>4. p[1] = c => p[2] <= j
      BY <1>9, <3>1
    <3>5. p[2] \in Nat /\ p[2] > 0
      BY <3>1, <3>3
    <3> QED BY <1>3, <1>7, <3>1, <3>2, <3>4, <3>5
  <2> QED BY <1>6, <2>1 DEF UpTo
<1>11. run'.queue = {m \in run'.selected : m > n}
  BY <1>2, <1>3, <1>4, <1>5, <1>7 DEF ReachedAt
<1>12. Outcome(UpTo(n, 0))'
  BY <1>3, <1>5, <1>6, <1>10 DEF ReachedAt, Outcome
<1>13. EffectOf(n) \in Seq(Action)
  BY <1>1, <1>2, EffectPlaces
<1>14. ReachedAt(n, 0)'
  BY <1>6, <1>8, <1>11, <1>12, <1>13 DEF ReachedAt
<1> QED BY <1>1, <1>2, <1>5, <1>7, <1>14 DEF RunsInOrder

LEMMA PerformingStaysInOrder ==
    ASSUME TypeOK, RunsInOrder, RunAction
    PROVE  RunsInOrder'
<1> DEFINE a == Head(run.actions)
<1>1. phase = "running" /\ phase' = "running" /\ run.actions # <<>>
  BY DEF RunAction
<1>2. run.selected \subseteq 1..Len(run.loaded) /\ run.selected \subseteq Nat
  BY <1>1 DEF RunsInOrder
<1>3. PICK c \in Nat, j \in Nat : ReachedAt(c, j)
  BY <1>1 DEF RunsInOrder
<1>4. /\ run'.current = Applied(run.current, a) /\ run'.snapshot = run.snapshot
      /\ run'.loaded = run.loaded /\ run'.selected = run.selected
      /\ run'.queue = run.queue /\ run'.actions = Tail(run.actions)
  BY RunActionType
<1>5. /\ \A m : EffectOf(m)' = EffectOf(m)
      /\ Effects' = Effects /\ \A p : ActionAt(p)' = ActionAt(p)
  BY <1>4 DEF EffectOf, Effects, ActionAt
<1>6. run.current \in Fields /\ run.actions \in Seq(Action)
  BY <1>1, RunFields DEF TypeOK
<1>7. EffectOf(c) \in Seq(Action)
  BY <1>1, <1>2, EffectPlaces
<1>8. a \in Action /\ a = EffectOf(c)[j + 1] /\ j + 1 \in 1..Len(EffectOf(c))
  BY <1>1, <1>3, <1>6, <1>7 DEF ReachedAt
<1>9. PICK e : e = <<c, j + 1>>
  OBVIOUS
<1>10. e \in Effects /\ ActionAt(e) = a
  BY <1>1, <1>2, <1>8, <1>9, EffectPlaces
<1>11. PICK E : E = UpTo(c, j)
  OBVIOUS
<1>12. UpTo(c, j + 1)' = E \cup {e}
  <2>1. ASSUME NEW p \in Effects
        PROVE  (p[1] = c /\ p[2] <= j + 1) <=> ((p[1] = c /\ p[2] <= j) \/ p = e)
    <3>1. p = <<p[1], p[2]>> /\ p[2] \in 1..Len(EffectOf(p[1]))
      BY <1>1, <1>2, <2>1, EffectPlaces
    <3>2. Len(EffectOf(p[1])) \in Nat
      BY <1>1, <1>2, EffectPlaces
    <3>3. p[2] \in Nat
      BY <3>1, <3>2
    <3> QED BY <1>3, <1>9, <3>1, <3>3
  <2> QED BY <1>5, <1>9, <1>10, <1>11, <2>1 DEF UpTo
<1>13. \A p \in E : p \in Effects /\ ActionAt(p) \in Action /\ Later(e, p)
  <2>1. ASSUME NEW p \in E
        PROVE  p \in Effects /\ ActionAt(p) \in Action /\ Later(e, p)
    <3>1. p \in Effects /\ (p[1] < c \/ (p[1] = c /\ p[2] <= j))
      BY <1>11, <2>1 DEF UpTo
    <3>2. /\ p[1] \in Nat /\ ActionAt(p) \in Action
          /\ p[2] \in 1..Len(EffectOf(p[1])) /\ Len(EffectOf(p[1])) \in Nat
      BY <1>1, <1>2, <3>1, EffectPlaces
    <3>3. e[1] = c /\ e[2] = j + 1 /\ p[2] \in Nat
      BY <1>9, <3>2
    <3> QED BY <1>3, <3>1, <3>2, <3>3 DEF Later
  <2> QED BY <2>1
<1>14. Outcome(E)
  BY <1>3, <1>11 DEF ReachedAt
<1> HIDE DEF a
<1>15. Outcome(E \cup {e})'
  <2>1. ASSUME NEW p \in E \cup {e},
               \A q \in E \cup {e} : Later(q, p) => ~SameTarget(ActionAt(p), ActionAt(q))
        PROVE  HasEffect(run'.current, ActionAt(p))
    <3>1. CASE p = e
      BY <1>4, <1>6, <1>8, <1>10, <3>1, AppliedHasEffect
    <3>2. CASE p \in E
      <4>1. HasEffect(run.current, ActionAt(p))
        BY <1>14, <2>1, <3>2 DEF Outcome
      <4>2. ActionAt(p) \in Action /\ ~SameTarget(ActionAt(p), a)
        BY <1>10, <1>13, <2>1, <3>2
      <4> QED BY <1>4, <1>6, <1>8, <4>1, <4>2, OtherEffectsStay
    <3> QED BY <2>1, <3>1, <3>2
  <2>2. ASSUME \A p \in E \cup {e} : ActionAt(p).field # "status"
        PROVE  run'.current.status = run'.snapshot.status
    BY <1>4, <1>6, <1>8, <1>10, <1>14, <2>2, AppliedKeepsTheRest DEF Outcome
  <2>3. ASSUME \A p \in E \cup {e} : ActionAt(p).field # "assignee"
        PROVE  run'.current.assignee = run'.snapshot.assignee
    BY <1>4, <1>6, <1>8, <1>10, <1>14, <2>3, AppliedKeepsTheRest DEF Outcome
  <2>4. ASSUME NEW l \in Labels, \A p \in E \cup {e} : ~SetsLabel(ActionAt(p), l)
        PROVE  l \in run'.current.labels <=> l \in run'.snapshot.labels
    BY <1>4, <1>6, <1>8, <1>10, <1>14, <2>4, AppliedKeepsTheRest DEF Outcome
  <2> QED BY <1>5, <2>1, <2>2, <2>3, <2>4 DEF Outcome
<1>16. /\ Len(run'.actions) = Len(EffectOf(c)) - (j + 1)
       /\ \A m \in 1..Len(run'.actions) : run'.actions[m] = EffectOf(c)[j + 1 + m]
  <2>1. Len(Tail(run.actions)) = Len(run.actions) - 1
    BY <1>1, <1>6
  <2>2. \A m \in 1..Len(Tail(run.actions)) :
           Tail(run.actions)[m] = run.actions[m + 1] /\ m + 1 \in 1..Len(run.actions)
    BY <1>1, <1>6
  <2>3. \A m \in 1..Len(Tail(run.actions)) : j + (m + 1) = (j + 1) + m
    BY <1>3
  <2> QED BY <1>3, <1>4, <1>6, <1>7, <2>1, <2>2, <2>3 DEF ReachedAt
<1>17. ReachedAt(c, j + 1)'
  BY <1>3, <1>4, <1>5, <1>12, <1>15, <1>16 DEF ReachedAt
<1> QED BY <1>1, <1>2, <1>3, <1>4, <1>17 DEF RunsInOrder

(* The rules of a run amount to their actions in order: at its end, every  *)
(* action of a matching rule that no later one overrules has its effect,   *)
(* and what no action mentions is as the snapshot had it (Engine.Execute). *)
THEOREM LaterActionsHavePriority == Spec => []LaterActionsWin
<1>1. Init => RunsInOrder
  BY DEF Init, RunsInOrder
<1>2. ASSUME TypeOK, RunsInOrder, Next PROVE RunsInOrder'
  <2>1. ASSUME phase' = phase, run' = run PROVE RunsInOrder'
    BY <1>2, <2>1, OrderKept
  <2>2. ASSUME phase' \notin {"changed", "running"} PROVE RunsInOrder'
    BY <2>2 DEF RunsInOrder
  <2>3. CASE Administer
    BY <2>1, <2>3 DEF Administer, CreateStatus, UpdateStatus, ReplaceTransitions, ArchiveStatus
  <2>4. CASE UNCHANGED workflowVars
    <3>1. CASE BeginSteps
      <4>1. phase' = "changed" /\ run'.actions = <<>>
        <5>1. ASSUME NEW i, NEW trigger, NEW fields, NEW trail, NEW unbroken,
                     Begin(i, trigger, fields, trail, unbroken)
              PROVE  phase' = "changed" /\ run'.actions = <<>>
          BY <5>1 DEF Begin
        <5> QED BY <3>1, <5>1
                DEF BeginSteps, BeginCreate, BeginTransition, BeginAssign, BeginUpdate
      <4> QED BY <4>1 DEF RunsInOrder
    <3>2. CASE CommitIssue
      BY <2>2, <3>2 DEF CommitIssue, EndTransaction
    <3>3. CASE IssuesKept
      BY <2>1, <2>2, <3>3 DEF IssuesKept
    <3> QED BY <1>2, <2>4, <3>1, <3>2, <3>3, IssueSteps,
               LoadingStartsInOrder, StartingStaysInOrder, PerformingStaysInOrder
  <2> QED BY <1>2, <2>3, <2>4, StepKinds DEF Administer
<1>3. RunsInOrder /\ UNCHANGED vars => RunsInOrder'
  BY OrderKept DEF vars
<1>4. TypeOK /\ RunsInOrder => LaterActionsWin
  <2> SUFFICES ASSUME TypeOK, RunsInOrder, phase = "running",
                      run.queue = {}, run.actions = <<>>
               PROVE  Outcome(Effects)
    BY DEF LaterActionsWin
  <2>1. run.selected \subseteq 1..Len(run.loaded) /\ run.selected \subseteq Nat
    BY DEF RunsInOrder
  <2>2. PICK c \in Nat, j \in Nat : ReachedAt(c, j)
    BY DEF RunsInOrder
  <2>3. Len(EffectOf(c)) = j
    BY <2>1, <2>2, EffectPlaces DEF ReachedAt
  <2>4. \A p \in Effects : p[1] < c \/ (p[1] = c /\ p[2] <= j)
    <3> SUFFICES ASSUME NEW p \in Effects PROVE p[1] < c \/ (p[1] = c /\ p[2] <= j)
      OBVIOUS
    <3>1. p[1] \in run.selected /\ p[1] \in Nat /\ p[2] \in 1..Len(EffectOf(p[1]))
      BY <2>1, EffectPlaces
    <3>2. ~(p[1] > c)
      BY <2>2, <3>1 DEF ReachedAt
    <3>3. p[1] = c => p[2] <= j
      BY <2>3, <3>1
    <3> QED BY <2>2, <3>1, <3>2, <3>3
  <2>5. UpTo(c, j) = Effects
    BY <2>4 DEF UpTo
  <2> QED BY <2>2, <2>5 DEF ReachedAt
<1> QED BY <1>1, <1>2, <1>3, <1>4, TypeCorrect, PTL DEF Spec

----------------------------------------------------------------------------
(* No enabled rule depends on a status that is gone.  The inductive        *)
(* invariant adds the rule a transaction is about to store enabled.        *)
Needs(def, s) == DependsOn(def, s) => Active(s)

RulesLive ==
    /\ \A r \in Rules, s \in Statuses : rules[r].enabled => Needs(rules[r].def, s)
    /\ phase = "rule" /\ draft.enabled => \A s \in Statuses : Needs(draft.def, s)

(* What validateDependencies accepts depends on active statuses only. *)
LEMMA LiveStatuses ==
    ASSUME TypeOK, NEW def, DependenciesLive(def), NEW s \in Statuses
    PROVE  Needs(def, s)
<1>1. s \in Values /\ s \notin labels \cup eligible \cup {Nobody}
  BY ProjectWorkflowAssumption DEF TypeOK, Values
<1> QED BY <1>1 DEF DependenciesLive, Live, Needs, ActiveStatuses

(* While the workflow stands, it is enough to look at the rules. *)
LEMMA RulesLiveAfter ==
    ASSUME UNCHANGED workflowVars,
           \A r \in Rules, s \in Statuses : rules'[r].enabled => Needs(rules'[r].def, s),
           phase' = "rule" /\ draft'.enabled => \A s \in Statuses : Needs(draft'.def, s)
    PROVE  RulesLive'
<1>1. ASSUME NEW r \in Rules, NEW s \in Statuses, rules'[r].enabled
      PROVE  Needs(rules[r].def, s)'
  <2>1. Needs(rules'[r].def, s)
    BY <1>1
  <2> QED BY <2>1 DEF Needs, DependsOn, Active, workflowVars
<1>2. ASSUME phase' = "rule", draft'.enabled, NEW s \in Statuses
      PROVE  Needs(draft.def, s)'
  <2>1. Needs(draft'.def, s)
    BY <1>2
  <2> QED BY <2>1 DEF Needs, DependsOn, Active, workflowVars
<1> QED BY <1>1, <1>2 DEF RulesLive

THEOREM StatusDependenciesStayLive == Spec => []StatusDependenciesLive
<1>1. Init => RulesLive
  BY DEF Init, RulesLive, NoRule
<1>2. ASSUME TypeOK, RulesLive, Next PROVE RulesLive'
  <2>1. rules \in [Rules -> RuleRow]
    BY <1>2 DEF TypeOK
  <2>2. ASSUME NEW s \in Statuses, NEW done \in BOOLEAN,
               CreateStatus(s, done) \/ UpdateStatus(s, done)
        PROVE RulesLive'
    <3>1. rules' = rules /\ phase' = "free"
      BY <2>2 DEF CreateStatus, UpdateStatus, ruleVars
    <3>2. \A t \in Statuses : Active(t) => Active(t)'
      BY <1>2, <2>2, ActiveKept
    <3> QED BY <1>2, <3>1, <3>2 DEF RulesLive, Needs, DependsOn, Active
  <2>3. ASSUME NEW T \in Workflows, ReplaceTransitions(T)
        PROVE RulesLive'
    BY <1>2, <2>3 DEF ReplaceTransitions, ruleVars, RulesLive, Needs, DependsOn, Active
  <2>4. ASSUME NEW s \in Statuses, NEW replacement \in Statuses,
               ArchiveStatus(s, replacement)
        PROVE RulesLive'
    <3>1. \A r \in Rules : /\ rules'[r].def = rules[r].def
                           /\ rules'[r].enabled => rules[r].enabled /\ ~DependsOn(rules[r].def, s)
      BY <1>2, <2>4, DisabledRules DEF ArchiveStatus
    <3>2. \A t \in Statuses : Active(t) /\ t # s => Active(t)'
      BY <1>2, <2>4, ActiveKept
    <3>3. phase' = "free"
      BY <2>4 DEF ArchiveStatus
    <3> QED BY <1>2, <3>1, <3>2, <3>3 DEF RulesLive, Needs, DependsOn, Active
  <2>5. CASE UNCHANGED workflowVars
    <3>1. /\ \A r \in Rules, s \in Statuses : rules[r].enabled => Needs(rules[r].def, s)
          /\ phase = "rule" /\ draft.enabled => \A s \in Statuses : Needs(draft.def, s)
      BY <1>2 DEF RulesLive
    <3>2. ASSUME NEW r \in Rules, NEW d \in Definitions, NEW on \in BOOLEAN,
                 BeginCreateRule(r, d, on)
          PROVE  RulesLive'
      <4>1. rules' = rules /\ draft'.def = d /\ draft'.enabled = on
        BY <3>2 DEF BeginCreateRule, BeginRule, ruleVars
      <4>2. \A s \in Statuses : Needs(d, s)
        BY <1>2, <3>2, LiveStatuses DEF BeginCreateRule
      <4> QED BY <2>5, <3>1, <4>1, <4>2, RulesLiveAfter
    <3>3. ASSUME NEW r \in Rules, NEW d \in Definitions, NEW on \in BOOLEAN,
                 BeginUpdateRule(r, d, on)
          PROVE  RulesLive'
      <4>1. rules' = rules /\ draft'.def = d /\ draft'.enabled = on
        BY <3>3 DEF BeginUpdateRule, BeginRule, ruleVars
      <4>2. ASSUME on, NEW s \in Statuses PROVE Needs(d, s)
        <5>1. CASE NeedsValidation(r, d, on)
          BY <1>2, <3>3, <5>1, LiveStatuses DEF BeginUpdateRule
        <5>2. CASE ~NeedsValidation(r, d, on)
          <6>1. /\ d.conditions = rules[r].def.conditions /\ d.actions = rules[r].def.actions
                /\ rules[r].enabled
            BY <4>2, <5>2 DEF NeedsValidation
          <6>2. Needs(rules[r].def, s)
            BY <1>2, <6>1 DEF RulesLive
          <6> QED BY <6>1, <6>2 DEF Needs, DependsOn
        <5> QED BY <5>1, <5>2
      <4> QED BY <2>5, <3>1, <4>1, <4>2, RulesLiveAfter
    <3>4. CASE CommitRule
      <4>1. rules' = [rules EXCEPT ![draft.rule] = [def |-> draft.def, enabled |-> draft.enabled]]
        BY <3>4 DEF CommitRule
      <4>2. phase = "rule" /\ phase' = "free" /\ draft.rule \in Rules
        BY <1>2, <3>4 DEF CommitRule, EndTransaction, TypeOK, Draft
      <4>3. ASSUME NEW r \in Rules, NEW s \in Statuses, rules'[r].enabled
            PROVE  Needs(rules'[r].def, s)
        <5>1. CASE r = draft.rule
          BY <1>2, <2>1, <4>1, <4>2, <4>3, <5>1 DEF RulesLive
        <5>2. CASE r # draft.rule
          BY <1>2, <2>1, <4>1, <4>3, <5>2 DEF RulesLive
        <5> QED BY <5>1, <5>2
      <4> QED BY <2>5, <4>2, <4>3, RulesLiveAfter
    <3>5. ASSUME NEW r \in Rules, DeleteRule(r)
          PROVE  RulesLive'
      <4>1. rules' = [rules EXCEPT ![r] = NoRule] /\ phase' = "free" /\ ~NoRule.enabled
        BY <3>5 DEF DeleteRule, NoRule
      <4>2. \A q \in Rules : rules'[q].enabled => rules'[q] = rules[q]
        BY <2>1, <4>1
      <4> QED BY <2>5, <3>1, <4>1, <4>2, RulesLiveAfter
    <3>6. ASSUME NEW v, DisableRulesFor(v), phase' = phase, draft' = draft
          PROVE  RulesLive'
      <4>1. \A r \in Rules : rules'[r].def = rules[r].def /\ (rules'[r].enabled => rules[r].enabled)
        BY <1>2, <3>6, DisabledRules
      <4> QED BY <2>5, <3>1, <3>6, <4>1, RulesLiveAfter
    <3>7. ASSUME rules' = rules, \/ phase' # "rule"
                                 \/ phase' = phase /\ draft' = draft
          PROVE  RulesLive'
      BY <2>5, <3>1, <3>7, RulesLiveAfter
    <3>8. CASE Administer
      BY <2>2, <2>3, <2>4, <3>8 DEF Administer
    <3>9. CASE ChangeIssue
      <4>1. rules' = rules
        BY <3>9 DEF ChangeIssue, BeginCreate, BeginTransition, BeginAssign, BeginUpdate,
                    Begin, SetLabels, ArchiveIssue, LoadRules, StartRule, RunAction,
                    CommitIssue, ruleVars
      <4>2. phase' # "rule"
        BY <3>9 DEF ChangeIssue, BeginCreate, BeginTransition, BeginAssign, BeginUpdate,
                    Begin, SetLabels, ArchiveIssue, LoadRules, StartRule, RunAction,
                    CommitIssue, EndTransaction
      <4> QED BY <3>7, <4>1, <4>2
    <3>10. ASSUME NEW new \in [1..Len(order) -> ExistingRules], ReorderRules(new)
           PROVE  RulesLive'
      BY <3>7, <3>10 DEF ReorderRules
    <3>11. CASE Rollback
      BY <3>7, <3>11 DEF Rollback, EndTransaction, ruleVars
    <3>12. CASE Invalidate
      BY <3>6, <3>7, <3>12 DEF Invalidate, DeleteLabel, RevokeUser, RemoveProjectMember,
                               DeactivateElsewhere, AdmitUser, ruleVars
    <3> QED BY <1>2, <3>2, <3>3, <3>4, <3>5, <3>8, <3>9, <3>10, <3>11, <3>12
            DEF Next, ChangeRule
  <2> QED BY <1>2, <2>2, <2>3, <2>4, <2>5, StepKinds
<1>3. RulesLive /\ UNCHANGED vars => RulesLive'
  BY DEF vars, RulesLive, Needs, DependsOn, Active
<1>4. RulesLive => StatusDependenciesLive
  BY DEF RulesLive, Needs, StatusDependenciesLive
<1> QED BY <1>1, <1>2, <1>3, <1>4, TypeCorrect, PTL DEF Spec
============================================================================
