------------------------- MODULE MCProjectWorkflow -------------------------
EXTENDS ProjectWorkflow, TLC

CONSTANTS todo, doing, done, bug, ann

(* Transitions a request may store: the default workflow of three statuses *)
(* and a one-way path.                                                     *)
MCWorkflows == {{<<todo, done>>, <<done, todo>>, <<todo, doing>>},
                {<<todo, doing>>, <<doing, done>>}}

MCPath == {{<<todo, doing>>, <<doing, done>>}}

If(field, value) == [field |-> field, value |-> value]
Then(field, value) == [field |-> field, value |-> value]
Rule(trigger, conditions, actions) ==
    [trigger |-> trigger, conditions |-> conditions, actions |-> actions]

(* Rules that touch what the other looks at, and one that depends on       *)
(* everything.                                                             *)
MCChains == {
    Rule("assignee_changed", {}, <<Then("add label", bug), Then("status", doing)>>),
    Rule("assignee_changed", {If("status", todo)},
         <<Then("remove label", bug), Then("assignee", Nobody), Then("status", done)>>)}

MCDependent == {Rule("priority_changed", {If("label", bug)}, <<Then("assignee", ann)>>)}

Symmetry == Permutations(Rules) \cup Permutations(Issues)
============================================================================
