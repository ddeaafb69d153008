-------------------------- MODULE PlanningBoard --------------------------
(***************************************************************************)
(* What the handlers of Planning promise their callers: each of them, if   *)
(* it succeeds, acts as if it had run alone, its checks and its writes in  *)
(* one step.  There are no requests, locks or waits here.                  *)
(*                                                                         *)
(* One promise is weaker than it sounds.  The walk over the ancestors of a *)
(* new parent counts only as far as it stays in the issue's own project:   *)
(* what it found elsewhere may have changed by the time of the write.      *)
(***************************************************************************)
CONSTANTS Projects, Issues, Sprints, Home, Types, LinkTypes, Goals, None

VARIABLES open, sprint, issue, links

vars == <<open, sprint, issue, links>>

Init ==
    /\ open = Projects
    /\ sprint = [s \in Sprints |-> [status |-> "absent", goal |-> None]]
    /\ issue = [i \in Issues |-> [stage |-> "absent", type |-> "none",
                                  parent |-> None, sprint |-> None]]
    /\ links = {}

Live == {i \in Issues : issue[i].stage = "open" /\ Home[i] \in open}

----------------------------------------------------------------------------
(* Issues and their parents. *)
Fits(type, parent) ==
    /\ type = "epic" => parent = None
    /\ type = "subtask" => parent # None

CreateIssue(i, type, o) ==
    /\ issue[i].stage = "absent"
    /\ Home[i] \in open
    /\ o \in (Live \cup {None}) \ {i}
    /\ Fits(type, o)
    /\ issue' = [issue EXCEPT ![i] = [stage |-> "open", type |-> type,
                                      parent |-> o, sprint |-> None]]
    /\ UNCHANGED <<open, sprint, links>>

(* Following parents from o without leaving its project leads to i. *)
ClosedAtHome(T) ==
    \A j \in T : LET p == issue[j].parent
                 IN  p \in Live /\ Home[p] = Home[j] => p \in T
IsAbove(i, o) == \A T \in SUBSET Issues : o \in T /\ ClosedAtHome(T) => i \in T

SetParent(i, o) ==
    /\ i \in Live
    /\ o \in (Live \cup {None}) \ {i, issue[i].parent}
    /\ Fits(issue[i].type, o)
    /\ o # None /\ Home[o] = Home[i] => ~IsAbove(i, o)
    /\ issue' = [issue EXCEPT ![i].parent = o]
    /\ UNCHANGED <<open, sprint, links>>

SetType(i, type) ==
    /\ i \in Live
    /\ Fits(type, issue[i].parent)
    /\ issue' = [issue EXCEPT ![i].type = type]
    /\ UNCHANGED <<open, sprint, links>>

----------------------------------------------------------------------------
(* Sprints and what is planned for them. *)
MayPlan(s) == sprint[s].status \in {"planned", "active"}

AddToSprint(i, s) ==
    /\ i \in Live
    /\ Home[i] = Home[s]
    /\ MayPlan(s)
    /\ issue' = [issue EXCEPT ![i].sprint = s]
    /\ UNCHANGED <<open, sprint, links>>

RemoveFromSprint(i) ==
    /\ i \in Live
    /\ issue[i].sprint \in Sprints
    /\ MayPlan(issue[i].sprint)
    /\ issue' = [issue EXCEPT ![i].sprint = None]
    /\ UNCHANGED <<open, sprint, links>>

(* A sprint is planned, perhaps edited, started while no other one of its  *)
(* project is active, and completed for good.                              *)
PlanSprint(s, g) ==
    /\ Home[s] \in open
    /\ sprint[s].status = "absent"
    /\ sprint' = [sprint EXCEPT ![s] = [status |-> "planned", goal |-> g]]
    /\ UNCHANGED <<open, issue, links>>

EditSprint(s, g) ==
    /\ Home[s] \in open
    /\ MayPlan(s)
    /\ sprint' = [sprint EXCEPT ![s].goal = g]
    /\ UNCHANGED <<open, issue, links>>

StartSprint(s) ==
    /\ Home[s] \in open
    /\ sprint[s].status = "planned"
    /\ \A t \in Sprints : Home[t] = Home[s] => sprint[t].status # "active"
    /\ sprint' = [sprint EXCEPT ![s].status = "active"]
    /\ UNCHANGED <<open, issue, links>>

CompleteSprint(s) ==
    /\ Home[s] \in open
    /\ sprint[s].status = "active"
    /\ sprint' = [sprint EXCEPT ![s].status = "completed"]
    /\ UNCHANGED <<open, issue, links>>

----------------------------------------------------------------------------
(* Links, and archiving. *)
LinkIssues(i, o, kind) ==
    /\ {i, o} \subseteq Live
    /\ i # o
    /\ <<i, o, kind>> \notin links
    /\ kind = "relates" => <<o, i, kind>> \notin links
    /\ links' = links \cup {<<i, o, kind>>}
    /\ UNCHANGED <<open, sprint, issue>>

UnlinkIssues(l) ==
    /\ l \in links
    /\ l[1] \in Live \/ l[2] \in Live
    /\ links' = links \ {l}
    /\ UNCHANGED <<open, sprint, issue>>

ArchiveIssue(i) ==
    /\ i \in Live
    /\ issue' = [issue EXCEPT ![i].stage = "archived"]
    /\ UNCHANGED <<open, sprint, links>>

ArchiveProject(p) ==
    /\ p \in open
    /\ open' = open \ {p}
    /\ UNCHANGED <<sprint, issue, links>>

Next ==
    \/ \E i \in Issues :
         \/ \E o \in Issues \cup {None} :
              SetParent(i, o) \/ \E type \in Types : CreateIssue(i, type, o)
         \/ \E type \in Types : SetType(i, type)
         \/ \E s \in Sprints : AddToSprint(i, s)
         \/ RemoveFromSprint(i)
         \/ \E o \in Issues, kind \in LinkTypes : LinkIssues(i, o, kind)
         \/ ArchiveIssue(i)
    \/ \E s \in Sprints :
         \/ \E g \in Goals : PlanSprint(s, g) \/ EditSprint(s, g)
         \/ StartSprint(s) \/ CompleteSprint(s)
    \/ \E l \in links : UnlinkIssues(l)
    \/ \E p \in Projects : ArchiveProject(p)

Spec == Init /\ [][Next]_vars
============================================================================
