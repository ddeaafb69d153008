--------------------------- MODULE BackupWorker ---------------------------
(***************************************************************************)
(* Scheduled backups: cmd/backup-worker with backend/internal/backups and  *)
(* restores.  A cycle dumps the database, restores the artifact into an    *)
(* isolated target, verifies it, records the result in a state file and    *)
(* only then prunes old artifacts.  The daemon and the one-off commands    *)
(* share the backup directory, the state file and the target; Overlap says *)
(* whether they may run at the same time.                                  *)
(*                                                                         *)
(* An artifact is the number of its publication, so a greater number is a  *)
(* later modification time.  Restore drills are enabled.                   *)
(***************************************************************************)
EXTENDS Naturals, Sequences, FiniteSets

CONSTANTS
    Processes,
    Mode,            \* "loop": the daemon; "once", "verify": --once, --restore-only
    Keep,            \* RetentionCount
    Overlap,
    MaxArtifacts,    \* bound on the artifacts ever published
    MaxFaults        \* bound on the failures of commands, writes and processes

ASSUME BackupWorkerAssumption ==
    /\ Mode \in [Processes -> {"loop", "once", "verify"}]
    /\ Keep \in Nat \ {0}
    /\ Overlap \in BOOLEAN
    /\ MaxArtifacts \in Nat
    /\ MaxFaults \in Nat

VARIABLES
    database,    \* is it migrated to the expected version, with its core rows?
    dumps,       \* of each artifact ever published: is what it holds complete?
    files,       \* the artifacts in the backup directory
    target,      \* the schema of the restore target
    state,       \* the state file
    process,
    faults

vars == <<database, dumps, files, target, state, process, faults>>

----------------------------------------------------------------------------
Artifacts == 1..MaxArtifacts
State == [result : {"none", "success", "failure"},
          file : Artifacts \cup {0}, success : Artifacts \cup {0}]

(* What the restore target holds. *)
Absent == [schema |-> "absent"]
Empty == [schema |-> "empty"]
Partial == [schema |-> "partial"]
Restored(a) == [schema |-> "restored", artifact |-> a]

Stopped == [step |-> "stopped"]
Drilling == {"validate", "reset", "restore", "verify", "cleanup", "succeed"}
Process ==
    [step : {"stopped"}]
    \cup [step : {"idle"}, artifact : Artifacts \cup {0}]    \* pendingPath, 0 if none
    \cup [step : {"dump"}, complete : BOOLEAN]
    \cup [step : Drilling \cup {"retain"}, artifact : Artifacts]
    \cup [step : {"fail"}, artifact : Artifacts, loaded : State, dirty : BOOLEAN]
    \cup [step : {"tidy"}, artifact : Artifacts]

Init ==
    /\ database \in BOOLEAN
    /\ dumps = <<>>
    /\ files = {}
    /\ target = Empty
    /\ state = [result |-> "none", file |-> 0, success |-> 0]
    /\ process = [p \in Processes |-> Stopped]
    /\ faults = 0

Go(p, next) == process' = [process EXCEPT ![p] = next]
Drill(p, step) == Go(p, [step |-> step, artifact |-> process[p].artifact])

(* The loop waits and retries; the one-off commands exit. *)
EndCycle(p, pending) ==
    Go(p, IF Mode[p] = "loop" THEN [step |-> "idle", artifact |-> pending] ELSE Stopped)

(* RecordFailure loads the state, and saves it in a later step. *)
Fail(p, dirty) ==
    Go(p, [step |-> "fail", artifact |-> process[p].artifact, loaded |-> state,
           dirty |-> dirty])

NoFault == UNCHANGED faults
Fault == faults < MaxFaults /\ faults' = faults + 1

----------------------------------------------------------------------------
Newest(a) == \A b \in files : b <= a

(* A failed drill is resumed after a restart, while its artifact exists. *)
Pending == IF state.result = "failure" /\ state.file \in files THEN state.file ELSE 0

Start(p) ==
    /\ process[p] = Stopped
    /\ Overlap \/ \A q \in Processes : process[q] = Stopped
    /\ \/ Mode[p] # "verify" /\ Go(p, [step |-> "idle", artifact |-> Pending])
       \/ /\ Mode[p] = "verify"
          /\ \E a \in files : Newest(a) /\ Go(p, [step |-> "validate", artifact |-> a])
    /\ NoFault
    /\ UNCHANGED <<database, dumps, files, target, state>>

(* performCycle: a pending artifact is verified again, and none created. *)
BeginCycle(p) ==
    /\ process[p].step = "idle"
    /\ IF process[p].artifact # 0
       THEN Drill(p, "validate")
       ELSE /\ Len(dumps) < MaxArtifacts
            /\ Go(p, [step |-> "dump", complete |-> database])
    /\ NoFault
    /\ UNCHANGED <<database, dumps, files, target, state>>

(* Seeded bug: the artifact appears before its contents are complete. *)
PublishedEmpty(p) ==
    /\ UNCHANGED dumps
    /\ files' = files \cup {Len(dumps) + 1}

Published(p) ==
    /\ dumps' = Append(dumps, process[p].complete)
    /\ files' = files \cup {Len(dumps) + 1}

(* Runner.Create renames the complete artifact into place. *)
Publish(p) ==
    /\ process[p].step = "dump"
    /\ Len(dumps) < MaxArtifacts
    /\ Published(p)
    /\ Go(p, [step |-> "validate", artifact |-> Len(dumps) + 1])
    /\ NoFault
    /\ UNCHANGED <<database, target, state>>

(* The dump fails and is removed; or it is published, and not inspected. *)
CreateFails(p) ==
    /\ process[p].step = "dump"
    /\ \/ UNCHANGED <<dumps, files>>
       \/ Len(dumps) < MaxArtifacts /\ Published(p)
    /\ EndCycle(p, 0)
    /\ Fault
    /\ UNCHANGED <<database, target, state>>

----------------------------------------------------------------------------
(* Seeded bug: the schema is created again, as Cleanup does. *)
ResetTargetAsCleanup == Empty

ResetTarget == Absent

(* Seeded bug: whatever was restored is taken for complete. *)
RestoredSomething == target.schema = "restored"

Verified == target.schema = "restored" /\ dumps[target.artifact]

(* Runner.Run: validateArtifact, Reset, Restore, Verify and Cleanup, each  *)
(* a command of its own.                                                   *)
Validate(p) ==
    /\ process[p].step = "validate"
    /\ IF process[p].artifact \in files THEN Drill(p, "reset") ELSE Fail(p, FALSE)
    /\ NoFault
    /\ UNCHANGED <<database, dumps, files, target, state>>

Reset(p) ==
    /\ process[p].step = "reset"
    /\ target' = ResetTarget
    /\ Drill(p, "restore")
    /\ NoFault
    /\ UNCHANGED <<database, dumps, files, state>>

(* The dump creates the schema: one that exists already is an error. *)
Restore(p) ==
    /\ process[p].step = "restore"
    /\ IF process[p].artifact \in files /\ target = Absent
       THEN target' = Restored(process[p].artifact) /\ Drill(p, "verify")
       ELSE UNCHANGED target /\ Fail(p, TRUE)
    /\ NoFault
    /\ UNCHANGED <<database, dumps, files, state>>

Verify(p) ==
    /\ process[p].step = "verify"
    /\ IF Verified THEN Drill(p, "cleanup") ELSE Fail(p, TRUE)
    /\ NoFault
    /\ UNCHANGED <<database, dumps, files, target, state>>

Cleanup(p) ==
    /\ process[p].step = "cleanup"
    /\ target' = Empty
    /\ Drill(p, "succeed")
    /\ NoFault
    /\ UNCHANGED <<database, dumps, files, state>>

(* A command that fails may have had its effect, or half of it. *)
CommandFails(p) ==
    /\ process[p].step \in Drilling \ {"succeed"}
    /\ target' \in CASE process[p].step = "reset" -> {target, Absent}
                     [] process[p].step = "restore" -> {target, Partial}
                     [] process[p].step = "cleanup" -> {target, Empty}
                     [] OTHER -> {target}
    /\ Fail(p, process[p].step \in {"restore", "verify", "cleanup"})
    /\ Fault
    /\ UNCHANGED <<database, dumps, files, state>>

(* RecordSuccess; --restore-only ends here. *)
RecordSuccess(p) ==
    /\ process[p].step = "succeed"
    /\ state' = [result |-> "success", file |-> process[p].artifact,
                 success |-> process[p].artifact]
    /\ IF Mode[p] = "verify" THEN Go(p, Stopped) ELSE Drill(p, "retain")
    /\ NoFault
    /\ UNCHANGED <<database, dumps, files, target>>

RecordSuccessFails(p) ==
    /\ process[p].step = "succeed"
    /\ EndCycle(p, process[p].artifact)
    /\ Fault
    /\ UNCHANGED <<database, dumps, files, target, state>>

(* Seeded bug: the success before is not kept. *)
FailedAlone(p) == [result |-> "failure", file |-> process[p].artifact, success |-> 0]

Failed(p) ==
    [process[p].loaded EXCEPT !.result = "failure", !.file = process[p].artifact]

AfterFailure(p) ==
    IF process[p].dirty THEN Drill(p, "tidy") ELSE EndCycle(p, process[p].artifact)

RecordFailure(p) ==
    /\ process[p].step = "fail"
    /\ state' = Failed(p)
    /\ AfterFailure(p)
    /\ NoFault
    /\ UNCHANGED <<database, dumps, files, target>>

RecordFailureFails(p) ==
    /\ process[p].step = "fail"
    /\ AfterFailure(p)
    /\ Fault
    /\ UNCHANGED <<database, dumps, files, target, state>>

(* The deferred Cleanup; its error is ignored. *)
Tidy(p) ==
    /\ process[p].step = "tidy"
    /\ \/ target' = Empty /\ NoFault
       \/ UNCHANGED target /\ Fault
    /\ EndCycle(p, process[p].artifact)
    /\ UNCHANGED <<database, dumps, files, state>>

----------------------------------------------------------------------------
(* Seeded bug: the oldest artifacts are kept. *)
VictimsOldestFirst == {a \in files : Cardinality({b \in files : b < a}) >= Keep}

(* Prune: all but the newest. *)
Victims == {a \in files : Cardinality({b \in files : b > a}) >= Keep}

Retain(p) ==
    /\ process[p].step = "retain"
    /\ files' = files \ Victims
    /\ EndCycle(p, 0)
    /\ NoFault
    /\ UNCHANGED <<database, dumps, target, state>>

(* Prune stops at the first artifact it cannot remove. *)
RetainFails(p) ==
    /\ process[p].step = "retain"
    /\ \E stop \in Victims \cup {0} : files' = files \ {a \in Victims : a > stop}
    /\ EndCycle(p, process[p].artifact)
    /\ Fault
    /\ UNCHANGED <<database, dumps, target, state>>

(* The process is stopped or killed; the daemon's container restarts. *)
Crash(p) ==
    /\ process[p] # Stopped
    /\ Go(p, Stopped)
    /\ Fault
    /\ UNCHANGED <<database, dumps, files, target, state>>

(* The migrations are applied and the first workspace is created. *)
Prepare ==
    /\ ~database
    /\ database' = TRUE
    /\ UNCHANGED <<dumps, files, target, state, process, faults>>

----------------------------------------------------------------------------
Step(p) ==
    \/ Start(p) \/ BeginCycle(p) \/ Publish(p) \/ CreateFails(p)
    \/ Validate(p) \/ Reset(p) \/ Restore(p) \/ Verify(p) \/ Cleanup(p) \/ CommandFails(p)
    \/ RecordSuccess(p) \/ RecordSuccessFails(p)
    \/ RecordFailure(p) \/ RecordFailureFails(p) \/ Tidy(p)
    \/ Retain(p) \/ RetainFails(p) \/ Crash(p)

Next == Prepare \/ \E p \in Processes : Step(p)

Spec == Init /\ [][Next]_vars

(* A running process goes on: the timer fires and every command has a      *)
(* timeout.  The daemon's container restarts, however often somebody runs  *)
(* a one-off command in between; somebody prepares the database.           *)
Fairness ==
    /\ \A p \in Processes : WF_vars(process[p] # Stopped /\ Step(p))
    /\ \A p \in Processes : Mode[p] = "loop" => SF_vars(Start(p))
    /\ WF_vars(Prepare)

FairSpec == Spec /\ Fairness

----------------------------------------------------------------------------
TypeOK ==
    /\ database \in BOOLEAN
    /\ dumps \in Seq(BOOLEAN) /\ Len(dumps) <= MaxArtifacts
    /\ files \subseteq 1..Len(dumps)
    /\ target \in {Absent, Empty, Partial} \cup {Restored(a) : a \in 1..Len(dumps)}
    /\ state \in State
    /\ process \in [Processes -> Process]
    /\ faults \in 0..MaxFaults

(* docs/local-operations.md: retention "always preserves the latest        *)
(* verified copy", whatever fails and wherever the worker is stopped.      *)
VerifiedIsKept == state.success # 0 => state.success \in files

(* docs/backup-restore.md: success is reported only after what the         *)
(* artifact itself holds was restored and verified.                        *)
VerifiedIsComplete == state.success # 0 => dumps[state.success]

(* A failed drill, a restart or a second verification never makes the      *)
(* state file forget the latest verified artifact.                         *)
SuccessMovesForward == [][state'.success >= state.success]_vars

(* The daemon makes one backup after another, as many as the bound allows, *)
(* and a failed one is verified before the next: no failure, crash or      *)
(* half-restored target stops it for good, unless a dump was incomplete.   *)
BackupsContinue ==
    <>(Len(dumps) = MaxArtifacts \/ \E a \in DOMAIN dumps : ~dumps[a])

(* docs/backup-restore.md: "creates one backup immediately, restores and   *)
(* verifies it, then runs every 24 hours", whatever the first one held.    *)
BackupsAlwaysContinue == <>(Len(dumps) = MaxArtifacts)
============================================================================
