------------------------ MODULE BackupWorkerProofs ------------------------
(***************************************************************************)
(* For any processes, any retention count and any failures: as long as the *)
(* backup processes do not overlap, the latest verified artifact stays in  *)
(* the backup directory, and what it holds was verified.                   *)
(***************************************************************************)
EXTENDS BackupWorker, TLAPS, FiniteSetTheorems, SequenceTheorems

(* What a step of a process turns it into has its type. *)
LEMMA EndCycleType ==
    ASSUME TypeOK, NEW p \in Processes, NEW a \in Artifacts \cup {0}, EndCycle(p, a)
    PROVE  process' \in [Processes -> Process]
BY DEF TypeOK, EndCycle, Go, Process, Stopped

LEMMA DrillType ==
    ASSUME TypeOK, NEW p \in Processes, process[p].artifact \in Artifacts,
           NEW s \in Drilling \cup {"retain", "tidy"}, Drill(p, s)
    PROVE  process' \in [Processes -> Process]
<1>1. [step |-> s, artifact |-> process[p].artifact] \in Process
  BY DEF Process, Drilling
<1> QED BY <1>1 DEF TypeOK, Drill, Go

LEMMA FailType ==
    ASSUME TypeOK, NEW p \in Processes, process[p].artifact \in Artifacts,
           NEW dirty \in BOOLEAN, Fail(p, dirty)
    PROVE  process' \in [Processes -> Process]
<1>1. [step |-> "fail", artifact |-> process[p].artifact, loaded |-> state,
       dirty |-> dirty] \in Process
  BY DEF TypeOK, Process
<1> QED BY <1>1 DEF TypeOK, Fail, Go

(* The fields of a process in each of its steps. *)
LEMMA ProcessFields ==
    ASSUME TypeOK, NEW p \in Processes
    PROVE  /\ process[p] \in Process
           /\ process[p].step = "idle" => process[p].artifact \in Artifacts \cup {0}
           /\ process[p].step = "dump" => process[p].complete \in BOOLEAN
           /\ process[p].step \in Drilling \cup {"retain", "fail", "tidy"} =>
                process[p].artifact \in Artifacts
           /\ process[p].step = "fail" =>
                process[p].loaded \in State /\ process[p].dirty \in BOOLEAN
BY DEF TypeOK, Process, Drilling

LEMMA FilesAreArtifacts ==
    ASSUME TypeOK
    PROVE  /\ Len(dumps) \in Nat
           /\ files \subseteq Artifacts
           /\ 1..Len(dumps) \subseteq Artifacts
BY BackupWorkerAssumption DEF TypeOK, Artifacts

(* A published artifact is numbered next, and the others keep theirs. *)
LEMMA PublishedFacts ==
    ASSUME TypeOK, NEW p \in Processes, process[p].step = "dump",
           Len(dumps) < MaxArtifacts, Published(p)
    PROVE  /\ dumps' \in Seq(BOOLEAN)
           /\ Len(dumps') = Len(dumps) + 1 /\ Len(dumps') <= MaxArtifacts
           /\ \A a \in 1..Len(dumps) : dumps'[a] = dumps[a]
           /\ files' = files \cup {Len(dumps) + 1} /\ files' \subseteq 1..Len(dumps')
           /\ Len(dumps) + 1 \in Artifacts
<1>1. dumps \in Seq(BOOLEAN) /\ Len(dumps) \in Nat /\ files \subseteq 1..Len(dumps)
  BY FilesAreArtifacts DEF TypeOK
<1>2. PICK complete \in BOOLEAN : dumps' = Append(dumps, complete)
  <2>1. process[p].complete \in BOOLEAN
    BY ProcessFields
  <2> QED BY <2>1, Zenon DEF Published
<1>3. /\ dumps' \in Seq(BOOLEAN)
      /\ Len(dumps') = Len(dumps) + 1
      /\ \A a \in 1..Len(dumps) : dumps'[a] = dumps[a]
  BY <1>1, <1>2, AppendProperties
<1>4. files' = files \cup {Len(dumps) + 1}
  BY DEF Published
<1>5. files' \subseteq 1..Len(dumps')
  <2>1. 1..Len(dumps') = 1..(Len(dumps) + 1)
    BY <1>3
  <2>2. 1..Len(dumps) \cup {Len(dumps) + 1} = 1..(Len(dumps) + 1)
    BY <1>1
  <2> QED BY <1>1, <1>4, <2>1, <2>2
<1>6. Len(dumps') <= MaxArtifacts /\ Len(dumps) + 1 \in Artifacts
  BY <1>1, <1>3, BackupWorkerAssumption DEF Artifacts
<1> QED BY <1>3, <1>4, <1>5, <1>6

(* Whatever fails and whoever overlaps, every step writes what its         *)
(* variables may hold.                                                     *)
THEOREM TypeCorrect == Spec => []TypeOK
<1>1. Init => TypeOK
  BY BackupWorkerAssumption DEF Init, TypeOK, State, Process, Stopped, Artifacts
<1>2. TypeOK /\ [Next]_vars => TypeOK'
  <2> SUFFICES ASSUME TypeOK, [Next]_vars PROVE TypeOK'
    OBVIOUS
  <2> USE BackupWorkerAssumption
  <2>1. CASE Prepare
    BY <2>1 DEF Prepare, TypeOK
  <2>2. CASE UNCHANGED vars
    BY <2>2 DEF vars, TypeOK
  <2>3. ASSUME NEW p \in Processes, Step(p) PROVE TypeOK'
    <3>a. faults' \in 0..MaxFaults
      <4>1. NoFault \/ Fault
        BY <2>3 DEF Step, Start, BeginCycle, Publish, CreateFails, Validate, Reset, Restore,
                    Verify, Cleanup, CommandFails, RecordSuccess, RecordSuccessFails,
                    RecordFailure, RecordFailureFails, Tidy, Retain, RetainFails, Crash
      <4> QED BY <4>1 DEF NoFault, Fault, TypeOK
    <3>1. CASE Start(p)
      <4>1. \A a \in Artifacts \cup {0} : [step |-> "idle", artifact |-> a] \in Process
        BY DEF Process
      <4>2. \A a \in Artifacts : [step |-> "validate", artifact |-> a] \in Process
        BY DEF Process, Drilling
      <4>3. Pending \in Artifacts \cup {0}
        BY DEF Pending, TypeOK, State
      <4>4. \E next \in Process : process' = [process EXCEPT ![p] = next]
        BY <3>1, <4>1, <4>2, <4>3, FilesAreArtifacts DEF Start, Go
      <4>5. process' \in [Processes -> Process]
        BY <4>4 DEF TypeOK
      <4> QED BY <3>1, <3>a, <4>5 DEF Start, TypeOK
    <3>2. CASE BeginCycle(p)
      <4>1. process' \in [Processes -> Process]
        <5>1. CASE process[p].artifact # 0
          BY <3>2, <5>1, ProcessFields, DrillType DEF BeginCycle, Drilling
        <5>2. CASE process[p].artifact = 0
          BY <3>2, <5>2 DEF BeginCycle, Go, TypeOK, Process
        <5> QED BY <5>1, <5>2
      <4> QED BY <3>2, <3>a, <4>1 DEF BeginCycle, TypeOK
    <3>b. ASSUME process[p].step = "dump", Len(dumps) < MaxArtifacts, Published(p),
                 UNCHANGED <<database, target, state>>, process' \in [Processes -> Process]
          PROVE  TypeOK'
      <4>1. target' \in {Absent, Empty, Partial} \cup {Restored(a) : a \in 1..Len(dumps')}
        <5>1. 1..Len(dumps) \subseteq 1..Len(dumps')
          BY <3>b, PublishedFacts, FilesAreArtifacts
        <5> QED BY <3>b, <5>1 DEF TypeOK
      <4> QED BY <3>b, <3>a, <4>1, PublishedFacts DEF TypeOK
    <3>3. CASE Publish(p)
      <4>1. process' \in [Processes -> Process]
        <5>1. [step |-> "validate", artifact |-> Len(dumps) + 1] \in Process
          BY <3>3, PublishedFacts DEF Publish, Process, Drilling
        <5> QED BY <3>3, <5>1 DEF Publish, Go, TypeOK
      <4> QED BY <3>3, <3>b, <4>1 DEF Publish
    <3>4. CASE CreateFails(p)
      <4>1. process' \in [Processes -> Process]
        BY <3>4, EndCycleType DEF CreateFails
      <4>2. CASE UNCHANGED <<dumps, files>>
        BY <3>4, <3>a, <4>1, <4>2 DEF CreateFails, TypeOK
      <4>3. CASE Len(dumps) < MaxArtifacts /\ Published(p)
        BY <3>4, <3>b, <4>1, <4>3 DEF CreateFails
      <4> QED BY <3>4, <4>2, <4>3 DEF CreateFails
    <3>5. CASE Validate(p)
      <4>1. process' \in [Processes -> Process]
        BY <3>5, ProcessFields, DrillType, FailType DEF Validate, Drilling
      <4> QED BY <3>5, <3>a, <4>1 DEF Validate, TypeOK
    <3>6. CASE Reset(p)
      <4>1. process' \in [Processes -> Process]
        BY <3>6, ProcessFields, DrillType DEF Reset, Drilling
      <4> QED BY <3>6, <3>a, <4>1 DEF Reset, ResetTarget, TypeOK
    <3>7. CASE Restore(p)
      <4>1. process' \in [Processes -> Process]
        BY <3>7, ProcessFields, DrillType, FailType DEF Restore, Drilling
      <4> QED BY <3>7, <3>a, <4>1 DEF Restore, TypeOK
    <3>8. CASE Verify(p)
      <4>1. process' \in [Processes -> Process]
        BY <3>8, ProcessFields, DrillType, FailType DEF Verify, Drilling
      <4> QED BY <3>8, <3>a, <4>1 DEF Verify, TypeOK
    <3>9. CASE Cleanup(p)
      <4>1. process' \in [Processes -> Process]
        BY <3>9, ProcessFields, DrillType DEF Cleanup, Drilling
      <4> QED BY <3>9, <3>a, <4>1 DEF Cleanup, TypeOK
    <3>10. CASE CommandFails(p)
      <4>1. process' \in [Processes -> Process]
        <5>1. \/ Fail(p, TRUE)
              \/ Fail(p, FALSE)
          <6>1. CASE process[p].step \in {"restore", "verify", "cleanup"}
            <7>1. (process[p].step \in {"restore", "verify", "cleanup"}) = TRUE
              BY <6>1
            <7> QED BY <3>10, <7>1 DEF CommandFails
          <6>2. CASE process[p].step \notin {"restore", "verify", "cleanup"}
            <7>1. (process[p].step \in {"restore", "verify", "cleanup"}) = FALSE
              BY <6>2
            <7> QED BY <3>10, <7>1 DEF CommandFails
          <6> QED BY <6>1, <6>2
        <5>2. process[p].artifact \in Artifacts
          BY <3>10, ProcessFields DEF CommandFails
        <5> QED BY <5>1, <5>2, FailType
      <4>2. target' \in {target, Absent, Partial, Empty}
        BY <3>10 DEF CommandFails
      <4> QED BY <3>10, <3>a, <4>1, <4>2 DEF CommandFails, TypeOK
    <3>11. CASE RecordSuccess(p)
      <4>1. process[p].artifact \in Artifacts
        BY <3>11, ProcessFields DEF RecordSuccess, Drilling
      <4>2. process' \in [Processes -> Process]
        BY <3>11, <4>1, DrillType DEF RecordSuccess, Go, TypeOK, Process, Stopped
      <4>3. state' \in State
        BY <3>11, <4>1 DEF RecordSuccess, State
      <4> QED BY <3>11, <3>a, <4>2, <4>3 DEF RecordSuccess, TypeOK
    <3>12. CASE RecordSuccessFails(p)
      <4>1. process' \in [Processes -> Process]
        BY <3>12, ProcessFields, EndCycleType DEF RecordSuccessFails, Drilling
      <4> QED BY <3>12, <3>a, <4>1 DEF RecordSuccessFails, TypeOK
    <3>13. CASE RecordFailure(p) \/ RecordFailureFails(p)
      <4>1. /\ process[p].artifact \in Artifacts
            /\ process[p].loaded \in State
            /\ AfterFailure(p)
        BY <3>13, ProcessFields DEF RecordFailure, RecordFailureFails
      <4>2. process' \in [Processes -> Process]
        BY <4>1, DrillType, EndCycleType DEF AfterFailure
      <4>3. state' \in State
        BY <3>13, <4>1 DEF RecordFailure, RecordFailureFails, Failed, State, TypeOK
      <4> QED BY <3>13, <3>a, <4>2, <4>3 DEF RecordFailure, RecordFailureFails, TypeOK
    <3>14. CASE Tidy(p)
      <4>1. process' \in [Processes -> Process]
        BY <3>14, ProcessFields, EndCycleType DEF Tidy
      <4> QED BY <3>14, <3>a, <4>1 DEF Tidy, TypeOK
    <3>15. CASE Retain(p) \/ RetainFails(p)
      <4>1. process' \in [Processes -> Process]
        BY <3>15, ProcessFields, EndCycleType DEF Retain, RetainFails
      <4>2. files' \subseteq files
        BY <3>15 DEF Retain, RetainFails
      <4> QED BY <3>15, <3>a, <4>1, <4>2 DEF Retain, RetainFails, TypeOK
    <3>16. CASE Crash(p)
      BY <3>16, <3>a DEF Crash, Go, Process, Stopped, TypeOK
    <3> QED BY <2>3, <3>1, <3>2, <3>3, <3>4, <3>5, <3>6, <3>7, <3>8, <3>9, <3>10, <3>11, <3>12,
               <3>13, <3>14, <3>15, <3>16 DEF Step
  <2> QED BY <2>1, <2>2, <2>3 DEF Next
<1> QED BY <1>1, <1>2, PTL DEF Spec

----------------------------------------------------------------------------
(* Processes that do not overlap.  The one that runs works on the newest   *)
(* artifact, and a failure that is still to be resumed is about it.        *)
Alone == \A p, q \in Processes : process[p] # Stopped /\ process[q] # Stopped => p = q

Holding == Drilling \cup {"retain", "fail", "tidy"}
HasArtifact(q) == q.step \in Holding \/ (q.step = "idle" /\ q.artifact # 0)
HasNone(q) == q.step = "dump" \/ (q.step = "idle" /\ q.artifact = 0)

ToResume == state.result = "failure" /\ state.file \in files

Sound(q) ==
    /\ HasArtifact(q) => q.artifact \in files /\ Newest(q.artifact)
    /\ HasNone(q) => ~ToResume
    /\ q.step = "fail" => q.loaded = state
    /\ q.step = "retain" => state.result = "success" /\ state.success = q.artifact
    /\ q.step = "verify" => target = Restored(q.artifact)
    /\ q.step \in {"cleanup", "succeed"} => dumps[q.artifact]

StateInv ==
    /\ ToResume => Newest(state.file)
    /\ state.file <= Len(dumps)
    /\ VerifiedIsKept
    /\ VerifiedIsComplete

SerialInv == TypeOK /\ Alone /\ (\A p \in Processes : Sound(process[p])) /\ StateInv

(* A step moves one process; the others are stopped. *)
LEMMA OneMoves ==
    ASSUME TypeOK, NEW p \in Processes, \A q \in Processes \ {p} : process[q] = Stopped,
           NEW next, process' = [process EXCEPT ![p] = next], Sound(next)'
    PROVE  Alone' /\ (\A q \in Processes : Sound(process[q]))'
<1>1. process'[p] = next /\ \A q \in Processes \ {p} : process'[q] = Stopped
  BY DEF TypeOK
<1>2. Alone'
  BY <1>1 DEF Alone
<1>3. Sound(Stopped)'
  BY DEF Sound, Stopped, HasArtifact, HasNone, Holding, Drilling
<1>4. ASSUME NEW q \in Processes PROVE Sound(process[q])'
  <2>1. PICK r : r = process'[q]
    OBVIOUS
  <2>2. Sound(r)'
    BY <1>1, <1>3, <2>1
  <2> QED BY <2>1, <2>2 DEF Sound, HasArtifact, HasNone, ToResume, Newest
<1> QED BY <1>2, <1>4

LEMMA DrillSound ==
    ASSUME TypeOK, NEW p \in Processes, \A q \in Processes \ {p} : process[q] = Stopped,
           Sound(process[p]), HasArtifact(process[p]),
           NEW s \in Drilling \cup {"retain", "tidy"}, Drill(p, s),
           UNCHANGED files,
           s = "retain" => state'.result = "success" /\ state'.success = process[p].artifact,
           s = "verify" => target' = Restored(process[p].artifact),
           s \in {"cleanup", "succeed"} => dumps'[process[p].artifact]
    PROVE  Alone' /\ (\A q \in Processes : Sound(process[q]))'
<1>1. PICK a : a = process[p].artifact
  OBVIOUS
<1>2. PICK next : next = [step |-> s, artifact |-> a]
  OBVIOUS
<1>3. a \in files' /\ Newest(a)'
  BY <1>1 DEF Sound, Newest
<1>4. next.step = s /\ next.artifact = a
  BY <1>2
<1>5. HasArtifact(next) /\ ~HasNone(next) /\ s # "fail"
  BY <1>4 DEF HasArtifact, HasNone, Holding, Drilling
<1>6. Sound(next)'
  BY <1>1, <1>3, <1>4, <1>5 DEF Sound
<1>7. process' = [process EXCEPT ![p] = next]
  BY <1>1, <1>2 DEF Drill, Go
<1> QED BY <1>6, <1>7, OneMoves

LEMMA EndSound ==
    ASSUME TypeOK, NEW p \in Processes, \A q \in Processes \ {p} : process[q] = Stopped,
           NEW a, EndCycle(p, a),
           a # 0 => a \in files' /\ Newest(a)',
           a = 0 => ~ToResume'
    PROVE  Alone' /\ (\A q \in Processes : Sound(process[q]))'
<1>1. PICK next : next = IF Mode[p] = "loop" THEN [step |-> "idle", artifact |-> a] ELSE Stopped
  OBVIOUS
<1>2. \/ next = Stopped
      \/ next.step = "idle" /\ next.artifact = a
  BY <1>1
<1>3. CASE next = Stopped
  <2>1. Sound(next)'
    BY <1>3 DEF Sound, Stopped, HasArtifact, HasNone, Holding, Drilling
  <2> QED BY <1>1, <2>1, OneMoves DEF EndCycle, Go
<1>4. CASE next.step = "idle" /\ next.artifact = a
  <2>1. Sound(next)'
    BY <1>4 DEF Sound, HasArtifact, HasNone, Holding, Drilling
  <2> QED BY <1>1, <2>1, OneMoves DEF EndCycle, Go
<1> QED BY <1>2, <1>3, <1>4

LEMMA FailSound ==
    ASSUME TypeOK, NEW p \in Processes, \A q \in Processes \ {p} : process[q] = Stopped,
           Sound(process[p]), HasArtifact(process[p]),
           NEW dirty, Fail(p, dirty), UNCHANGED <<files, state>>
    PROVE  Alone' /\ (\A q \in Processes : Sound(process[q]))'
<1>1. PICK a, s : a = process[p].artifact /\ s = state
  OBVIOUS
<1>2. PICK next : next = [step |-> "fail", artifact |-> a, loaded |-> s, dirty |-> dirty]
  OBVIOUS
<1>3. a \in files' /\ Newest(a)' /\ s = state'
  BY <1>1 DEF Sound, Newest
<1>4. next.step = "fail" /\ next.artifact = a /\ next.loaded = s
  BY <1>2
<1>5. HasArtifact(next) /\ ~HasNone(next)
  BY <1>4 DEF HasArtifact, HasNone, Holding, Drilling
<1>6. Sound(next)'
  BY <1>3, <1>4, <1>5 DEF Sound
<1>7. process' = [process EXCEPT ![p] = next]
  BY <1>1, <1>2 DEF Fail, Go
<1> QED BY <1>6, <1>7, OneMoves

LEMMA StateStays ==
    ASSUME StateInv, UNCHANGED <<dumps, files, state>>
    PROVE  StateInv'
BY DEF StateInv, ToResume, Newest, VerifiedIsKept, VerifiedIsComplete

(* Whatever the failures, the crashes and the retention count: processes   *)
(* that do not overlap work on the newest artifact only.                   *)
LEMMA SerialInvariant ==
    ASSUME ~Overlap
    PROVE  Spec => []SerialInv
<1>1. Init => SerialInv
  BY BackupWorkerAssumption
  DEF Init, SerialInv, TypeOK, State, Process, Artifacts, Alone, Sound, HasArtifact, HasNone,
      Holding, Drilling, Stopped, StateInv, ToResume, VerifiedIsKept, VerifiedIsComplete
<1>2. SerialInv /\ TypeOK' /\ [Next]_vars => SerialInv'
  <2> SUFFICES ASSUME SerialInv, TypeOK', [Next]_vars
               PROVE  Alone' /\ (\A q \in Processes : Sound(process[q]))' /\ StateInv'
    BY DEF SerialInv
  <2> TypeOK /\ Alone /\ (\A q \in Processes : Sound(process[q])) /\ StateInv
    BY DEF SerialInv
  <2>1. CASE Prepare \/ UNCHANGED vars
    <3>1. UNCHANGED <<dumps, files, target, state, process>>
      BY <2>1 DEF Prepare, vars
    <3> QED BY <3>1, StateStays DEF Alone, Sound, HasArtifact, HasNone, ToResume, Newest
  <2>2. ASSUME NEW p \in Processes, Step(p)
        PROVE  Alone' /\ (\A q \in Processes : Sound(process[q]))' /\ StateInv'
    <3>a. \A q \in Processes \ {p} : process[q] = Stopped
      <4>1. CASE Start(p)
        BY <4>1 DEF Start
      <4>2. CASE ~Start(p)
        <5>1. CASE Crash(p)
          BY <5>1 DEF Crash, Alone
        <5>2. CASE ~Crash(p)
          <6>1. process[p].step \in {"idle", "dump", "retain", "fail", "tidy"} \cup Drilling
            BY <2>2, <4>2, <5>2 DEF Step, BeginCycle, Publish, CreateFails, Validate, Reset,
               Restore, Verify, Cleanup, CommandFails, RecordSuccess, RecordSuccessFails,
               RecordFailure, RecordFailureFails, Tidy, Retain, RetainFails, Drilling
          <6>2. process[p] # Stopped
            BY <6>1 DEF Drilling, Stopped
          <6> QED BY <6>2 DEF Alone
        <5> QED BY <5>1, <5>2
      <4> QED BY <4>1, <4>2
    <3>b. Sound(process[p])
      OBVIOUS
    <3>1. CASE Start(p)
      <4>1. UNCHANGED <<dumps, files, target, state>>
        BY <3>1 DEF Start
      <4>2. \/ \E a : /\ process' = [process EXCEPT ![p] = [step |-> "idle", artifact |-> a]]
                      /\ a = Pending
            \/ \E a \in files : /\ Newest(a)
                                /\ process' = [process EXCEPT ![p] =
                                                 [step |-> "validate", artifact |-> a]]
        BY <3>1 DEF Start, Go
      <4>3. ASSUME NEW a, a = Pending,
                   process' = [process EXCEPT ![p] = [step |-> "idle", artifact |-> a]]
            PROVE  Alone' /\ (\A q \in Processes : Sound(process[q]))'
        <5>1. PICK next : next = [step |-> "idle", artifact |-> a]
          OBVIOUS
        <5>2. \/ a = 0 /\ ~ToResume
              \/ a \in files /\ Newest(a) /\ a # 0
          BY <4>3, FilesAreArtifacts DEF Pending, ToResume, StateInv, Artifacts
        <5>3. next.step = "idle" /\ next.artifact = a
          BY <5>1
        <5>4. Sound(next)'
          BY <4>1, <5>2, <5>3
          DEF Sound, HasArtifact, HasNone, Holding, Drilling, Newest, ToResume
        <5> QED BY <3>a, <4>3, <5>1, <5>4, OneMoves
      <4>4. ASSUME NEW a \in files, Newest(a),
                   process' = [process EXCEPT ![p] = [step |-> "validate", artifact |-> a]]
            PROVE  Alone' /\ (\A q \in Processes : Sound(process[q]))'
        <5>1. PICK next : next = [step |-> "validate", artifact |-> a]
          OBVIOUS
        <5>2. next.step = "validate" /\ next.artifact = a
          BY <5>1
        <5>3. Sound(next)'
          BY <4>1, <4>4, <5>2 DEF Sound, HasArtifact, HasNone, Holding, Drilling, Newest
        <5> QED BY <3>a, <4>4, <5>1, <5>3, OneMoves
      <4> QED BY <4>1, <4>2, <4>3, <4>4, StateStays
    <3>2. CASE BeginCycle(p)
      <4>1. UNCHANGED <<dumps, files, target, state>>
        BY <3>2 DEF BeginCycle
      <4>2. CASE process[p].artifact # 0
        <5>1. HasArtifact(process[p])
          BY <3>2, <4>2 DEF BeginCycle, HasArtifact
        <5> QED BY <3>2, <3>a, <3>b, <4>1, <4>2, <5>1, DrillSound, StateStays
                DEF BeginCycle, Drilling
      <4>3. CASE process[p].artifact = 0
        <5>1. PICK next : /\ next = [step |-> "dump", complete |-> database]
                          /\ process' = [process EXCEPT ![p] = next]
          BY <3>2, <4>3 DEF BeginCycle, Go
        <5>2. next.step = "dump"
          BY <5>1
        <5>3. ~ToResume'
          BY <3>2, <3>b, <4>1, <4>3 DEF BeginCycle, Sound, HasNone, ToResume
        <5>4. Sound(next)'
          BY <5>2, <5>3 DEF Sound, HasArtifact, HasNone, Holding, Drilling
        <5> QED BY <3>a, <4>1, <5>1, <5>4, OneMoves, StateStays
      <4> QED BY <4>2, <4>3
    <3>c. ASSUME process[p].step = "dump", Len(dumps) < MaxArtifacts, Published(p),
                 UNCHANGED state, NEW n, n = Len(dumps) + 1
          PROVE  StateInv' /\ ~ToResume' /\ n \in files' /\ Newest(n)'
      <4>1. ~ToResume
        BY <3>b, <3>c DEF Sound, HasNone
      <4>2. /\ Len(dumps) \in Nat /\ files \subseteq 1..Len(dumps)
            /\ state.file \in Nat /\ state.file <= Len(dumps)
        BY FilesAreArtifacts DEF TypeOK, State, Artifacts, StateInv
      <4>3. /\ files' = files \cup {n} /\ Len(dumps') = n
            /\ \A a \in 1..Len(dumps) : dumps'[a] = dumps[a]
        BY <3>c, PublishedFacts
      <4>4. ~ToResume'
        BY <3>c, <4>1, <4>2, <4>3 DEF ToResume
      <4>5. n \in files' /\ Newest(n)'
        BY <3>c, <4>2, <4>3 DEF Newest
      <4>6. state'.file <= Len(dumps')
        BY <3>c, <4>2, <4>3
      <4>7. VerifiedIsKept'
        BY <3>c, <4>3 DEF StateInv, VerifiedIsKept
      <4>8. VerifiedIsComplete'
        BY <3>c, <4>2, <4>3 DEF StateInv, VerifiedIsKept, VerifiedIsComplete
      <4> QED BY <4>4, <4>5, <4>6, <4>7, <4>8 DEF StateInv
    <3>3. CASE Publish(p)
      <4>1. PICK n : n = Len(dumps) + 1
        OBVIOUS
      <4>2. PICK next : /\ next = [step |-> "validate", artifact |-> n]
                        /\ process' = [process EXCEPT ![p] = next]
        BY <3>3, <4>1 DEF Publish, Go
      <4>3. next.step = "validate" /\ next.artifact = n
        BY <4>2
      <4>4. StateInv' /\ n \in files' /\ Newest(n)'
        BY <3>3, <3>c, <4>1 DEF Publish
      <4>5. Sound(next)'
        BY <4>3, <4>4 DEF Sound, HasArtifact, HasNone, Holding, Drilling
      <4> QED BY <3>a, <4>2, <4>4, <4>5, OneMoves
    <3>4. CASE CreateFails(p)
      <4>1. StateInv' /\ ~ToResume'
        <5>1. CASE UNCHANGED <<dumps, files>>
          <6>1. ~ToResume /\ UNCHANGED state
            BY <3>4, <3>b DEF CreateFails, Sound, HasNone
          <6> QED BY <5>1, <6>1, StateStays DEF ToResume
        <5>2. CASE Len(dumps) < MaxArtifacts /\ Published(p)
          BY <3>4, <3>c, <5>2 DEF CreateFails
        <5> QED BY <3>4, <5>1, <5>2 DEF CreateFails
      <4>2. EndCycle(p, 0)
        BY <3>4 DEF CreateFails
      <4> QED BY <3>a, <4>1, <4>2, EndSound
    <3>5. CASE Validate(p)
      <4>1. HasArtifact(process[p]) /\ UNCHANGED <<dumps, files, target, state>>
        BY <3>5 DEF Validate, HasArtifact, Holding, Drilling
      <4>2. Drill(p, "reset") \/ Fail(p, FALSE)
        BY <3>5 DEF Validate
      <4> QED BY <3>a, <3>b, <4>1, <4>2, DrillSound, FailSound, StateStays DEF Drilling
    <3>6. CASE Reset(p)
      <4>1. /\ HasArtifact(process[p]) /\ UNCHANGED <<dumps, files, state>>
            /\ Drill(p, "restore")
        BY <3>6 DEF Reset, HasArtifact, Holding, Drilling
      <4> QED BY <3>a, <3>b, <4>1, DrillSound, StateStays DEF Drilling
    <3>7. CASE Restore(p)
      <4>1. HasArtifact(process[p]) /\ UNCHANGED <<dumps, files, state>>
        BY <3>7 DEF Restore, HasArtifact, Holding, Drilling
      <4>2. \/ Drill(p, "verify") /\ target' = Restored(process[p].artifact)
            \/ Fail(p, TRUE)
        BY <3>7 DEF Restore
      <4> QED BY <3>a, <3>b, <4>1, <4>2, DrillSound, FailSound, StateStays DEF Drilling
    <3>8. CASE Verify(p)
      <4>1. HasArtifact(process[p]) /\ UNCHANGED <<dumps, files, state>>
        BY <3>8 DEF Verify, HasArtifact, Holding, Drilling
      <4>2. \/ Drill(p, "cleanup") /\ Verified
            \/ Fail(p, TRUE)
        BY <3>8 DEF Verify
      <4>3. Verified => dumps[process[p].artifact]
        BY <3>8, <3>b DEF Verify, Sound, Verified, Restored
      <4>4. Verified => dumps'[process[p].artifact]
        BY <4>1, <4>3
      <4> QED BY <3>a, <3>b, <4>1, <4>2, <4>4, DrillSound, FailSound, StateStays DEF Drilling
    <3>9. CASE Cleanup(p)
      <4>1. /\ HasArtifact(process[p]) /\ UNCHANGED <<dumps, files, state>>
            /\ Drill(p, "succeed")
        BY <3>9 DEF Cleanup, HasArtifact, Holding, Drilling
      <4>2. dumps'[process[p].artifact]
        BY <3>9, <3>b DEF Cleanup, Sound
      <4> QED BY <3>a, <3>b, <4>1, <4>2, DrillSound, StateStays DEF Drilling
    <3>10. CASE CommandFails(p)
      <4>1. HasArtifact(process[p]) /\ UNCHANGED <<dumps, files, state>>
        BY <3>10 DEF CommandFails, HasArtifact, Holding, Drilling
      <4>2. \E dirty : Fail(p, dirty)
        BY <3>10 DEF CommandFails
      <4> QED BY <3>a, <3>b, <4>1, <4>2, FailSound, StateStays
    <3>11. CASE RecordSuccess(p)
      <4>1. /\ HasArtifact(process[p]) /\ UNCHANGED <<dumps, files, target>>
            /\ state' = [result |-> "success", file |-> process[p].artifact,
                         success |-> process[p].artifact]
        BY <3>11 DEF RecordSuccess, HasArtifact, Holding, Drilling
      <4>2. /\ process[p].artifact \in files
            /\ process[p].artifact <= Len(dumps)
            /\ dumps[process[p].artifact]
        BY <3>11, <3>b, <4>1 DEF RecordSuccess, Sound, TypeOK
      <4>3. state'.result = "success" /\ state'.success = process[p].artifact
        BY <4>1
      <4>4. StateInv'
        BY <4>1, <4>2 DEF StateInv, ToResume, VerifiedIsKept, VerifiedIsComplete
      <4>5. CASE Drill(p, "retain")
        BY <3>a, <3>b, <4>1, <4>3, <4>4, <4>5, DrillSound DEF Drilling
      <4>6. CASE Go(p, Stopped)
        <5>1. Sound(Stopped)'
          BY DEF Sound, Stopped, HasArtifact, HasNone, Holding, Drilling
        <5>2. PICK next : next = Stopped
          OBVIOUS
        <5>3. Sound(next)'
          BY <5>1, <5>2
        <5> QED BY <3>a, <4>4, <4>6, <5>2, <5>3, OneMoves DEF Go
      <4> QED BY <3>11, <4>5, <4>6 DEF RecordSuccess
    <3>d. ASSUME HasArtifact(process[p]), NEW a, a = process[p].artifact
          PROVE  a # 0 /\ a \in files /\ Newest(a) /\ a <= Len(dumps)
      BY <3>b, <3>d DEF Sound, TypeOK
    <3>12. CASE RecordSuccessFails(p)
      <4>1. PICK a : a = process[p].artifact
        OBVIOUS
      <4>2. HasArtifact(process[p]) /\ UNCHANGED <<dumps, files, state>> /\ EndCycle(p, a)
        BY <3>12, <4>1 DEF RecordSuccessFails, HasArtifact, Holding, Drilling
      <4>3. a # 0 /\ a \in files' /\ Newest(a)'
        BY <3>d, <4>1, <4>2 DEF Newest
      <4> QED BY <3>a, <4>2, <4>3, EndSound, StateStays
    <3>13. CASE RecordFailure(p) \/ RecordFailureFails(p)
      <4>1. PICK a : a = process[p].artifact
        OBVIOUS
      <4>2. /\ HasArtifact(process[p]) /\ UNCHANGED <<dumps, files, target>>
            /\ Drill(p, "tidy") \/ EndCycle(p, a)
        BY <3>13, <4>1
        DEF RecordFailure, RecordFailureFails, AfterFailure, HasArtifact, Holding, Drilling
      <4>3. a # 0 /\ a \in files' /\ Newest(a)' /\ a <= Len(dumps')
        BY <3>d, <4>1, <4>2 DEF Newest
      <4>4. StateInv'
        <5>1. CASE RecordFailure(p)
          <6>1. state' = [state EXCEPT !.result = "failure", !.file = a]
            BY <3>b, <4>1, <5>1 DEF RecordFailure, Failed, Sound
          <6>2. state'.file = a /\ state'.success = state.success
            BY <6>1 DEF TypeOK, State
          <6>3. ToResume' => Newest(state.file)'
            BY <4>3, <6>2 DEF Newest
          <6> QED BY <4>2, <4>3, <6>2, <6>3 DEF StateInv, VerifiedIsKept, VerifiedIsComplete
        <5>2. CASE RecordFailureFails(p)
          BY <5>2, StateStays DEF RecordFailureFails
        <5> QED BY <3>13, <5>1, <5>2
      <4> QED BY <3>a, <3>b, <4>2, <4>3, <4>4, DrillSound, EndSound DEF Drilling
    <3>14. CASE Tidy(p)
      <4>1. PICK a : a = process[p].artifact
        OBVIOUS
      <4>2. HasArtifact(process[p]) /\ UNCHANGED <<dumps, files, state>> /\ EndCycle(p, a)
        BY <3>14, <4>1 DEF Tidy, HasArtifact, Holding
      <4>3. a # 0 /\ a \in files' /\ Newest(a)'
        BY <3>d, <4>1, <4>2 DEF Newest
      <4> QED BY <3>a, <4>2, <4>3, EndSound, StateStays
    <3>15. CASE Retain(p) \/ RetainFails(p)
      <4>1. PICK a : a = process[p].artifact
        OBVIOUS
      <4>2. /\ HasArtifact(process[p]) /\ UNCHANGED <<dumps, state>>
            /\ state.result = "success" /\ state.success = a
            /\ files' \subseteq files /\ \A b \in files : b \notin Victims => b \in files'
            /\ EndCycle(p, 0) \/ EndCycle(p, a)
        BY <3>15, <3>b, <4>1 DEF Retain, RetainFails, HasArtifact, Holding, Sound
      <4>3. a # 0 /\ a \in files /\ Newest(a)
        BY <3>d, <4>1, <4>2
      <4>4. a \notin Victims
        <5>1. {b \in files : b > a} = {}
          BY <4>3, FilesAreArtifacts DEF Newest, Artifacts
        <5>2. Cardinality({b \in files : b > a}) = 0
          BY <5>1, FS_EmptySet
        <5> QED BY <5>2, BackupWorkerAssumption DEF Victims
      <4>5. a \in files' /\ Newest(a)' /\ ~ToResume'
        BY <4>2, <4>3, <4>4 DEF Newest, ToResume
      <4>6. StateInv'
        BY <4>2, <4>5 DEF StateInv, VerifiedIsKept, VerifiedIsComplete
      <4> QED BY <3>a, <4>2, <4>3, <4>5, <4>6, EndSound
    <3>16. CASE Crash(p)
      <4>1. PICK next : next = Stopped
        OBVIOUS
      <4>2. process' = [process EXCEPT ![p] = next] /\ UNCHANGED <<dumps, files, target, state>>
        BY <3>16, <4>1 DEF Crash, Go
      <4>3. Sound(next)'
        BY <4>1 DEF Sound, Stopped, HasArtifact, HasNone, Holding, Drilling
      <4> QED BY <3>a, <4>2, <4>3, OneMoves, StateStays
    <3> QED BY <2>2, <3>1, <3>2, <3>3, <3>4, <3>5, <3>6, <3>7, <3>8, <3>9, <3>10, <3>11, <3>12,
               <3>13, <3>14, <3>15, <3>16 DEF Step
  <2> QED BY <2>1, <2>2 DEF Next
<1> QED BY <1>1, <1>2, TypeCorrect, PTL DEF Spec

(* docs/local-operations.md: "always preserves the latest verified copy".  *)
THEOREM VerifiedStays ==
    ASSUME ~Overlap
    PROVE  Spec => []VerifiedIsKept
BY SerialInvariant, PTL DEF SerialInv, StateInv

(* docs/backup-restore.md: success is reported for what was restored from  *)
(* the artifact itself and verified.                                       *)
THEOREM SuccessIsVerified ==
    ASSUME ~Overlap
    PROVE  Spec => []VerifiedIsComplete
BY SerialInvariant, PTL DEF SerialInv, StateInv

(* Only the recording of a drill's result writes the state file: a success *)
(* is about the newest artifact, and a failure keeps what was loaded.      *)
LEMMA StateWriters ==
    ASSUME NEW p \in Processes, Step(p), ~RecordSuccess(p), ~RecordFailure(p)
    PROVE  UNCHANGED state
BY DEF Step, Start, BeginCycle, Publish, CreateFails, Validate, Reset, Restore, Verify, Cleanup,
       CommandFails, RecordSuccessFails, RecordFailureFails, Tidy, Retain, RetainFails, Crash

(* A failed drill, a crash or a second verification never makes the state  *)
(* file forget the latest verified artifact.                               *)
THEOREM SuccessOnlyMovesForward ==
    ASSUME ~Overlap
    PROVE  Spec => SuccessMovesForward
<1>1. SerialInv /\ [Next]_vars => [state'.success >= state.success]_vars
  <2> SUFFICES ASSUME SerialInv, [Next]_vars PROVE state'.success >= state.success
    OBVIOUS
  <2>1. TypeOK /\ state.success \in Nat /\ files \subseteq Nat
    BY FilesAreArtifacts DEF SerialInv, TypeOK, State, Artifacts
  <2>2. CASE UNCHANGED state
    BY <2>1, <2>2
  <2>3. ASSUME NEW p \in Processes, RecordSuccess(p) PROVE state'.success >= state.success
    <3>1. PICK a : a = process[p].artifact
      OBVIOUS
    <3>2. a \in files /\ Newest(a)
      BY <2>3, <3>1 DEF SerialInv, Sound, RecordSuccess, HasArtifact, Holding, Drilling
    <3>3. state'.success = a
      BY <2>3, <3>1 DEF RecordSuccess
    <3>4. a \in Nat /\ a >= state.success
      BY <2>1, <3>2 DEF SerialInv, StateInv, VerifiedIsKept, Newest
    <3> QED BY <3>3, <3>4
  <2>4. ASSUME NEW p \in Processes, RecordFailure(p) PROVE state'.success >= state.success
    <3>1. state' = [state EXCEPT !.result = "failure", !.file = process[p].artifact]
      BY <2>4 DEF SerialInv, Sound, RecordFailure, Failed
    <3>2. state'.success = state.success
      BY <2>1, <3>1 DEF TypeOK, State
    <3> QED BY <2>1, <3>2
  <2> QED BY <2>2, <2>3, <2>4, StateWriters DEF Next, Prepare, vars
<1> QED BY <1>1, SerialInvariant, PTL DEF Spec, SuccessMovesForward
============================================================================
