-------------------------- MODULE MCBackupWorker --------------------------
(* Small instances of BackupWorker. *)
EXTENDS BackupWorker

(* The daemon alone, and the daemon with both one-off commands. *)
DaemonMode == [p \in Processes |-> "loop"]
MixedMode ==
    [p \in Processes |-> CASE p = "daemon" -> "loop" [] p = "once" -> "once" [] OTHER -> "verify"]
TwoModes == [p \in Processes |-> IF p = "daemon" THEN "loop" ELSE "once"]
============================================================================
