SPECIFICATION FairSpec
CONSTANTS
    Processes = {"daemon", "once", "verify"}
    Mode <- MixedMode
    Keep = 2
    Overlap = FALSE
    MaxArtifacts = 4
    MaxFaults = 3
INVARIANTS TypeOK VerifiedIsKept VerifiedIsComplete
PROPERTIES SuccessMovesForward BackupsContinue
CHECK_DEADLOCK FALSE
