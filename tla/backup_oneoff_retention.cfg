SPECIFICATION Spec
CONSTANTS
    Processes = {"daemon", "once"}
    Mode <- TwoModes
    Keep = 1
    Overlap = TRUE
    MaxArtifacts = 3
    MaxFaults = 1
INVARIANT VerifiedIsKept
CHECK_DEADLOCK FALSE
