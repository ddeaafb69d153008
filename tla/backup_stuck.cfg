SPECIFICATION FairSpec
CONSTANTS
    Processes = {"daemon"}
    Mode <- DaemonMode
    Keep = 2
    Overlap = FALSE
    MaxArtifacts = 3
    MaxFaults = 0
PROPERTY BackupsAlwaysContinue
CHECK_DEADLOCK FALSE
