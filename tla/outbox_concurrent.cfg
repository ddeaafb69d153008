SPECIFICATION FairSpec
CONSTANTS
    Emails = {e1}
    Renderable = {e1}
    Workers = {w1, w2}
    Clients = {"smtp"}
    MaxAttempts = 2
    BatchSize = 1
    StaleAfter = 2
    Delays <- MCDelays
    SendOutcomes = {"delivered", "refused"}
    FaultKinds = {}
    MaxFaults = 0
PROPERTIES SettledIsFinal
