SPECIFICATION FairSpec
CONSTANTS
    Emails = {e1}
    Renderable = {e1}
    Workers = {w1}
    Clients = {"smtp"}
    MaxAttempts = 2
    BatchSize = 1
    StaleAfter = 2
    Delays <- MCDelays
    SendOutcomes = {"delivered", "refused"}
    FaultKinds = {"restart"}
    MaxFaults = 1
INVARIANTS NoDoubleDelivery
