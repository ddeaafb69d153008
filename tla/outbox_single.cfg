SPECIFICATION FairSpec
CONSTANTS
    Emails = {e1, e2}
    Renderable = {e1}
    Workers = {w1}
    Clients = {"smtp", "noop"}
    MaxAttempts = 2
    BatchSize = 1
    StaleAfter = 2
    Delays <- MCDelays
    SendOutcomes = {"delivered", "refused", "unacknowledged"}
    FaultKinds = {"claim unseen", "claim aborted", "mark lost", "restart"}
    MaxFaults = 2
INVARIANTS ExcessIsPaidByFaults
PROPERTIES SettledIsFinal ImplementsDelivery EventuallySettled
