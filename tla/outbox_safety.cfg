SPECIFICATION Spec
CONSTANTS
    Emails = {e1, e2}
    Renderable = {e1}
    Workers = {w1, w2}
    Clients = {"smtp", "noop"}
    MaxAttempts = 2
    BatchSize = 2
    StaleAfter = 2
    Delays <- MCDelays
    SendOutcomes = {"delivered", "refused", "unacknowledged"}
    FaultKinds = {"claim unseen", "claim aborted", "mark lost", "restart"}
    MaxFaults = 1
SYMMETRY Symmetry
INVARIANTS ClaimsDistinct DeliveriesCounted SentIsExplained FailedIsExhausted
