SPECIFICATION Spec
CONSTANTS
    Deliveries = {1}
    Workers = {w1, w2}
    NoWorker = NoWorker
    RetryCount = 1
    Backoff = 0
    MaxBackoff = 2
    MaxRetryAfter = 2
    RetryAfters = {1, 5}
    ClaimLease = 3
    PendingStale = 1
    DispatchLease = 2
    BatchSize = 1
    WorkerTimeout = 3
    BrokerRetry = 4
    Detachable = {}
    MaxAttempts = 9
    MaxCopies = 2
    MaxFaults = 2
INVARIANTS OneActiveSend ClaimedRetryKeepsPackage AttemptBudget
PROPERTIES TerminalIsFinal ImplementsContract
SYMMETRY WorkerSymmetry
CHECK_DEADLOCK FALSE
