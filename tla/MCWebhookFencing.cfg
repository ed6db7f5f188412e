SPECIFICATION Spec
CONSTANTS
    Deliveries = {1}
    Workers = {w1, w2}
    NoWorker = NoWorker
    RetryCount = 1
    Backoff = 0
    MaxBackoff = 2
    MaxRetryAfter = 2
    RetryAfters = {}
    ClaimLease = 2
    PendingStale = 1
    DispatchLease = 2
    BatchSize = 1
    WorkerTimeout = 3
    BrokerRetry = 3
    Detachable = {1}
    MaxAttempts = 2
    MaxCopies = 2
    MaxFaults = 1
PROPERTIES OnlyOwnerSettles
SYMMETRY WorkerSymmetry
CHECK_DEADLOCK FALSE
