SPECIFICATION FairSpec
CONSTANTS
    Deliveries = {1, 2}
    Workers = {w1}
    NoWorker = NoWorker
    RetryCount = 1
    Backoff = 1
    MaxBackoff = 2
    MaxRetryAfter = 2
    RetryAfters = {0}
    ClaimLease = 2
    PendingStale = 1
    DispatchLease = 1
    BatchSize = 1
    WorkerTimeout = 2
    BrokerRetry = 3
    Detachable = {}
    MaxAttempts = 9
    MaxCopies = 1
    MaxFaults = 1
PROPERTIES EventuallySettled
CHECK_DEADLOCK FALSE
