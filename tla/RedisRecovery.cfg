\* One loop, batches of one, a message that always fails at the head of the
\* pending list, claims exactly as often as entries become idle.
CONSTANTS
    Workers = {w1}
    MaxMsgs = 3
    BatchCount = 1
    ScanLimit = 2
    MinIdle = 2
    ClaimInterval = 2
    BlockTimeout = 0
    ErrDelay = 1
    RetryDelay = 1
    MaxHandling = 1
    AutoAck = {w1}
    Poison = {1}
    MaxFaults = 2
SPECIFICATION FairSpec
PROPERTIES
    EventuallyAcked
    StopEnds
