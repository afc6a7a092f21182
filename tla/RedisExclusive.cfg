\* Two loops, automatic acks, every batch handled before it can be reclaimed.
CONSTANTS
    Workers = {w1, w2}
    MaxMsgs = 3
    BatchCount = 2
    ScanLimit = 3
    MinIdle = 2
    ClaimInterval = 1
    BlockTimeout = 3
    ErrDelay = 1
    RetryDelay = 1
    MaxHandling = 1
    AutoAck = {w1, w2}
    Poison = {}
    MaxFaults = 2
SPECIFICATION Spec
SYMMETRY WorkerSymmetry
INVARIANTS
    TypeOK
    ExclusiveHandling
    NeverHandlesAcked
    RecoveryOnTime
