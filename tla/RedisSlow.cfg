\* One subscription acknowledges automatically, one lets the application do it
\* later; a message may always fail.  Handlers may outlast the idle threshold:
\* messages are claimed under them.
CONSTANTS
    Workers = {w1, w2}
    MaxMsgs = 2
    BatchCount = 2
    ScanLimit = 3
    MinIdle = 1
    ClaimInterval = 1
    BlockTimeout = 0
    ErrDelay = 1
    RetryDelay = 0
    MaxHandling = 2
    AutoAck = {w1}
    Poison = {2}
    MaxFaults = 2
SPECIFICATION Spec
INVARIANTS
    NoLoss
PROPERTIES
    ImplementsContract
