\* Four retries, a DLQ, panics, cancellation at any point; the last backoff
\* overflows.
CONSTANTS
    MaxRetries = 4
    InitialBackoff = 1
    MaxBackoff = 3
    Multiplier = 2
    MaxDuration = 7
    HasDLQ = TRUE
    MayCancel = TRUE
    MayPanic = TRUE
SPECIFICATION FairSpec
INVARIANTS
    AckedIsSafe
    DeadAfterAllAttempts
    BackoffGrows
PROPERTIES
    CancelInterrupts
    EventuallySettled
