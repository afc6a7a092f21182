\* Overlapping calls at both kinds of brokers, with failures.
CONSTANTS
    Callers = {c1, c2}
    NoCaller = NoCaller
    Topics = {a, b}
    MaxLoops = 2
    MaxFailures = 2
SPECIFICATION FairSpec
INVARIANTS
    TypeOK
    NoDoubleSubscription
    StopStops
    StartServes
PROPERTY StopReturns
