\* A broker may not wait for the reader of a subscription that ends.
CONSTANTS
    Callers = {c1}
    NoCaller = NoCaller
    Topics = {a}
    MaxLoops = 1
    MaxFailures = 0
SPECIFICATION Spec
INVARIANT StopDrainsHandlers
