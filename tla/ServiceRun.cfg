\* One subscription, one request, two signals.
CONSTANTS
    Web = web
    Service = service
    Requests = {r1}
    Subs = {s1}
    Callers = {web, service, r1, s1}
    None = None
    Buffer = 1
    MaxSignals = 2
SPECIFICATION Spec
INVARIANTS TypeOK WorkIsServed NothingLeftOpen
 
\* The services end.
CHECK_DEADLOCK FALSE
