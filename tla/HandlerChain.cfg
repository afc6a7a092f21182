\* Two actors; two calls of a handler in each, two publishes in all.
CONSTANTS
    N = 2
    Chains <- MCChains
    Attempts = 2
    MaxPublishes = 2
SPECIFICATION Spec
INVARIANTS TypeOK TraceUnbroken EachCallAccounted
\* Calls end.
CHECK_DEADLOCK FALSE
