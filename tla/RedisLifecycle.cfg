\* Three callers and two subscription objects, any interleaving of their calls.
CONSTANTS
    Callers = {t1, t2, t3}
    Subs = {s1, s2}
    None = None
SPECIFICATION FairSpec
INVARIANTS
    TypeOK
    QuietWhenDown
    LoopsAccounted
    DrainsAlone
PROPERTIES
    CallsReturn
