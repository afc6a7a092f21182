\* Two subscribers share a queue, queues hold one message.
CONSTANTS
    Subs = {s1, s2}
    Msgs = {m1, m2, m3}
    GroupOf <- Pair
    Limit = 1
    MayStop = TRUE
SPECIFICATION FairSpec
INVARIANTS
    TypeOK
    OncePerGroup
PROPERTY GroupServedUnlessStopped
