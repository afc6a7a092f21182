\* Two members of a group, one of which acknowledges by hand.
CONSTANTS
    Members = {s1, s2}
    NoOwner = NoOwner
    AutoAck = {s1}
    MaxMsgs = 3
    MaxEnds = 2
SPECIFICATION FairSpec
CHECK_DEADLOCK FALSE
INVARIANTS
    GroupTypeOK
    CommitFollowsHandling
PROPERTY GroupConsumes
