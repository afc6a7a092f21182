\* Three subscribers come and go, unsubscribed up to twice, beside a publish.
CONSTANTS
    Subs = {s1, s2, s3}
    Msgs = {m1}
    MaxUnsubs = 2
SPECIFICATION FairSpec
INVARIANTS
    TypeOK
    OkMeansAllHandled
    RegistrationExact
PROPERTY UnsubscribeTakesEffect
