SPECIFICATION FairCallsSpec
CONSTANTS
    Requests = {q1, q2}
    Interval = 1
    RetryAfters = {0, 1, 3}
    MaxAhead = 2
    MaxLate = 1
    MaxTime = 9
    Routes <- TwoRoutes
    HttpTimeout = 1
    DefaultRetries = 2
    BaseDelay = 1
    MaxDelay = 2
    Patience = 5
    Horizon = 2
INVARIANTS
    CallsTypeOK
    SlotsApart
PROPERTIES
    NoSendInCooldown
    OneSlotPerCooldown
    ImplementsGate
    WaitersReleased
    TagsInTime
    ImplementsLimiter
