SPECIFICATION FairPipelineSpec
CONSTANTS
    alice = alice
    bob = bob
    eve = eve
    Limits <- ThreeKeys
    Window = 1
    MaxBuckets = 2
    MaxTime = 4
    Conns = {c1, c2}
    MaxBody = 1
    Patience = 1
INVARIANTS
    PipelineTypeOK
    WindowRespected
    HeadersEverywhere
PROPERTIES
    RefusalsEarned
    LeastRecentForgotten
    ImplementsStore
    RequestsAnswered
