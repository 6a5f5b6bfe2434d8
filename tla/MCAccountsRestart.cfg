SPECIFICATION FairSpec
CONSTANTS
    Users = {u1, u2}
    Mangas = {m1}
    Databases = {FALSE}
    Requests = {r1}
    Startup = startup
    Kinds = {"delete", "me"}
    NoUser = nobody
    MaxCrashes = 1
    MayTimeOut = TRUE
INVARIANTS
    FirebaseDeletionWasRequested
PROPERTIES
    ImplementsContract
    StartEnds
    RequestsEnd
