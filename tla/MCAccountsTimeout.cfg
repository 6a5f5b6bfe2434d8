SPECIFICATION Spec
CONSTANTS
    Users = {u1}
    Mangas = {m1}
    Databases = {FALSE}
    Requests = {r1}
    Startup = startup
    Kinds = {"delete"}
    NoUser = nobody
    MaxCrashes = 0
    MayTimeOut = FALSE
INVARIANTS
    TimeoutLeavesRecord
