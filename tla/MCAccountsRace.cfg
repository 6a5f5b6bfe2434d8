SPECIFICATION Spec
CONSTANTS
    Users = {u1}
    Mangas = {m1}
    Databases = {FALSE}
    Requests = {r1, r2}
    Startup = startup
    Kinds = {"delete", "add"}
    NoUser = nobody
    MaxCrashes = 0
    MayTimeOut = FALSE
INVARIANTS
    DeletedForGood
