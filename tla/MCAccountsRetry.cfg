SPECIFICATION Spec
CONSTANTS
    Users = {u1}
    Mangas = {m1}
    Databases = {TRUE}
    Requests = {r1, r2}
    Startup = startup
    Kinds = {"delete", "put_prefs"}
    NoUser = nobody
    MaxCrashes = 0
    MayTimeOut = FALSE
INVARIANTS
    SafeToRetry
