SPECIFICATION Spec
CONSTANTS
    Users = {u1}
    Mangas = {m1}
    Databases = {TRUE, FALSE}
    Requests = {r1, r2}
    Startup = startup
    Kinds = {"delete", "put_prefs", "add", "remove"}
    NoUser = nobody
    MaxCrashes = 1
    MayTimeOut = TRUE
SYMMETRY Symmetric
INVARIANTS
    TypeOK
    OrphansOnlyAfterDeletion
    ForeignKeySafeOrder
PROPERTIES
    ErasureIsEarned
    ErasedWhenAnswered
