SPECIFICATION Spec
CONSTANTS
    t1 = t1
    t2 = t2
    Clients = {c1, c2}
    Catalogue <- Shelf
    Uploads <- EitherUpload
    Queries <- SomeQueries
    Limits = {1}
    Offsets = {0}
    PageSize = 1
    MaxOffset = 2
    Secret = TRUE
    Patience = 1
    MaxScans = 1
    MaxRequests = 3
    MaxChanges = 1
    Null = Null
    Ttl = 1
    MaxSize = 1
SYMMETRY Symmetric
INVARIANTS
    TypeOK
    PagesFitTheReader
    CursorsLast
PROPERTIES
    NothingIsLost
    ImplementsListing
CHECK_DEADLOCK FALSE
