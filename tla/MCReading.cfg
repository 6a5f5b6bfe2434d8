SPECIFICATION Spec
CONSTANTS
    Slots = {s1, s2}
    Titles = {t1}
    Languages = {plain, es}
    NoLanguage = plain
    Ages = {Null, 16}
    Ratings = {"safe", "suggestive"}
    Jikan = TRUE
    Patience = 1
    Kinds = {"detail", "pages", "list", "latest", "tags"}
    Null = Null
    MaxRequests = 2
    MaxChanges = 1
    Ttl = 1
    MaxSize = 2
SYMMETRY Symmetric
INVARIANTS
    TypeOK
    RestrictionsTakeEffect
    RefusalsHaveReason
    FallbackFades
PROPERTIES
    ImplementsMemory
