SPECIFICATION Spec
CONSTANTS
    Users = {u1, u2}
    Mangas = {m1}
    Slots = {s1, s2}
    Usernames = {n1, n2}
    Births = {b1, b2}
    Modes = {vertical, paged}
    Filters = {f1}
    DefaultMode = vertical
    Kinds = {"patchMe", "getPrefs", "putPrefs", "post", "getLibrary", "patchEntry", "remove"}
    MaxRequests = 3
    Null = Null
SYMMETRY Symmetric
INVARIANTS
    TypeOK
    UsernamesUnique
PROPERTIES
    OnlySentFieldsChange
    BirthDateKept
    EntriesSurviveRefresh
    RemovedStaysRemoved
