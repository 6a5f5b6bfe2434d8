SPECIFICATION Spec
CONSTANTS
    Users = {u1}
    Mangas = {m1}
    Slots = {s1, s2}
    Usernames = {n1}
    Births = {b1, b2}
    Modes = {vertical}
    Filters = {f1}
    DefaultMode = vertical
    Kinds = {"post"}
    MaxRequests = 2
    Null = Null
PROPERTIES
    AuthorsPreserved
