\* Two addons, two requests at once, any number of failed saves, crashes and restarts.
CONSTANTS
    u1 = u1
    u2 = u2
    i1 = i1
    i2 = i2
    Urls = {u1, u2}
    Ids = {i1, i2}
    IdOf <- MCIdOf
    NoId = NoId
    Names = {n1}
    NoName = NoName
    Methods = {global, direct}
    Global = global
    Requests = {r1, r2}
    Torn = Torn
SPECIFICATION Spec
SYMMETRY Symmetry
INVARIANTS TypeOK AcksAreDurable
