CONSTANTS
    Requests = {r1, r2}
    Sessions = {s1, s2}
    Clients = {c1}
    UploadIds = {u1, u2}
    Dates = {d1, d2}
    CustomKeywords = {}
    AudioChoices = {FALSE}
    MaxOrder = 1
    PoolSize = 3
    TTL = 1
    MaxTime = 1
    None = None
SPECIFICATION Spec
SYMMETRY Symmetry
INVARIANT StatsNeverOvercount
