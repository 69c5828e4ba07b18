CONSTANTS
    Requests = {r1, r2}
    Sessions = {s1}
    Clients = {c1}
    UploadIds = {u1, u2}
    Dates = {d1}
    CustomKeywords = {k1}
    AudioChoices = {TRUE, FALSE}
    MaxOrder = 1
    PoolSize = 3
    TTL = 1
    MaxTime = 2
    None = None
SPECIFICATION Spec
SYMMETRY Symmetry
INVARIANT FilesAgreeWithItem
