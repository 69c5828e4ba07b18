CONSTANTS
    Requests = {r1, r2}
    Sessions = {s1}
    Clients = {c1, c2}
    UploadIds = {u1, u2}
    Dates = {d1}
    CustomKeywords = {}
    AudioChoices = {FALSE}
    MaxOrder = 3
    PoolSize = 3
    TTL = 1
    MaxTime = 2
    None = None
SPECIFICATION Spec
SYMMETRY Symmetry
INVARIANT TypeOK
INVARIANT OneUploadPerSession
INVARIANT UploadMatchesSession
INVARIANT ItemsConsistent
INVARIANT AggregateIsCurrent
PROPERTY CommittedIsFinal
PROPERTY LateRequestsChangeNothing
PROPERTY ImplementsPublication
