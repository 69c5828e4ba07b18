SPECIFICATION ServingSpec
CONSTANTS
    Requests = {r1, r2, r3}
    Slots = {l1, l2}
    Clients = {c1, c2}
    Limiters = {1, 2, 3, 4, 5}
    Rate = 1
    Burst = 2
    EntryTTL = 3
    MaxStall = 1
    MaxTime = 16
    Intents = {i1}
    Users = {u1}
    MaxTries = 2
    NoValue = NoValue
SYMMETRY Symmetry
INVARIANT TypesOK
INVARIANT ClosedInOrder
INVARIANT RefusalsAgree
PROPERTY TransactionsEnd
PROPERTY OwnBucket
\* The process ends, and intents have been answered.
CHECK_DEADLOCK FALSE
