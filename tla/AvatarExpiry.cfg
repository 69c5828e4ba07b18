SPECIFICATION ImagesSpec
CONSTANTS
    Requests = {r1, r2}
    Sessions = {s1, s2}
    TTL = 1
    MaxTime = 2
    None = None
    Assets = {a1}
    Names = {n1}
    Calls = {c1, c2, c3}
    Sizes = {1, 2}
SYMMETRY Symmetry
PROPERTY CompletedStays
