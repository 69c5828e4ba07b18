SPECIFICATION KeywordsSpec
CONSTANTS
    Requests = {r1, r2}
    Keywords = {k1, k2}
    MaxUploads = 2
    MaxImages = 1
    Limit = 0
    MaxLimit = 2
    Removals = 0
    None = None
    Slot = r3
    Keyword = k3
    Sessions = {s1}
    Users = {u1, u2}
    Author = u1
SYMMETRY Symmetry
INVARIANT TypesOK
INVARIANT GalleryAgrees
INVARIANT ReviewAgrees
PROPERTY KeywordKept
PROPERTY DateKeepsKeyword
PROPERTY FeedsSteady
\* The feeds are read by nobody in their part: it ends with the last upload.
CHECK_DEADLOCK FALSE
