SPECIFICATION SocialSpec
CONSTANTS
    Requests = {r1, r2, r3}
    Users = {u1, u2}
    Uploads = {w1}
    Types = {"inspired"}
    MaxNotes = 1
    None = None
    Keywords = {k1, k2}
    Calls = {c1}
    MaxOff = 4
SYMMETRY Symmetry
INVARIANT TypesOK
INVARIANT PageAgrees
INVARIANT OffIsSoonQuiet
PROPERTY NotifiedWithReaction
PROPERTY CountsHeal
