SPECIFICATION SocialSpec
CONSTANTS
    Requests = {r1, r2}
    Users = {u1}
    Uploads = {w1}
    Types = {"inspired", "resonated"}
    MaxNotes = 2
    None = None
    Keywords = {k1}
    Calls = {c1}
    MaxOff = 1
SYMMETRY Symmetry
INVARIANT CountsExactAtRest
