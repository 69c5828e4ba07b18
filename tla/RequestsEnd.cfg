SPECIFICATION EndSpec
CONSTANTS
    Requests = {r1, r2}
    Sessions = {s1}
    Clients = {c1}
    UploadIds = {u1, u2}
    Dates = {d1}
    CustomKeywords = {}
    AudioChoices = {FALSE}
    MaxOrder = 1
    PoolSize = 3
    TTL = 1
    MaxTime = 1
    None = None
    Tokens = {t1, t2, t3, t4}
    Issued = {t1, t2}
    MaxExpired = 0
    Emails = {e1}
    Passwords = {p1}
    Users = {a1}
    Works = {w1}
    Types = {"inspired", "resonated"}
    MaxNotes = 1
    Codes = {x1}
    CodeTTL = 1
    CooldownTTL = 1
    LockTTL = 1
    MaxAttempts = 1
    MaxWrong = 1
    RedisFails = TRUE
PROPERTY RequestsEnd
PROPERTY LocksEnd
PROPERTY CodesExpire
PROPERTY StopEnds
\* The process ends.
CHECK_DEADLOCK FALSE
