SPECIFICATION AccountsSpec
CONSTANTS
    Requests = {r1, r2}
    Tokens = {t1, t2, t3, t4}
    MaxExpired = 2
    Emails = {e1}
    Passwords = {p1, p2}
    None = None
    Codes = {c1, c2}
    CodeTTL = 2
    CooldownTTL = 1
    LockTTL = 2
    MaxAttempts = 2
    MaxWrong = 8
    RedisFails = FALSE
SYMMETRY Symmetry
INVARIANT TypesOK
INVARIANT TokensRetired
INVARIANT CodesLimited
PROPERTY ImplementsAccounts
