SPECIFICATION MCSpec
CONSTANTS
    Users = {u1, u2}
    Requests = {r1, r2}
    BanIds = {b1}
    None = None
    Hours = {0, 1}
    HourLength = 1
    Word = 16
    Horizon = 2
    Emails = {e1, e2}
    AccessLife = 1
    RefreshLife = 2
    MaxCalls = 3
SYMMETRY Symmetry
CHECK_DEADLOCK FALSE
INVARIANTS TypeOK NewGoogleAccountFound AdminTokensEarned
PROPERTIES BannedKeptOut UnverifiedKeptOut FactorAskedFor 
