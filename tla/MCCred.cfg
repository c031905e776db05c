SPECIFICATION HSpec
CONSTANTS
    Requests = {r1, r2}
    Users = {u1, u2}
    Emails = {e1, e2}
    Passwords = {p1}
    Salts = {s1, s2}
    Tokens = {t1, t2}
    None = None
    Updates <- MCUpdates
    TokenLife = 1
    Horizon = 1
SYMMETRY Symmetry
CHECK_DEADLOCK FALSE
INVARIANTS TypeOK NobodyLockedOutUnforced OnlyAdminsLockedOut OneUsableTokenAlone
PROPERTIES ResetHitsTokenOwner TokenGoodWhenSpentAlone ChangeHitsCaller
