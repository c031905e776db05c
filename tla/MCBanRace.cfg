SPECIFICATION FairSpec
CONSTANTS
    Users = {u1}
    Requests = {r1, r2}
    BanIds = {b1, b2}
    None = None
    Hours = {1}
    HourLength = 1
    Word = 16
    Horizon = 3
PROPERTIES BanKept
