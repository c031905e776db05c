SPECIFICATION FairSpec
CONSTANTS
    Users = {u1, u2}
    Requests = {r1}
    BanIds = {b1, b2}
    None = None
    Hours = {0, 1}
    HourLength = 1
    Word = 16
    Horizon = 3
PROPERTIES BanKept LapsedCheckEnds
