SPECIFICATION HSpec
CONSTANTS
    Requests = {r1}
    Users = {u1}
    Emails = {e1}
    Otps = {o1}
    None = None
    Updates <- MCUpdates
    OtpLife = 1
    StatedLife = 30
    LookupFails = FALSE
    Horizon = 2
SYMMETRY Symmetry
PROPERTIES GoodAsLongAsStated
