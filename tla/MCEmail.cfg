SPECIFICATION HSpec
CONSTANTS
    Requests = {r1, r2}
    Users = {u1, u2}
    Emails = {e1, e2}
    Otps = {o1, o2}
    None = None
    Updates <- MCUpdates
    OtpLife = 1
    StatedLife = 1
    LookupFails = TRUE
    Horizon = 1
SYMMETRY Symmetry
INVARIANTS TypeOK OneUsableOtpAlone
PROPERTIES VerifiedByOwnOtp OtpSpentOnceAlone
