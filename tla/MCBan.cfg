SPECIFICATION HSpec
CONSTANTS
    Users = {u1, u2}
    Requests = {r1, r2}
    BanIds = {b1, b2, b3}
    None = None
    Hours <- MCHours
    HourLength = 1
    Word = 16
    Horizon = 3
SYMMETRY Symmetry
INVARIANTS TypeOK RecordNamesUser
PROPERTIES BannedAnswerJustified LapseVerdictSound VerdictAsAsked
