SPECIFICATION HSpec
CONSTANTS
    Requests = {r1, r2}
    Users = {u1}
    Secrets = {s1}
    None = None
SYMMETRY Symmetry
CHECK_DEADLOCK FALSE
PROPERTIES DeletedStaysDeleted
