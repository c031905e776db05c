SPECIFICATION MCSpec
CONSTANTS
    Users = {u1, u2}
    Requests = {r1, r2}
    None = None
    Failures = TRUE
    Life = 1
    MaxCalls = 2
    Number = 4
    Limits = {0, 2}
    MaxChanges = 2
INVARIANTS TypesOK ListsKeptAlone WalksShowEverybody
PROPERTIES ListsSettle
CHECK_DEADLOCK FALSE
