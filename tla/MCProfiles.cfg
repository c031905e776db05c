SPECIFICATION MCSpec
CONSTANTS
    Users = {u1, u2}
    Names = {"", "ann", "Ann", "bob"}
    Emails = {e1, e2}
    Unnamed = ""
    Given = {"", "ann"}
    Lower <- AnnInLowerCase
    Requests = {r1, r2}
    None = None
    Operations = {"register", "profile", "admin", "move", "own", "silent", "setup", "delete"}
    Failures = TRUE
    Life = 1
    MaxCalls = 2
INVARIANTS TypeOK KeyMatchesProfile IdKeysFresh NameKeysFollow AskedNamesUnique
PROPERTIES SettlesFresh
