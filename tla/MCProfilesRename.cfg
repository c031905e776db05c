SPECIFICATION MCSpec
CONSTANTS
    Users = {u1, u2}
    Names = {"", "Ann", "ann", "bob"}
    Emails = {e1, e2}
    Unnamed = ""
    Given = {"", "ann"}
    Lower <- AnnInLowerCase
    Requests = {r1, r2}
    None = None
    Operations = {"profile"}
    Failures = FALSE
    Life = 1
    MaxCalls = 2
INVARIANTS NamesUnique
