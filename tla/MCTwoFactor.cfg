SPECIFICATION HSpec
CONSTANTS
    Requests = {r1, r2, r3}
    Users = {u1, u2}
    Secrets = {s1, s2}
    None = None
SYMMETRY Symmetry
CHECK_DEADLOCK FALSE
INVARIANTS TypeOK SecretsNotMixed EnabledMatchesApp
PROPERTIES SavesSecretOnlyAlone
