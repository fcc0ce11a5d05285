SPECIFICATION Spec
CONSTANTS
    Callback = {k1, k2}
    Request = {r1, r2}
    Backends = {"memory", "sqlite", "postgres"}
    MaxIteration = 3
SYMMETRY Symmetry
CHECK_DEADLOCK FALSE
INVARIANTS
    TypeOK
    OneCodePerLogin
    IssuedCodeHasSession
    TokensNeverGoBack
    ErrorsExplained
