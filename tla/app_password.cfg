SPECIFICATION Spec
CONSTANTS
    Setter = {s1}
    Login = {l1}
    Request = {r1, r2}
    Password = {p1, p2}
    None = None
    Backends = {"memory", "sqlite"}
    MaxGeneration = 3
SYMMETRY Symmetry
CHECK_DEADLOCK FALSE
INVARIANTS
    TypeOK
    SessionUsesStoredPassword
    SessionHasPassword
    CodeFindsSession
    ErrorsExplained
    TokensNeverGoBack
