SPECIFICATION Spec
CONSTANTS
    Request = {r1, r2, r3, r4}
    Code = {c1, c2}
    Backends = {"memory", "postgres"}
    NoRow = NoRow
SYMMETRY Symmetry
CHECK_DEADLOCK FALSE
INVARIANTS
    CodeNeverBurned
    NoTokenWithoutSpending
    RefusedRefreshExplained
PROPERTY
    RefreshLeavesByRotationOrExpiry
