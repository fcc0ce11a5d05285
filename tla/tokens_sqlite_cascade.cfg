SPECIFICATION Spec
CONSTANTS
    Request = {r1, r2, r3}
    Code = {c1}
    Backends = {"sqlite"}
    NoRow = NoRow
CHECK_DEADLOCK FALSE
PROPERTY RefreshLeavesByRotationOrExpiry
