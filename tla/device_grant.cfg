SPECIFICATION Spec
CONSTANTS
    Device = {d1}
    Attempt = {a1, a2}
    User = {u1, u2}
    Backends = {"memory", "sqlite", "postgres"}
    MaxLogins = 3
    None = None
CHECK_DEADLOCK FALSE
INVARIANTS
    TypeOK
    DeviceCodeOnce
    TokensOfLastApprover
    RefreshRowBacked
    RefusedPollExplained
PROPERTY
    ApprovedDeviceServed
