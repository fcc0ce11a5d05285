SPECIFICATION Spec
CONSTANTS
    Device = {d1}
    Attempt = {a1, a2}
    User = {u1, u2}
    Backends = {"memory"}
    MaxLogins = 1
    None = None
CHECK_DEADLOCK FALSE
PROPERTY SessionSurvivesRefresh
