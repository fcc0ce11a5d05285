SPECIFICATION Spec
CONSTANTS
    Updater = {}
    Deleter = {}
    Pusher = {p1}
    Login = {l1, l2}
    Device = {}
    Uri = {a}
    Keep = Keep
    a = a
    x = x
    Covers <- MCCovers
    Detail = {x}
    Form <- MCForm
    Unregistered = Unregistered
    Deleted = Deleted
    Backends = {"memory", "sqlite"}
CHECK_DEADLOCK FALSE
INVARIANTS
    PushedUsedOnce
