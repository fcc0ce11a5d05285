SPECIFICATION Spec
CONSTANTS
    Updater = {u1, u2}
    Deleter = {d1}
    Pusher = {p1}
    Login = {l1}
    Device = {v1}
    Uri = {a, b}
    Keep = Keep
    a = a
    x = x
    Covers <- MCCovers
    Detail = {x}
    Form <- MCForm
    Unregistered = Unregistered
    Deleted = Deleted
    Backends = {"memory", "sqlite", "postgres"}
SYMMETRY Symmetry
CHECK_DEADLOCK FALSE
INVARIANTS
    TypeOK
    DeletedLeavesNothing
    DeletionFinal
    UpdatesKept
    CodeWithinRegistration
