SPECIFICATION Spec
CONSTANTS
    Server = {s1, s2}
    Request = {q1, q2}
    Window = 2
    Count = 2
    MaxTime = 6
    None = None
INVARIANT TypeOK
PROPERTY RefusedNonceExplained
SYMMETRY Symmetric
