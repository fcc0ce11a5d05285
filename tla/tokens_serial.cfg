SPECIFICATION Spec
CONSTANTS
    Request = {r1, r2, r3, r4}
    Code = {c1, c2}
    Backends = {"memory", "sqlite"}
    NoRow = NoRow
SYMMETRY Symmetry
CHECK_DEADLOCK FALSE
INVARIANTS
    TypeOK
    CodeRedeemedOnce
    RefreshRotatedOnce
    NewestPairHoldsRefresh
    BindingPreserved
PROPERTY
    ImplementsChain
