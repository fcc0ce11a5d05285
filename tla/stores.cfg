SPECIFICATION Spec
CONSTANTS
    MaxTime = 4
    MaxAge = 1
    TicksPerSecond = 2
    None = None
    Refusal = Refusal
    Code = {code1}
    AccessToken = {a1, a2}
    RefreshToken = {r1, r2}
    CodeLife = 1
    AccessLife = 1
    RefreshLife = 2
    DeviceCode = {d1}
    PushedRequest = {p1}
    OAuthState = {s1}
    Login = {l1}
    User = {approver1, approver2}
    Server = {as1, as2}
    DeviceLife = 3
    PushedLife = 1
    RequestLife = 1
    c1 = c1
    c2 = c2
    u1 = u1
    Client = {c1, c2}
    KeyId = {k1}
    SigningId = {g1, g2}
    Pair <- MCPair
    Holder = {u1}
    Content = {v1, v2}
    Session = {session1}
    Did = {did1}
    Token = {t1, t2}
    MaxIteration = 2
INVARIANTS
    TypeOK
    GrantsInterchangeable
    RequestsInterchangeable
    RecordsInterchangeable
    SessionsInterchangeable
    HandedOutOnce
SYMMETRY Symmetric
CHECK_DEADLOCK FALSE
