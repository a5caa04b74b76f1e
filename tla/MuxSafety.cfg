\* Three requests share two ids, one has a short host name; one relayed packet per direction.
SPECIFICATION Spec
CONSTANTS
    Ids = {i1, i2}
    Reqs = {r1, r2, r3}
    NoReq = NoReq
    FullAt = 2
    ShortNames = {r3}
    Window = 1
SYMMETRY Symmetry
INVARIANTS
    TypeOK
    CallbackHeldWhileWaiting
    ServerWaitsWhileUnconnected
    NoDataBeforeAnswer
    ReuseFollowsClose
    NothingLeftBehind
CHECK_DEADLOCK FALSE
