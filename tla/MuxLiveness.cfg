\* Two requests reuse one id; the whole life of the connection under fairness.
SPECIFICATION FairSpec
CONSTANTS
    Ids = {i1}
    Reqs = {r1, r2}
    NoReq = NoReq
    FullAt = 1
    ShortNames = {r2}
    Window = 2
PROPERTIES
    ImplementsConnectRequests
    BothEndsGo
CHECK_DEADLOCK FALSE
