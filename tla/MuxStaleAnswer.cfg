\* The smallest instance: two requests reuse one id.
SPECIFICATION Spec
CONSTANTS
    Ids = {i1}
    Reqs = {r1, r2}
    NoReq = NoReq
    FullAt = 1
    ShortNames = {r2}
    Window = 2
PROPERTY AnsweredByItsOwn
CHECK_DEADLOCK FALSE
