\* Three applications and as many multiplexers as they can cause; two streams fill one.
CONSTANTS
    Apps = {a1, a2, a3}
    Muxes = {m1, m2, m3}
    None = None
    FullAt = 2
SPECIFICATION FairSpec
INVARIANTS
    TypeOK
    AuthsPairLive
    SessionKnownIsWaiting
    HandOverReady
    HandlersOfLiveMux
    ConnectionsCounted
    NeverOverfull
PROPERTIES
    AnsweredOnce
    ReplySettles
CHECK_DEADLOCK FALSE
