\* Three packets, of every form of header, in either direction.
CONSTANTS
    Base = 3
    Accounts <- MCAccounts
    Configured <- MCConfigured
    Methods <- MCMethods
    Request <- MCRequest
    Sendable <- MCSendable
    MaxSent = 3
SPECIFICATION FairSpec
INVARIANTS
    TypeOK
    PacketsInOrder
    NothingHeldBack
    BuiltIsServed
    BrowserServed
PROPERTIES
    HandshakeEnds
CHECK_DEADLOCK FALSE
