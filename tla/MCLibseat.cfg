SPECIFICATION FairSpec
CONSTANTS
    Backends <- MCBackends
INVARIANTS
    NoProtocolError
    NoEventLost
    EventsWake
    Bounded
PROPERTIES
    DisableAcknowledged
CHECK_DEADLOCK FALSE
