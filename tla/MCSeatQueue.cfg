SPECIFICATION FairSpec
CONSTANTS
    Client = {c1, c2, c3}
    NoClient = NoClient
    VtBound = FALSE
    VTs = {1}
    DrmPath = {}
    EvdevPath = {}
    WsconsPath = {}
    OutsidePath = {}
    TtyOpens = {TRUE}
    SendResults = {TRUE, FALSE}
    MaxSeatDevices = 2
    MaxSessions = 4
    MaxDeviceId = 3
    MaxRefs = 2
INVARIANTS
    ListIsSeat
    OneActive
    NeverIdle
    SessionsUnique
PROPERTIES
    IsHeld
    QueuedIsNext
    SwitchHappens
    FinishEnds
CHECK_DEADLOCK FALSE
