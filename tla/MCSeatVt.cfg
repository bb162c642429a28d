SPECIFICATION ServerFairSpec
CONSTANTS
    Client = {c1, c2}
    NoClient = NoClient
    VtBound = TRUE
    VTs = {1, 2, 3}
    DrmPath = {}
    EvdevPath = {}
    WsconsPath = {}
    OutsidePath = {}
    TtyOpens = {TRUE}
    SendResults = {TRUE}
    MaxSeatDevices = 1
    MaxSessions = 0
    MaxDeviceId = 1
    MaxRefs = 1
INVARIANTS
    SwitchHasVt
PROPERTIES
    NoSwitchUnderActive
    
CHECK_DEADLOCK FALSE
