SPECIFICATION Spec
CONSTANTS
    Client = {c1, c2}
    NoClient = NoClient
    VtBound = TRUE
    VTs = {1, 2, 3}
    DrmPath = {}
    EvdevPath = {}
    WsconsPath = {}
    OutsidePath = {}
    TtyOpens = {TRUE}
    SendResults = {TRUE}
    MaxSeatDevices = 2
    MaxSessions = 0
    MaxDeviceId = 3
    MaxRefs = 2
SYMMETRY Symmetry
INVARIANTS
    NoAbort
CHECK_DEADLOCK FALSE
