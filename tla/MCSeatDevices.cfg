SPECIFICATION Spec
CONSTANTS
    Client = {c1, c2}
    NoClient = NoClient
    VtBound = FALSE
    VTs = {1}
    DrmPath = {drm}
    EvdevPath = {ev}
    WsconsPath = {}
    OutsidePath = {drm}
    TtyOpens = {TRUE}
    SendResults = {TRUE}
    MaxSeatDevices = 2
    MaxSessions = 2
    MaxDeviceId = 3
    MaxRefs = 2
SYMMETRY Symmetry
INVARIANTS
    IInv
    ExclusiveAccess
    DeviceIdsUnique
PROPERTIES
    DrmComesBack
CHECK_DEADLOCK FALSE
