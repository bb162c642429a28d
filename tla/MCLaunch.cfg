SPECIFICATION FairSpec
CONSTANTS
    Launcher = {l1, l2}
    Absent = Absent
    Foreign = Foreign
    Root = Root
INVARIANTS
    IInv
    ServesOwnPath
    TargetServed
PROPERTIES
    OwnUnlink
    Terminated
    WaitEnds
