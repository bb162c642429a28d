SPECIFICATION FairSpec
CONSTANTS
    Source = {s1, s2}
    SigSource = {x1}
    NoSource = NoSource
    Signal = {usr1}
    Mask = {{}, {"out"}}
INVARIANTS
    TypeOK
    CountMatches
    IndexMatches
    PollsCurrent
    NoLostWakeup
PROPERTIES
    FdServed
CHECK_DEADLOCK FALSE
