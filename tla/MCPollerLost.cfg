SPECIFICATION FairSpec
CONSTANTS
    Source = {s1}
    SigSource = {x1}
    NoSource = NoSource
    Signal = {usr1}
    Mask = {{"in"}}
PROPERTIES
    SignalHandled
CHECK_DEADLOCK FALSE
