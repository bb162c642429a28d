SPECIFICATION Spec
CONSTANTS
    Size = 2
    MaxFds = 1
    Laps = 2
    Room = 1
    Kinds = {"reply", "event", "request"}
    Lengths = {1, 2, 3}
    Carrying = {TRUE, FALSE}
    Numbers = 8
INVARIANTS
    TypeOK
    FdsFirst

    
CHECK_DEADLOCK FALSE
