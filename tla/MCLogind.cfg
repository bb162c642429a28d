SPECIFICATION FairSpec
CONSTANTS
    MaxSignals = 3
    MaxPings = 2
INVARIANTS
    BeliefFollows
    EventsWake
    CompleteAfterDisable
PROPERTIES
    StateTold
    Silence
