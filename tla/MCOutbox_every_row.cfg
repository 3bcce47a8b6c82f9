SPECIFICATION FairSpec
CONSTANTS
    Workers = {d1}
    NRows = 3
    Kind <- KindTTR
    Text <- TextAAB
    MaxAttempts = 2
    Simulated = {}
    Wiring = "adapter"
    Faults = {"kill", "refuse", "permanent", "delete"}
    MaxFaults = 2
    NoText = NoText
PROPERTY EveryRowEnds
CHECK_DEADLOCK FALSE
