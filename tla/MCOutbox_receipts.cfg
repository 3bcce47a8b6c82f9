SPECIFICATION Spec
CONSTANTS
    Workers = {d1, d2}
    NRows = 2
    Kind <- KindTR
    Text <- TextAB
    MaxAttempts = 2
    Simulated = {2}
    Wiring = "router"
    Faults = {"kill", "stop", "stall", "refuse", "timeout"}
    MaxFaults = 2
    NoText = NoText
SYMMETRY WorkerSymmetry
INVARIANT TypeOK
INVARIANT DeliveredWasSaid
INVARIANT StatusAgreesWithReceipt
INVARIANT ResentOnlyIfLost
CHECK_DEADLOCK FALSE
