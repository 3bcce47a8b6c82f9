SPECIFICATION Spec
CONSTANTS
    Workers = {w1, w2}
    Requests = {r1}
    NSteps = 2
    Recoverable = {}
    MaxRetries = 0
    Faults = {"stall", "tool"}
    None = None
    Ghost = Ghost
SYMMETRY WorkerSymmetry
CONSTRAINT NotOverwritten
INVARIANT JournalIsHistory
INVARIANT DoneIsComplete
INVARIANT StepsInOrder
PROPERTY StepRowsAreFinal
PROPERTY LifecycleRefined
CHECK_DEADLOCK FALSE
