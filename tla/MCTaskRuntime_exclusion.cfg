SPECIFICATION Spec
CONSTANTS
    Workers = {w1, w2}
    Requests = {r1}
    NSteps = 1
    Recoverable = {}
    MaxRetries = 1
    Faults = {"crash", "error", "tool"}
    None = None
    Ghost = Ghost
SYMMETRY WorkerSymmetry
INVARIANT OneWorkerRuns
CHECK_DEADLOCK FALSE
