SPECIFICATION KernelSpec
CONSTANTS
    Tasks <- ChainTasks
    Parents <- ChainParents
    Dispatchers = {d1, d2}
    Requests = {r1}
    MaxAttempts = 2
    MaxRuns = 2
    MaxCrashes = 1
    NeedsGrant = {2}
    Faults = {"block", "deny"}
    None = None
    Ghost = Ghost
SYMMETRY DispatcherSymmetry
INVARIANT SucceededHasRun
INVARIANT DependentsWait
INVARIANT OneEntryPerGrant
PROPERTY RunRowsAreFinal
CHECK_DEADLOCK FALSE
