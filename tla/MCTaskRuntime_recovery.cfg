SPECIFICATION FairSpec
CONSTANTS
    Workers = {w1}
    Requests = {r1}
    NSteps = 2
    Recoverable = {1}
    MaxRetries = 1
    Faults = {"crash", "error", "tool", "verifier", "ttl"}
    None = None
    Ghost = Ghost
INVARIANT TypeOK
INVARIANT ExecutionIsAuthorised
INVARIANT RecoverableAtMostOnce
INVARIANT JobTellsOutcome
PROPERTY ExecutionEnds
CHECK_DEADLOCK FALSE
