SPECIFICATION FairSpec
CONSTANTS
    Workers = {w1, w2}
    Requests = {r1}
    NSteps = 1
    Recoverable = {}
    MaxRetries = 1
    Faults = {"submit", "tool"}
    None = None
    Ghost = Ghost
PROPERTY AutoFlowEnds
PROPERTY RequeuedDecisionIsApplied
CHECK_DEADLOCK FALSE
