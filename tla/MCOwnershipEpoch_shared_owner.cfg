SPECIFICATION Spec
CONSTANTS
    e1 = e1
    e2 = e2
    e3 = e3
    host = host
    other = other
    NoOwner = NoOwner
    Executions = {e1, e2, e3}
    OwnerOf <- TwoShared
    LeaseSeconds = 1
    PermitSeconds = 2
    Delay = 1
    MaxTime = 4
    MaxEpoch = 3
    Faults = {}
INVARIANT PermitHoldsOwnership
CHECK_DEADLOCK FALSE
