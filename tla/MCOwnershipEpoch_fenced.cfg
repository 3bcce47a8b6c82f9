SPECIFICATION Spec
CONSTANTS
    e1 = e1
    e2 = e2
    e3 = e3
    host = host
    other = other
    NoOwner = NoOwner
    Executions = {e1, e2, e3}
    OwnerOf <- OwnIds
    LeaseSeconds = 1
    PermitSeconds = 2
    Delay = 1
    MaxTime = 4
    MaxEpoch = 3
    Faults = {"kill", "authority", "audit"}
SYMMETRY ExecutionSymmetry
INVARIANT TypeOK
INVARIANT PermitHoldsOwnership
INVARIANT OneWriter
PROPERTY StaleWriterBlocked
CHECK_DEADLOCK FALSE
