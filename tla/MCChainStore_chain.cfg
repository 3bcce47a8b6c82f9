SPECIFICATION ChainSpec
CONSTANTS
    Writers = {w1, w2}
    Payloads = {a, b}
    MaxLength = 2
    MaxKills = 1
    MaxLosses = 1
    MaxErrors = 1
    None = None
SYMMETRY ChainSymmetry
INVARIANT ChainTypeOK
INVARIANT HeadLoads
INVARIANT AckedStays
PROPERTY LogRefined
CHECK_DEADLOCK FALSE
