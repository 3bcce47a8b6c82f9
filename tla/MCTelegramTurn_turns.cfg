SPECIFICATION FairSpec
CONSTANTS
    m1 = m1
    m2 = m2
    chat = chat
    Turns = {m1, m2}
    Calls = {"write", "extract", "read"}
    CallsOf <- WorkAndTalk
    ReadOnly = {"read"}
    Declares = {"write", "extract"}
    Unconfirmable = {"extract"}
    NExecs = 2
    None = None
    ChatOf <- OneChat
    NDrains = 2
    MaxQueue = 1
    MaxSessions = 1
    MaxDeliveries <- TwiceAndOnce
    MaxStarts = 2
    Faults = {"kill", "close", "gateway", "refuse", "disk", "cancel", "spoil"}
    MaxFaults = 1
INVARIANT TurnTypeOK
INVARIANT EffectOnce
INVARIANT OneTurnPerChat
PROPERTY CallersAnswered
CHECK_DEADLOCK FALSE
