SPECIFICATION FairSpec
CONSTANTS
    Engine = engine
    Dispatchers = {engine}
    Requests = {}
    MaxCycles = 2
    MaxFlows = 4
    HasCriteria = TRUE
    Services = {s1, s2}
    s1 = s1
    s2 = s2
    Answers <- MixedAnswers
    PlannerRaises = TRUE
    Tasks <- GoalTasks
    Parents <- GoalParents
    MaxAttempts = 2
    MaxRuns = 3
    MaxCrashes = 1
    NeedsGrant = {}
    Faults = {"handler"}
    None = None
    Ghost = Ghost
INVARIANT GoalTypeOK
INVARIANT DoneIsVerified
INVARIANT PlanIsBound
INVARIANT OneActiveRun
PROPERTY GoalRefined
PROPERTY GoalEnds
