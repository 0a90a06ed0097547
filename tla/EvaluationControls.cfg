SPECIFICATION Spec
CONSTANTS
    Cards = {1, 2, 3}
    SampleSize = 1
    MemoryFirst = {}
    AllowedOrders <- MCAllowedOrders
    ResultLabels <- MCResultLabels
    UserLabels <- MCUserLabels
    PassThreshold <- MCPassThreshold
    Procs = {p1, p2}
    Profiles <- MCControls
    Rollouts <- MCRollouts
    MemoryOf <- MCMemoryOf
    Tokens <- MCTokens
    Continuity <- MCContinuity
    RunIDs = {"run1"}
INVARIANT ControlsCanBeEvaluated
CHECK_DEADLOCK FALSE
