SPECIFICATION Spec
CONSTANTS
    Cards = {1, 2, 3}
    SampleSize = 1
    MemoryFirst = {}
    AllowedOrders <- MCAllowedOrders
    ResultLabels <- MCResultLabels
    UserLabels <- MCUserLabels
    PassThreshold <- MCPassThreshold
    Procs = {p1, p2}
    Profiles <- MCProfiles
    Rollouts <- MCRollouts
    MemoryOf <- MCMemoryOf
    Tokens <- MCTokens
    Continuity <- MCContinuity
    RunIDs = {"run1"}
INVARIANTS
    OneRunPerMeasuredArm
    ReceiptsStayVerifiable
    UndisturbedExecutionsCount
    FrozenCorporaVerify
    QuietTruthIsBlind
    ReportsDescribeTheirPrefix
    ReportsKeepVerifying
    ReadyMeansMeasured
CHECK_DEADLOCK FALSE
