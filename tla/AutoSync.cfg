SPECIFICATION AutoLiveSpec
CONSTANTS
    Operators = {op}
    Scheduled = Scheduled
    Interval = 2
    MaximumRetry = 3
    MaximumConsecutiveErrors = 3
    MaxCommands = 3
    MaxPromoted = 1
    MaxFaults = 1
INVARIANTS
    AttemptsStayAuthorized
    AgreementBetweenCommands
PROPERTIES
    SuspensionHolds
    PublishesOrReports
CHECK_DEADLOCK FALSE
