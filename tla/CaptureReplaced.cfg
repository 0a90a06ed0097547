SPECIFICATION CaptureSpec
CONSTANTS
    Sources = {"codex", "events"}
    SourceOrder <- MCOrder
    HookSource = "codex"
    Missing = Missing
    InitialFiles <- MCInitialFiles
    Busy = {"codex"}
    Styles = {"any"}
    Hooks = {}
    Bodies = {"x", "y"}
    Malformed = {"y"}
    Configs <- MCConfigs
    FullReconcileEveryRuns = 3
    TornTruncation = FALSE
    MaxSize = 4
    MaxEdits = 2
    MaxTruncations = 0
    MaxConfigures = 1
    MaxRuns = 2
    MaxHandImports = 0
    MaxFaults <- MCMaxFaults
INVARIANTS
    SuccessMeansRecorded
CHECK_DEADLOCK FALSE
