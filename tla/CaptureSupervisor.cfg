SPECIFICATION CaptureSpec
CONSTANTS
    Sources = {"codex", "events"}
    SourceOrder <- MCOrder
    HookSource = "codex"
    Missing = Missing
    InitialFiles <- MCInitialFiles
    Busy = {"codex"}
    Styles = {"append", "replace", "hooks"}
    Hooks = {"h1"}
    Bodies = {"x", "y"}
    Malformed = {"y"}
    Configs <- MCConfigs
    FullReconcileEveryRuns = 4
    TornTruncation = FALSE
    MaxSize = 4
    MaxEdits = 2
    MaxTruncations = 1
    MaxConfigures = 1
    MaxRuns = 3
    MaxHandImports = 1
    MaxFaults <- MCMaxFaults
INVARIANTS
    EvidenceRecordedOnce
    SuccessMeansRecorded
    ReadyMeansHooksRecorded
    UnavailableIsReported
CHECK_DEADLOCK FALSE
