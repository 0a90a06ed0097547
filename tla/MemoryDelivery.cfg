SPECIFICATION DeliverySpec
CONSTANTS
    terse = terse
    wordy = wordy
    other = other
    Contents <- MCContents
    MemoryOf <- MCMemoryOf
    MeaningOf <- MCMeaningOf
    KeyOf <- MCKeyOf
    RankOf <- MCRankOf
    MemoryOrder <- MCRankOf
    TermsOf <- MCTermsOf
    ScopeOf <- MCScopeOf
    SizeOf <- MCSizeOf
    BonusOf <- MCBonusOf
    Phrases <- MCPhrases
    FrameSize <- MCFrameSize
    BlockSize <- MCBlockSize
    Revoked = Revoked
    Procs = {p1, p2}
    NoProc = NoProc
    MaxLocal = 4
    MaxLoadouts = 1
    MaxCrashes = 1
    MaxFailures = 1
    Readers = {r1}
    Threads = {"one", "two"}
    Items <- MCItems
    Scenarios <- MCScenarios
SYMMETRY ProcSymmetry
INVARIANTS
    LinesStayWhole
    UninterruptedWorkVerifies
    DeliveredLoadoutStaysCurrent
    DeliveriesVerify
    ClaimsRestOnDelivery
PROPERTIES
    ClosedStaysClosed
CHECK_DEADLOCK FALSE
