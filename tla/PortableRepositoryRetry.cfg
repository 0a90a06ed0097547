SPECIFICATION RepositorySpec
CONSTANTS
    terse = terse
    wordy = wordy
    other = other
    Contents <- MCContents
    MemoryOf <- MCMemoryOf
    MeaningOf <- MCMeaningOf
    KeyOf <- MCKeyOf
    RankOf <- MCRankOf
    Revoked = Revoked
    Procs = {p1, p2}
    NoProc = NoProc
    MaxLocal = 3
    MaxLoadouts = 1
    MaxCrashes = 0
    MaxFailures = 1
SYMMETRY ProcSymmetry
INVARIANTS
    InterruptedExportsAreRetryable
CHECK_DEADLOCK FALSE
