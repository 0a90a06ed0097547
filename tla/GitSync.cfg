SPECIFICATION SyncSpec
CONSTANTS
    u = u
    v = v
    Contents <- MCContents
    MemoryOf <- OwnMemory
    MeaningOf <- OwnMemory
    KeyOf <- OwnMemory
    Revoked = Revoked
    Devices = {d1, d2}
    Profiles <- MCProfiles
INVARIANTS
    HistoriesVerify
    SuccessMeansPublished
PROPERTIES
    RevocationsStand
    Converges
CHECK_DEADLOCK FALSE
