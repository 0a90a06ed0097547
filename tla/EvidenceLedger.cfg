SPECIFICATION FairSpec
CONSTANTS
    Writers = {w1, w2}
    plain = plain
    attached = attached
    blob = blob
    Events = {plain, attached}
    Blobs = {blob}
    BlobOf <- MCBlobOf
    Garbled = Garbled
    MaxRecords = 3
    MaxBatch = 2
    ConfirmsUnderLock = TRUE

INVARIANTS
    ChainNeverForks
    AcknowledgedRecordsDurable
    RecordedBlobsExist
PROPERTIES
    TornTailFreezesLedger
    ImplementsAppendOnlyLog
    LockReleasedOrOrphaned
