SPECIFICATION StudySpec
CONSTANTS
    Drafts <- MCDrafts
    TasksOf <- MCTasksOf
    SeedOf <- MCSeedOf
    MinimumTasks = 2
    MinimumPerArm = 1
    MinimumElapsed = 1
    Procs = {p1, p2}
    NoProc = NoProc
    Orphan = Orphan
    Reporters = {"caller_attestation"}
    Profiles <- MCProfiles
INVARIANTS
    QuietStudiesReplay
    MemoryIsSealedAndCurrent
    SealedFilesRun

    
CHECK_DEADLOCK FALSE
