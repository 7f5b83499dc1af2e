SPECIFICATION FairSpec
CONSTANT MaxFailures = 2
INVARIANTS
    OneBillableCall
    CheckpointAgreesWithRegistry
    SealedOnce
    ReportIsEarned
PROPERTIES
    ProgressIsKept
    RecoveryCompletes
