SPECIFICATION FairSpec
CONSTANTS
    Runs = {r1, r2}
    MaxPaid = 1
    MaxTroubles = 2
CHECK_DEADLOCK FALSE
INVARIANTS
    RecordsTheRegisteredVersion
    CertificateIsBacked
PROPERTIES
    CompleteIsFinal
    RecoveryCompletes
