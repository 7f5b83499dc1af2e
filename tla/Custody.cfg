SPECIFICATION Spec
CONSTANTS
    Workers = {w1, w2}
    Processes = {w1, w2}
    ProcessOf <- OwnProcess
    Jobs <- MCJobs
    Second = 1
    MaxRuns = 1
    MaxFaults = 1
    MaxFailures = 1
SYMMETRY WorkerSymmetry
CHECK_DEADLOCK FALSE
INVARIANTS
    TypeOK
    FailureReportsVault
    NothingIsStoredAgain
    ReceiptProvesCustody
PROPERTIES
    VaultOnlyGrows
    RollbackRemovesOwn
