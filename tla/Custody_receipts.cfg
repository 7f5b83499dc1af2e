SPECIFICATION Spec
CONSTANTS
    Workers = {w1, w2}
    Processes = {w1, w2}
    ProcessOf <- OwnProcess
    Jobs <- MCJobs
    Second = 1
    MaxRuns = 1
    MaxFaults = 0
    MaxFailures = 1
CHECK_DEADLOCK FALSE
INVARIANTS
    ReceiptObjectsExist
