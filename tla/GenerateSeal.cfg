SPECIFICATION FairSpec
CONSTANTS
    w1 = w1
    w2 = w2
    w3 = w3
    Workers <- MCWorkers
    Processes <- MCProcesses
    ProcessOf <- MCProcessOf
    k1 = k1
    k2 = k2
    Keys <- MCKeys
    Requests <- MCRequests
    Media = {m}
    NoWorker = NoWorker
    Unissued = Unissued
    MaxCalls = 1
    MaxFaults = 1
ACTION_CONSTRAINT KeyOfScript
CHECK_DEADLOCK FALSE
INVARIANTS
    SuccessIsBacked
    CertificateIsBacked
    NoGenerationOnceRegistered
PROPERTIES
    LockIsReleased
    ImplementsPromise
