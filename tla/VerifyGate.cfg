SPECIFICATION FairSpec
CONSTANTS
    Threads = {t1, t2}
    Certs = {c1}
    Absent = Absent
    NoThread = NoThread
    MaxRequests = 1
    MaxRestarts = 1
CHECK_DEADLOCK FALSE
INVARIANTS
    RevokedBeforeIsNeverServed
    EveryUrlIsAudited
    AuditTrailConsistent
    OneAdapter
PROPERTIES
    ImplementsContract
    EveryRequestEnds
