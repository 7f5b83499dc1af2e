SPECIFICATION FairSpec
CONSTANTS
    Smokes = {s1, s2}
    Recoveries = {r1, r2}
    MaxSmokes = 2
    MaxAsks = 2
    MaxTroubles = 2
INVARIANTS
    ReportIsEarned
PROPERTIES
    RevokedOnce
    RecoveryFinishes
