SPECIFICATION FairSpec
CONSTANTS
    Smokes = {s1}
    Recoveries = {r1, r2}
    Manifests = {m1, m2}
    Days = 1
    MaxTime = 1
    MaxSmokes = 2
    MaxTroubles = 1
INVARIANTS
    ReportIsTrue
    VerdictsAgree
PROPERTIES
    CleanupKeepsTwin
    CleanupCompletes
