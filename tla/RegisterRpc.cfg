SPECIFICATION FairSpec
CONSTANTS
    Callers = {c1, c2, c3}
    Bundles <- MCBundles
    MaxCalls = 1
CHECK_DEADLOCK FALSE
INVARIANTS
    AllOrNothing
    AnsweredIsRegistered
PROPERTIES
    ImplementsRegistry
    EveryCallReturns
