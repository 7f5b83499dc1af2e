SPECIFICATION Spec
CONSTANTS
    Runs = {r1}
    MaxPaid = 2
    MaxTroubles = 0
CHECK_DEADLOCK FALSE
INVARIANT PaidBytesAreRecoverable
