SPECIFICATION BudgetSpec
CONSTANTS
    MaxAttempts = 5
    MaxWait = 40
    Backoff <- MCBackoff
    ReadTimes <- MCReadTimes
    LongestRead = 39
CHECK_DEADLOCK FALSE
INVARIANTS
    WithinBudget
    EndsSoonAfterDeadline
