\* One subscription with and without a DLQ, against Stop, cancellation and crashes.
SPECIFICATION Spec
CONSTANTS
    Subs = {s1}
    LogLen = 3
    MaxRetries = 1
    FetchErrors = TRUE
    MaxCrashes = 2
INVARIANTS
    CommitAccountsForAll
    RetryBudget
    StopQuiesces
PROPERTIES
    StopTerminates
    LoopProgress
    ImplementsDelivery
CHECK_DEADLOCK FALSE
