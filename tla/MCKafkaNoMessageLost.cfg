\* A failed DLQ publish followed by the next message of the topic.
SPECIFICATION Safety
CONSTANTS
    Subs = {s1}
    LogLen = 2
    MaxRetries = 0
    FetchErrors = FALSE
    MaxCrashes = 0
INVARIANTS
    NoMessageLost
CHECK_DEADLOCK FALSE
