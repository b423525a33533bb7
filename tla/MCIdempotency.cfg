\* Four concurrent requests with one key and two expiries.
SPECIFICATION Spec
CONSTANTS
    Requests = {r1, r2, r3, r4}
    Absent = Absent
    InProgress = InProgress
    MaxExpiries = 2
INVARIANTS
    OneRunPerLifetime
    SameResponseWithinTTL
    ReplaysAreFinished
PROPERTY
    StoredResponseKept
CHECK_DEADLOCK FALSE
