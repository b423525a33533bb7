\* One subscription under every combination of the options, stopped and started again.
SPECIFICATION Spec
CONSTANTS
    Subs = {s1}
    Msgs = {m1, m2}
    NoMsg = NoMsg
    MaxRetries = 1
    MaxStarts = 2
INVARIANTS
    AckedOnlySettled
PROPERTIES
    StopTerminates
    Redelivered
CHECK_DEADLOCK FALSE
