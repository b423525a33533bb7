\* A buffered message is taken up between wg.Wait and the clearing of conn.
SPECIFICATION Safety
CONSTANTS
    Subs = {s1}
    Msgs = {m1, m2}
    NoMsg = NoMsg
    MaxRetries = 0
    MaxStarts = 1
INVARIANTS
    StopWaitsForHandlers
CHECK_DEADLOCK FALSE
