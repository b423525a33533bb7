SPECIFICATION Spec
CONSTANTS
    Callers = {c1, c2}
    MaxStarts = 2
    MaxBatch = 2
    MaxTries = 2
INVARIANTS
    HandlesAccounted
    StopFlushesProducer
    BatchOutcome
    WorkerOutlived
PROPERTIES
    CallsReturn
CHECK_DEADLOCK FALSE
