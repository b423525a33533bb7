SPECIFICATION Spec
CONSTANTS
    Requests = {r1, r2}
    MaxConns = 1
INVARIANTS
    NoDanglingTx
    ResultMatchesServer
    DrainedBeforeClose
    TelemetryComplete
PROPERTIES
    ShutdownEnds
CHECK_DEADLOCK FALSE
