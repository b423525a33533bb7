\* Every saga of up to four steps, every option, with cancellation.
SPECIFICATION Spec
CONSTANTS
    MaxSteps = 4
INVARIANTS
    UndoneOrReported
PROPERTY
    ImplementsContract
CHECK_DEADLOCK FALSE
