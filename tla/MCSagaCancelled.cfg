\* A step fails, by itself or through the cancellation, and the workflow is
\* cancelled before the compensations are asked for.
SPECIFICATION Spec
CONSTANTS
    MaxSteps = 2
INVARIANTS
    FailureIsCompensated
CHECK_DEADLOCK FALSE
