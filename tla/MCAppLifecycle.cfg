\* Concurrent registration against one Run, every callee free to fail, n2 slow to stop.
SPECIFICATION Spec
CONSTANTS
    n1 = n1
    n2 = n2
    o1 = o1
    o2 = o2
    NoName = NoName
    Names = {n1, n2}
    Objects = {o1, o2}
    OwnName <- MCOwnName
    Plugins = {q1}
    MaxHooks = 1
    Deaf = {n2}
INVARIANTS
    DependencyOrder
    NothingLeftRunning
    PluginsOutliveComponents
    EarlyComponentsStarted
    HooksInPhase
    ErrorsReported
PROPERTIES
    RunReturns
    ImplementsContract
CHECK_DEADLOCK FALSE
