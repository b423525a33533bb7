SPECIFICATION Spec
CONSTANTS
    MaxEdits = 2
    NFiles = 2
    MaxWrites = 2
INVARIANTS
    NoStrayChild
    WholeConfig
PROPERTY
    ReportedChangesFollowed
CHECK_DEADLOCK FALSE
