\* A file created while the catalog still admits the node.
SPECIFICATION Spec
CONSTANTS
    NumFiles = 1
    StopCommand = TRUE
    Actuation = FALSE
    MaxRetries = 2
    MaxRestarts = 0
INVARIANTS
    RetiredUnreferenced
CHECK_DEADLOCK FALSE
