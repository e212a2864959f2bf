\* Crashes, power actuation and a stop command.
SPECIFICATION FairSpec
CONSTANTS
    NumFiles = 1
    StopCommand = TRUE
    Actuation = TRUE
    MaxRetries = 2
    MaxRestarts = 1
INVARIANTS
    TypeOK
    ExitingEmpty
    
PROPERTIES
    CatalogForward
    DrainSettlesOrOrphaned
CHECK_DEADLOCK FALSE
