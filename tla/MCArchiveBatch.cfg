SPECIFICATION FairSpec
CONSTANTS
    file = file
    other = other
    part1 = part1
    part2 = part2
    whole = whole
    NoFile = NoFile
    Files <- MCFiles
    Objects <- MCObjects
    ObjectsOf <- MCObjectsOf
    SizeOf <- MCSizeOf
    Disc = 3
    RoundObjects = 3
    AgeSeals = TRUE
    MaxLeases = 3
    MaxClientOps = 1
    MaxFaults = 1
INVARIANTS TypeOK  
PROPERTY SealedBatchLeaves
