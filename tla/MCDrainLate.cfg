\* One drain of a file with two objects; one request may be applied after its
\* caller has given up, and the scheduler may restart.
SPECIFICATION FairSpec
CONSTANTS
    a = a  b = b  c = c  f = f  o1 = o1  o2 = o2
    Nodes = {a, b, c}
    Files = {f}
    Objects = {o1, o2}
    FileOf <- MCFileOf
    Home <- MCHome
    Drains = {a}
    NoNode = NoNode  NoFile = NoFile  NoObject = NoObject
    MaxWrites = 1
    MaxRetries = 1
    MaxLate = 1
    MaxRestarts = 1
INVARIANTS
    ObjectsKept
PROPERTIES
    FrozenSource
    TaskEnds
CHECK_DEADLOCK FALSE
