\* Two nodes are drained, one of them a possible target of the other; calls
\* fail or lose their reply, but none outlives its timeout.
SPECIFICATION Spec
CONSTANTS
    a = a  b = b  c = c  f = f  o1 = o1  o2 = o2
    Nodes = {a, b, c}
    Files = {f}
    Objects = {o1}
    FileOf <- MCFileOf
    Home <- MCHome
    Drains = {a, b}
    NoNode = NoNode  NoFile = NoFile  NoObject = NoObject
    MaxWrites = 1
    MaxRetries = 2
    MaxLate = 0
    MaxRestarts = 1
INVARIANTS
    TypeOK
    AckedKept
    VersionKept
PROPERTIES
    NoRollback
CHECK_DEADLOCK FALSE
