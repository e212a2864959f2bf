\* Libraries are handed on, with any one fault.
SPECIFICATION Spec
CONSTANTS
    a = a  b = b  c = c  i = i  j = j
    Nodes = {a, b, c}
    Items = {i, j}
    First = i
    Home = a
    NoNode = NoNode
    MaxDepth = 4
    MaxRetries = 2
    MaxBegins = 2
    MaxFaults = 1
INVARIANTS
    TypeOK
    LibraryKept
    OneOpenCopy
    
PROPERTY LibraryMovesWhole
SYMMETRY Receivers
CHECK_DEADLOCK FALSE
