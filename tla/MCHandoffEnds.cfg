\* Every drain ends, also when a library is handed on.
SPECIFICATION FairSpec
CONSTANTS
    a = a  b = b  c = c  i = i  j = j
    Nodes = {a, b, c}
    Items = {i}
    First = i
    Home = a
    NoNode = NoNode
    MaxDepth = 4
    MaxRetries = 2
    MaxBegins = 2
    MaxFaults = 1
PROPERTY HandoffEnds
CHECK_DEADLOCK FALSE
