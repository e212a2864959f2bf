\* One handoff, one fault, and the promise that an installation is resumed.
SPECIFICATION Spec
CONSTANTS
    a = a  b = b  c = c  i = i  j = j
    Nodes = {a, b, c}
    Items = {i}
    First = i
    Home = a
    NoNode = NoNode
    MaxDepth = 4
    MaxRetries = 2
    MaxBegins = 1
    MaxFaults = 1
INVARIANTS
    InstallResumable
CHECK_DEADLOCK FALSE
