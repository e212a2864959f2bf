\* Two clients, three locks, one late request and one restart of the node.
SPECIFICATION Spec
CONSTANTS
    c1 = c1  c2 = c2
    Clients = {c1, c2}
    NoClient = NoClient
    MaxSize = 2
    MaxTokens = 3
    MaxLate = 1
    MaxRestarts = 1
SYMMETRY MCSymmetry
INVARIANTS
    TypeOK
    SizeCovers
    MdsNotAhead
    VersionNamesSize
PROPERTIES
    TokenOrder
CHECK_DEADLOCK FALSE
