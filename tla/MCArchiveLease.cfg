CONSTANTS
    w1 = w1
    w2 = w2
    w3 = w3
    n1 = n1
    d1 = d1
    d2 = d2
    Workers = {w1, w2, w3}
    Owners = {d1, d2}
    Nodes = {n1}
    NoOwner = NoOwner
    OwnerOf <- MCOwnerOf
    NodeOf <- MCNodeOf
    Requests = {0, 3}
    DefaultLease = 1
    MinLease = 1
    MaxLease = 2
    MaxTime = 2
    MaxIssued = 3
SPECIFICATION Spec
CHECK_DEADLOCK FALSE
INVARIANTS
    TypeOK
    NewestLeaseOnly
    SettledLeaseGone
    LeaseBounded
PROPERTY DeadLeaseStaysDead
