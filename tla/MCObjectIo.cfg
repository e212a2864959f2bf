\* Two calls; the client's pool has room for two of their three tasks.
SPECIFICATION FairSpec
CONSTANTS
    p = p  q = q  s1 = s1  s2 = s2  s3 = s3  d1 = d1  d2 = d2
    Ops = {p, q}
    Slices = {s1, s2, s3}
    SlicesOf <- MCSlicesOf
    LengthOf <- MCLengthOf
    DiskOf <- MCDiskOf
    Node = Node
    Threads = 2
    ClientDepth = 2
    ClientPerKey = 2
    ClientBytes = 8
    Servers = 2
    NodeDepth = 2
    NodePerKey = 1
    NodeBytes = 3
INVARIANTS PoolsKept BudgetKept  SuccessIsWhole 
PROPERTIES CallsReturn HeldAnswered 
CHECK_DEADLOCK FALSE
