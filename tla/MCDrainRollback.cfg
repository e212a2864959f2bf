\* A late request, and the promise that a retry never puts old content back.
SPECIFICATION Spec
CONSTANTS
    a = a  b = b  c = c  f = f  o1 = o1  o2 = o2
    Nodes = {a, b, c}
    Files = {f}
    Objects = {o1}
    FileOf <- MCFileOf
    Home <- MCHome
    Drains = {a}
    NoNode = NoNode  NoFile = NoFile  NoObject = NoObject
    MaxWrites = 1
    MaxRetries = 2
    MaxLate = 1
    MaxRestarts = 1
PROPERTIES
    NoRollback
CHECK_DEADLOCK FALSE
