SPECIFICATION Spec
CONSTANTS
    Clients = {c1, c2}
    Workers = {w1, w2}
    Names = {n1}
    NoName = NoName
    FailNames = {NoName}
    JoinNames = {NoName}
    Keys = {}
    Handles = {h1}
    None = None
    FdHash <- MCFdHash
    NameHash <- MCNameHash
    CrashClients = {c2}
    MaxReplays = 1
    n1 = n1
    n2 = n2
    c1 = c1
    c2 = c2
CHECK_DEADLOCK FALSE
SYMMETRY SymmetricWorkers
INVARIANTS
    HandleTableOK
