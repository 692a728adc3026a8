SPECIFICATION FairSpec
CONSTANTS
    Clients = {c1, c2}
    Workers = {w1, w2}
    Names = {n1}
    NoName = NoName
    FailNames = {NoName}
    JoinNames = {n1}
    Keys = {1}
    Handles = {h1}
    None = None
    FdHash <- MCFdHash
    NameHash <- MCNameHash
    CrashClients = {}
    MaxReplays = 0
    n1 = n1
    n2 = n2
    c1 = c1
    c2 = c2
CHECK_DEADLOCK FALSE
PROPERTIES
    Answered
    Released
