SPECIFICATION FairSpec
CONSTANTS
    Clients = 3
    MaxTasks = 5
    MaxLeft = 2
INVARIANTS TypeOK HandledInOrder NoneLeftBehind
PROPERTY ImplementsQueue
CHECK_DEADLOCK FALSE
