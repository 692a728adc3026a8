SPECIFICATION Spec
CONSTANTS
    a = a  b = b  NULL = NULL  Unset = Unset
    Workers = {w1, w2}
    Lists <- ListsUpToTwo
    MaxUpdates = 2
INVARIANTS TypeOK
PROPERTIES SteadyAnswer
CHECK_DEADLOCK FALSE
