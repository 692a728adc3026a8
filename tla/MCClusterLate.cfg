SPECIFICATION Spec
CONSTANTS
    a = a  b = b  d = d  NULL = NULL  None = None
    HASH_MAX = 100  HASH_INCREMENT = 3
    Hashes <- Known
    Clients = {c1}
    Servers = {a, b, d}
    Keys = {5, 25}
    MaxTry = 2
    Worlds <- VeryLate
INVARIANT ValueOfKey
CHECK_DEADLOCK FALSE
