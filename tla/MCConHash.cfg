SPECIFICATION Spec
CONSTANTS
    HASH_MAX = 20
    HASH_INCREMENT = 2
    NULL = NULL
    Servers = {s1, s2, s3, s4}
    HashBound = 5
    Hash <- MCHash
    RingKeys = {0, 1, 2, 3, 4, 5, 6, 7, 8, 9, 10, 11, 12, 13, 14}
    MaxNodes = 5
    s1 = s1
    s2 = s2
    s3 = s3
    s4 = s4
INVARIANTS
    TypeOK
    RingSorted
    OwnerIsSuccessor
    BackupIsNext
PROPERTIES
    JoinTakesOnly
    LeaveGoesToBackup
