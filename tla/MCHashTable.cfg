SPECIFICATION TableSpec
CONSTANTS
    HashKeys = {ka, kb, kc}
    Values = {v1, v2}
    Length = 2
    HashFun <- MCHashFun
    NoCall = NoCall
    MaxNodes = 4
    ka = ka
    kb = kb
    kc = kc
INVARIANT
    LookupIsFirstBinding
PROPERTY
    KeysIndependent
