SPECIFICATION ListSpec
CONSTANTS
    Addr = {a1, a2, a3, a4}
    NullPtr = NullPtr
    Free = Free
    Data = {d1, d2}
    NoCall = NoCall
INVARIANT WellLinked
PROPERTIES ImplementsList
SYMMETRY AddrSymmetry
CHECK_DEADLOCK FALSE
