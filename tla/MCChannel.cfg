SPECIFICATION Spec
CONSTANTS
    Sent <- Some
    BUFFER_SIZE = 10
    MaxSent = 3
INVARIANTS EachInTurn InOrder
PROPERTY Resynchronises
CHECK_DEADLOCK FALSE
