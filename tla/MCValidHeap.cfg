SPECIFICATION Spec
CONSTANTS
    NumBlks = 5
    Full = 2
INVARIANTS
    TypeOK
    PositionsInverse
    HeapOrdered
PROPERTIES
    ImplementsPool
CHECK_DEADLOCK FALSE
