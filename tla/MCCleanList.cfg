\* Three blocks and one node each, as in the program (LOG_BLK_PER_BANK nodes).
CONSTANTS
    Lbn = {b1, b2, b3}
    NumNodes = 3
SPECIFICATION Spec
INVARIANTS TypeOK PointersSpellLists NodesConserved
PROPERTY ImplementsFifo
\* A pop of an empty list or a push into a full one stops the firmware for good.
CHECK_DEADLOCK FALSE
