SPECIFICATION Spec
CONSTANTS
    POOL = 3
    SCREEN = 3
    WORD = 4
    Inputs <- SmallInputs
    NULL = NULL
INVARIANTS
    PoolIsListed
PROPERTIES
    CellsShowTheirBlinks
    RefinesBlinkList
