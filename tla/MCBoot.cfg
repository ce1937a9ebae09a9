SPECIFICATION FairSpec
CONSTANTS
    MAX_TERMINALS = 3
    MAX_PROGS = 6
    TABLE_SIZE = 3
    Exceptions = {0, 11, 13, 14}
    NULL = NULL
INVARIANTS
    MachineStopsForAReason
    MemoryIsApart
PROPERTIES
    EveryKeyIsServed
