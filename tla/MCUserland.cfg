SPECIFICATION UserSpec
CONSTANTS
    Terminal = {0, 1}
    Slot = {0, 1, 2, 3}
    First <- FirstSlot
    MAX_FD = 6
    directory <- SmallDirectory
    num_inodes = 8
    Requests = {1, 2, 4, 32, 1023}
    NULL = NULL
    contents <- SmallContents
    Commands <- TerminalCommands
    MEM_128MB = 134217728
    MEM_132MB = 138412032
    CHUNK = 2
    Counts = {2}
INVARIANTS
    ProgramsGetTheirData
    ErrorTestsPass
PROPERTIES
    ProgramsReturn
    UsersTakeTurns
