SPECIFICATION PoliteSpec
CONSTANTS
    Terminal = {0, 1}
    Slot = {0, 1, 2, 3}
    First <- FirstSlot
    MAX_FD = 4
    directory <- SmallDirectory
    num_inodes = 4
    Requests = {1, 3}
    NULL = NULL
INVARIANTS
    FilesHaveTheirProgram
PROPERTIES
    RefinesOpenFiles
