SPECIFICATION CallSpec
CHECK_DEADLOCK FALSE
CONSTANTS
    BLOCK = 4
    INODE_BLOCKS = 3
    DIRECTORY_ENTRIES = 2
    WORD = 256
    HEX_DIGITS = 2
    LINE_BUFFER = 10
    Space = "_"
    Nul = "0"
    Remnant = "?"
    MEM_128MB = 8
    MEM_132MB = 16
    MaxLength = 12
    MaxBlock = 4
    MaxRequest = 9
    MaxAddress = 11
    MaxCommand = 7
    BUFSIZE = 4
    Garbage = 2
    NewLine = "n"
    MAX_COMMAND = 4
    NAME_SIZE = 3
    ERRNO_RANGE = 16
    MaxHostLine = 5
    MaxHostCalls = 5
    MaxHostFd = 6
    MaxText = 7
    MaxCodes = 4
INVARIANTS
    ReadsReturnTheFile
    LibraryFunctionsAgree
    GrepFindsTheLines
    ArgumentsReachTheProgram
    SystemCallsReachTheirHandlers
    KeysTypeTheirCharacters
