SPECIFICATION Spec
CONSTANTS
    MAX_TERMINALS = 3
    MAX_PROGS = 5
    Shell = shell
    Executables = {shell, counter}
    Unset = Unset
    NULL = NULL
    Statuses = {0}
    Storers = {3}
INVARIANTS
    TypeOK
    RunsFrontProgram
    SavedContextIsOfFrontProgram
    HaltReturnsToParent
    ProcessTableAddsUp
    PagesHoldTheirPrograms
PROPERTIES
    OthersUntouched
    RefinesTerminalStacks
