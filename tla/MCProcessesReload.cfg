SPECIFICATION Spec
CONSTANTS
    MAX_TERMINALS = 2
    MAX_PROGS = 3
    Shell = shell
    Executables = {shell, counter}
    Unset = Unset
    NULL = NULL
    Statuses = {0, 7}
    Storers = {0, 1, 2}
PROPERTIES
    ReloadRestoresProgram
