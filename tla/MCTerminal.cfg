SPECIFICATION UnhurriedSpec
CONSTANTS
    MAX_TERMINALS = 2
    LINE_BUFFER = 4
    WORD = 8
    Letters <- FirstTypes
    ReadSizes = {2}
INVARIANTS
    BuffersAreSound
PROPERTIES
    ReadGivesTheLine
