SPECIFICATION PatientSpec
CONSTANTS
    MAX_TERMINALS = 2
    LINE_BUFFER = 4
    WORD = 8
    Letters <- TwoLetters
    ReadSizes = {2, 9}
PROPERTIES
    RefinesLineDiscipline
    EveryLineIsRead
