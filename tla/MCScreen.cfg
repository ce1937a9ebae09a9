SPECIFICATION MCSpec
CHECK_DEADLOCK FALSE
CONSTANTS
    Terminal = {0, 1}
    FirstShown = 0
    NUM_COLS = 4
    NUM_ROWS = 3
    LINE_BUFFER = 6
    Prompt <- SmallPrompt
    Letters <- SmallLetters
    Outputs <- SmallOutputs
    Messages <- SmallMessages
    MaxKeys = 7
INVARIANTS
    PositionOnScreen
    EchoShowsTheLine
    NextLetterFollows
PROPERTIES
    TerminalsKeepTheirScreens
