SPECIFICATION FairSpec
CONSTANTS
    MAX_TERMINALS = 2
    Frequencies <- AroundPowers
INVARIANTS
    ClockIsSound
PROPERTIES
    TicksAreNotShared
    ValidFrequenciesAreSet
    BlockedReadReturns
