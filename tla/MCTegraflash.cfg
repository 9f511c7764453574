SPECIFICATION MCSpec
CONSTANTS
    Sources <- MCSources
    Options <- MCOptions
    Sessions <- MCSessions
    Ramcodes <- MCRamcodes
    MaxWords = 4
    MaxPolls = 1
    MaxSwaps <- MCMaxSwaps
INVARIANTS
    TypeOK
    SentIsSigned
    BctNamesMb1
    CombinedOnce
    TrimMatchesMem
PROPERTIES
    FlashIsWhole
    Ends

CHECK_DEADLOCK FALSE
