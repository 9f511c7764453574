SPECIFICATION MCSpec
CONSTANTS
    Sources <- MCSources
    Options <- ReadOptions
    Sessions <- MCSessions
    Ramcodes <- MCRamcodes
    MaxWords = 4
    MaxPolls = 1
    MaxSwaps <- MCMaxSwaps
INVARIANTS
    ReadIsTrue

CHECK_DEADLOCK FALSE
