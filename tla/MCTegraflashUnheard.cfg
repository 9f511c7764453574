SPECIFICATION MCSpec
CONSTANTS
    Sources <- MCSources
    Options <- UnheardOptions
    Sessions <- MCSessions
    Ramcodes <- MCRamcodes
    MaxWords = 4
    MaxPolls = 1
    MaxSwaps <- MCMaxSwaps
INVARIANTS
    FlashedIsSigned

CHECK_DEADLOCK FALSE
