SPECIFICATION MCSpec
CONSTANTS
    Sources <- MCSources
    Options <- StaleOptions
    Sessions <- MCSessions
    Ramcodes <- MCRamcodes
    MaxWords = 4
    MaxPolls = 1
    MaxSwaps <- MCMaxSwaps
INVARIANTS
    RamcodeIsBoards

CHECK_DEADLOCK FALSE
