SPECIFICATION Spec
CONSTANTS
    Files <- MCFiles
    Size <- MCSize
    Calls <- MCCalls
    MaxCalls = 2
    MaxVersion = 2
    KdkTable <- MCKdkTable
    DkTable <- MCDkTable
    MagicTable <- MCMagicTable
    NvDebug = TRUE
    NvLoad = FALSE
INVARIANTS
    ListSigned
    FileSigned
    KdfFollowsTable

CHECK_DEADLOCK FALSE
