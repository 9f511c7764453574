SPECIFICATION Spec
CONSTANTS
    Specs <- MCSpecs
    Fuse <- MCFuse
    Layout <- MCLayout
    Table <- MCTable
    DirOrder <- MCDirOrder
    PartSize <- MCPartSize
    Levels <- MCLevels
    Sessions <- MCSessions
    MaxSessions = 2
    MaxFailures = 2
    MaxEntries = 14
    NameMax = 36
    SpecMax = 128
INVARIANTS
    PackageIsWhole

CHECK_DEADLOCK FALSE
