SPECIFICATION Spec
CONSTANTS
    f1 = f1
    f2 = f2
    OtaFiles = {f1, f2}
    StateFile = state_file
    MaxResets = 3
    TornWrites = FALSE
INVARIANTS AlignInv FilesSurvive SourceComplete DoneIsAligned FailsOnlyAfterMkfs
PROPERTIES ResumesFromLatest Aligns RelocatesFiles
CHECK_DEADLOCK FALSE
