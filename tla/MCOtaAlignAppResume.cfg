SPECIFICATION Spec
CONSTANTS
    f1 = f1
    f2 = f2
    OtaFiles = {f1, f2}
    StateFile = state_file
    MaxResets = 1
    TornWrites = FALSE
INVARIANT ResumeSucceeds
CHECK_DEADLOCK FALSE
