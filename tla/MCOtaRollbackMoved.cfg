SPECIFICATION Spec
CONSTANTS
    internal = internal
    sdcard = sdcard
    usb = usb
    app = app
    Dirs = {internal}
    PkgOf <- ThreePackages
    Base = 2
    BaseHasVer = FALSE
    Home <- Moved
    Cells = {"v_old", "b_old", "v_new", "b_new"}
    Split = {}
    Rest = {app}
    Board = "tx2"
    MaxFaults = 3
INVARIANT EnvKept
PROPERTIES MarkedIsResumed Completes
CHECK_DEADLOCK FALSE
