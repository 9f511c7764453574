SPECIFICATION Spec
CONSTANTS
    internal = internal
    sdcard = sdcard
    usb = usb
    app = app
    Dirs = {sdcard}
    PkgOf <- ThreePackages
    Base = 2
    BaseHasVer = TRUE
    Home <- Kept
    Cells = {"v_old", "b_old", "v_new", "b_new"}
    Split = {"v_new"}
    Rest = {app}
    Board = "xavier"
    MaxFaults = 0
INVARIANT NoRollback
CHECK_DEADLOCK FALSE
