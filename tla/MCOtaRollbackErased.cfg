SPECIFICATION Spec
CONSTANTS
    internal = internal
    sdcard = sdcard
    usb = usb
    app = app
    Dirs = {internal}
    PkgOf <- ThreePackages
    Base = 2
    BaseHasVer = TRUE
    Home <- Kept
    Cells = {"v_old", "b_old", "v_new", "b_new"}
    Split = {}
    Rest = {app}
    Board = "nx"
    MaxFaults = 2
INVARIANT TornVerBIsFresh
CHECK_DEADLOCK FALSE
