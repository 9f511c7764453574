SPECIFICATION Spec
CONSTANTS
    internal = internal
    sdcard = sdcard
    usb = usb
    app = app
    Dirs = {internal, sdcard, usb}
    PkgOf <- ThreePackages
    Base = 2
    BaseHasVer = TRUE
    Home <- Kept
    Cells = {"v_old", "b_old", "v_new", "b_new"}
    Split = {}
    Rest = {app}
    Board = "xavier"
    MaxFaults = 3
INVARIANTS RollbackInv NoRollback RecordIsTrue TornVerBIsFresh
PROPERTIES UpgradesInSteps
CHECK_DEADLOCK FALSE
