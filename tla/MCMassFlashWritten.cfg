SPECIFICATION Spec
CONSTANTS
    p1 = p1
    p2 = p2
    other = other
    t1 = t1
    t2 = t2
    t3 = t3
    Nobody = Nobody
    Procs = {p1}
    Instances = {p1, p2, other}
    Targets = {t1}
    TargetOf <- One
    Leftover <- OneFresh
    Matches <- OneApart
    SerialOf <- TheSerial
    Kinds = {"mmc0", "ext0"}
    Names = {1, 2}
    MaxPolls = 2
    MaxFaults = 1
INVARIANT SuccessIsWritten
CHECK_DEADLOCK FALSE
