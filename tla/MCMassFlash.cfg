SPECIFICATION Spec
CONSTANTS
    p1 = p1
    p2 = p2
    other = other
    t1 = t1
    t2 = t2
    t3 = t3
    Nobody = Nobody
    Procs = {p1, p2}
    Instances = {p1, p2, other}
    Targets = {t1, t2}
    TargetOf <- Given
    Leftover <- TwoFresh
    Matches <- EachItself
    SerialOf <- TheSerial
    Kinds = {"mmc0"}
    Names = {1, 2}
    MaxPolls = 2
    MaxFaults = 1
INVARIANTS MassFlashInv OwnUnlessLost RebootedIsFlashed DevIsClean StatusIsTrue
CHECK_DEADLOCK FALSE
