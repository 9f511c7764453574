SPECIFICATION Spec
CONSTANTS
    Chips = {"0x19", "0x23"}
    Trees <- ProperTrees
    Ramcodes = {0, 1, 2}
    Begins <- MCBegins
    MaxCalls = 2
INVARIANT TrimIsExact
CHECK_DEADLOCK FALSE
