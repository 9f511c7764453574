SPECIFICATION RecoverySpec
CONSTANTS
    BadBoots = "normal"
    MaxRetry = 2
    MaxLosses = 3
INVARIANTS RecoveryInv AlwaysBoots CleanedIsWhole RetryBounded
PROPERTY Settles
CHECK_DEADLOCK FALSE
