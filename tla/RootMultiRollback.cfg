CONSTANTS
    Stores = {a, b}
    Added = {}
    UpgradeHeight = 0
    KeepRecent = 1
    KeepEvery = 0
    Interval = 2
    Strict = FALSE
    MaxRollbacks = 2
    MaxHeight = 4
    MaxCrashes = 1
SPECIFICATION Spec
INVARIANTS ReplayAgrees
CHECK_DEADLOCK FALSE
