CONSTANTS
    Nil = Nil
    None = None
    x = x
    y = y
    a = a
    b = b
    c = c
SPECIFICATION Spec
SYMMETRY SymValues
INVARIANTS TypeOK CommitsSurviveCrashes PruningExact SnapshotsServed
PROPERTIES ImplementsBranch NewestAreKept LostOnlyInPruning
CHECK_DEADLOCK FALSE
