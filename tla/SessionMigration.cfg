CONSTANTS
    f1 = f1
    f2 = f2
    f3 = f3
    f4 = f4
    Files = {f1, f2, f3, f4}
    Legacy <- Legacy3
    KeepLast = 1
    MaxId = 4
    MaxStarts = 2
SPECIFICATION MigrationSpec
SYMMETRY FileSymmetry
INVARIANTS
    SplitIsSound
    SplitOnce
CHECK_DEADLOCK FALSE
