CONSTANTS
    x = x
    y = y
    z = z
    Names = {x, y, z}
    Modes = {"permanent", "transient", "never"}
    MaxChildren = 2
    MaxRestarts = 1
    RestartFails = {"never"}
    RaceRestart = {"never"}
    EarlyCrash = {"never"}
    CrashInStop = FALSE
    TeardownYields = FALSE
    MaxStarts = 3
    MaxForeign = 1
SPECIFICATION Spec
SYMMETRY NameSymmetry
INVARIANTS NoOrphans NoSilentEnd
PROPERTIES ForeignKept
CHECK_DEADLOCK FALSE
