CONSTANTS
    Root = "root"
    Settings <- LiveSettings
SPECIFICATION FairSpec
PROPERTIES CrashAnswered StopEnds
CHECK_DEADLOCK FALSE
