CONSTANTS
    Root = "root"
    Settings <- SafeSettings
SPECIFICATION Spec
INVARIANTS NoneSilentlyDown StopComplete
PROPERTIES NoDoubleLoop
CHECK_DEADLOCK FALSE
