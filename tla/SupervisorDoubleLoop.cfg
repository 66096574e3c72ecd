CONSTANTS
    Root = "root"
    Settings <- CrashedAnew
SPECIFICATION Spec
PROPERTIES NoDoubleLoop
CHECK_DEADLOCK FALSE
