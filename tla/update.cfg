SPECIFICATION Spec
CONSTANTS
    Threads = {"api"}
    Faults = 0
PROPERTY UpdateIsInstalled
CHECK_DEADLOCK FALSE
