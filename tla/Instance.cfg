SPECIFICATION LiveSpec
CONSTANTS
    Procs = {p1, p2, p3}
    Replacements = {p3}
    None = None
    CanProbe = TRUE
    Faults = {"close", "wedge", "crash", "objects"}
INVARIANTS
    PrimaryOwnsMutex
PROPERTIES
    LaunchesServed
CHECK_DEADLOCK FALSE
