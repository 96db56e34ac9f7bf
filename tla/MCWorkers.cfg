SPECIFICATION LiveSpec
CONSTANTS
    MaxChanges = 2
    MaxLives = 2
    None = None
    Absent = Absent
    Unusable = Unusable
    Cap = 1
    MaxActions = 2
    Procs = {p1}
    NoJob = NoJob
INVARIANTS
    ExecutorSafe
PROPERTIES
    SettingsKept
    WorkersAnswer
    StoreImplementsRegister
CHECK_DEADLOCK FALSE
