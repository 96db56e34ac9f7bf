SPECIFICATION LiveSpec
CONSTANTS
    Demands = {d1}
    Intervals = {1, 2}
    None = None
    Methods = {"Start", "SetInterval", "Pause", "Resume", "Shutdown", "SampleNow", "SetDemand", "SetBackground", "Refresh"}
    Backgrounds = {TRUE}
    MaxQueue = 1
INVARIANTS
    NoOversleep
PROPERTIES
    EngineAnswers
    PauseKept
CHECK_DEADLOCK FALSE
