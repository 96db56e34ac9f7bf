SPECIFICATION UiLiveSpec
CONSTANTS
    Demands = {page1, page2, hidden}
    HiddenDemand = hidden
    Intervals = {1, 2, 3}
    HiddenInterval = 2
    Speeds = {1, 3}
    Paused = 3
    None = None
    Methods = {"Start", "SetDemand", "SetBackground", "SetInterval", "Pause", "Resume", "Refresh", "F5"}
    Backgrounds = {TRUE, FALSE}
    MaxQueue = 1

    
PROPERTIES
    WindowHonoured
