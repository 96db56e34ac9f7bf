SPECIFICATION HistoryLiveSpec
CONSTANTS
    NoValue = NoValue
    MaxObserve = 1
    MaxSaves = 2
    MaxSessions = 2
    SpawnMayFail = FALSE
PROPERTIES
    HistoryKept
    DeferredSaveWritten
CHECK_DEADLOCK FALSE
