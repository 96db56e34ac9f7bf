SPECIFICATION LiveSpec
CONSTANTS
    MaxEvents = 4
    MaxControls = 2
    NoList = NoList
PROPERTIES
    ShellHonest
    PagesHonest
CHECK_DEADLOCK FALSE
