SPECIFICATION Spec
CONSTANTS
    PPids = {1, 2, 3}
    Kinds <- MCKinds
    PBirths = {1, 2}
    CoreImages = {"svchost"}
    SvcHost = "svchost"
    Surfaces = {"shell"}
    ShellImage = "shell"
    Launchers = {"launcher"}
    HelperImages = {"helper"}
    NoProcess = NoProcess
    WalkPids = {1, 2, 3}
    NoParent = 0
    MaxPid = 3
    Births = {0, 1, 2}
    Gone = Gone
    Offers = {{"general", "list"}, {"general", "modules"}, {"general", "security"}}
    MaxEpoch = 2
    MaxRefs = 2
    MaxReleases = 2
    MaxPresses = 1
    Blank = Blank
    Failed = Failed
    EntryKeys = {1, 2}
    NoItem = NoItem
    DPids = {1, 2}
    Reuses = 1
    NoDump = NoDump
    Pids = {q1, q2}
    GuiPid = GuiPid
    SvcPid = SvcPid
    Tried = {"kill", "tree", "suspend", "unload", "modules", "mask"}
    MaxProcs = 4
    MaxSecs = 1
    NoProc = NoProc
    NoStart = NoStart

    
PROPERTIES
    ActionsSafe
    InspectorHonest
CHECK_DEADLOCK FALSE
