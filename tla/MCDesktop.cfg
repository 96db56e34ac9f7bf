SPECIFICATION Spec
CONSTANTS
    Helpers = {h1, h2}
    MaxOps = 3
    MaxChanges = 1
    MaxPosts = 1
    LaunchFlags <- MCLaunchFlags
    MaxLaunchChanges = 1
    Backends = 2
    NoProcess0 = NoProcess0
    MaxClicks = 2
    MaxStarts = 2
    NoEntry = NoEntry
    Places = {"hklm", "hklm32", "user"}
    ItemNames = {a}
    SPids = {q1}
    Images = {x, y}
    Window = 2
    MaxUse = 1
    MaxBoots = 1
    MaxWrites = 2
    NoImage = NoImage
    Builds = {1, 2}
    MaxRuns = 3
    MaxFaults = 1
    Absent = Absent
    MaxEdits = 3
    Names = {1, 2, 3}
    Bad = {3}
    Top = 4
    MaxEntries = 3
    MaxSize = 2
INVARIANTS
    LaunchHonest
    SettingsHonest
PROPERTIES
    HookSafe
    RegistrationSafe
    
    SetupSafe
CHECK_DEADLOCK FALSE
