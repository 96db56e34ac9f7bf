SPECIFICATION Spec
CONSTANTS
    TablePids = {p1}
    MaxBirths = 3
    AttrTtl = 2
    RetryTtl = 2
    Cooldown = 2
    Grace = 2
    Trip = 1
    Fresh = 1
    MaxGap = 1
    None = None
    CPids = {c1}
    MaxClock = 3
    MaxBorn = 2
    MaxGlitches = 1
    MinWindow = 2
    MinShare = 1
    HoldTicks = 2
    NoValue = NoValue
    FPids = {5, 6, 7}
    Sorts <- MCSorts
    FBirths = {1, 2}
    ConfigTtl = 2
    Unsaid = Unsaid
    Keepalive = 2
    Reprobe = 2
    WifiTtl = 2
    Luids = {hw, egpu, basic}
    Software = {basic}
    GpuApps = {g1, g2}
    GpuEngines = {1}
    Nics = {n1, n2}
    MaxOctets = 2
    DiskNos = {0, 1, 2}
    Mounts = {vc, vd}
    NotYet = NotYet
    Tids = {1, 2}
    InModule = {1, 2}
    Unreadable = {2}
    Dormant = 1
    MaxDelay = 0
    NoThread = NoThread
INVARIANTS
    FactsSound
    CountersSound
    VerdictsTrue
PROPERTIES
    SampleTrue
CHECK_DEADLOCK FALSE
