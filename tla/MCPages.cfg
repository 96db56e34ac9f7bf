SPECIFICATION Spec
CONSTANTS
    LPids = {1, 2, 3}
    Chief = 1
    Found = {2, 3}
    Opaque = {2, 3}
    MaxSnaps = 2
    MaxChurn = 1
    MaxGen = 1
    Nobody = Nobody
    MPids = {1, 2, 3}
    Crew = {1, 2}
    ProgramOf <- MCProgramOf
    NoPath = "?"
    Classes = {"high"}
    Cpus = {c0}
    MaxStamp = 2
    Nil = Nil
    UserPids = {1, 2}
    Sids = {1, 2}
    UserOf <- MCUserOf
    Programs = {1}
    Devices = {1, 2}
    Whole = 2
    NoSid = 0
    IconPaths = {i1, i2, i3}
    UploadBudget = 1
    CacheCap = 2
    MaxFlight = 3
    SpawnFails = TRUE
    NoIconPath = NoIconPath
INVARIANTS
    SelectionTrue
    UsersTrue
    IconsSafe
PROPERTIES
    MenuSafe
CHECK_DEADLOCK FALSE
