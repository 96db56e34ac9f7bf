SPECIFICATION LiveSpec
CONSTANTS
    Gui = {g1, g2}
    Others = {o1}
    Stop = Stop
    Nobody = Nobody
    Cap = 2
    QueueCap = 1
    Workers = {w1}
    MaxFailures = 2
    MaxFaults = 1
    Callers = {c1, c2}
    MaxCalls = 5
    Nobody0 = Nobody0
    MaxTicks = 6
    Tolerance = 3
    NoReading = NoReading
    MaxStarts = 4
    MaxFails = 1
    MaxLives = 2
    NoTrace = NoTrace
    Pids = {p1, p2}
    Tids = {t1, t2}
    Bases = {b1, b2, b3}
    MaxThreads = 1
    MaxModules = 2
    MaxRecords = 5
    Target = p1
    Free = Free
INVARIANTS
    BrokerSafe
PROPERTIES
    UsageHonest
    TracesHonest
    StopEnds
CHECK_DEADLOCK FALSE
