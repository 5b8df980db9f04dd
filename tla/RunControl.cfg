SPECIFICATION MCSpec
CONSTANTS
    Procs = {p1, p2, p3}
    Inodes = {i1, i2}
    Absent = Absent
    Empty = Empty
    MaxCalls = 1
    MaxTries = 1
    MaxCrashes = 2
    Clients = {c1, c2}
    None = None
    MaxWriteFailures = 1
    UnknownProbes = TRUE
    Callers = {c1, c2}
    Nobody = None
    MaxOutput = 1
INVARIANTS LockSafe PosixStopHonest WindowsHonest
PROPERTIES SettledStays RunsMakeProgress
CHECK_DEADLOCK FALSE
