SPECIFICATION MCSpec
CONSTANTS
    None = None
    Threads = {1, 2}
    Weaves = {w1}
    Links <- MCLinks
    Clients = {c1, c2}
    BenchPackets = 3
    Window = 2
    ResyncAfter = 2
    MaxSeq = 4
    MaxLab = 1
    MaxRequests = 3
    MaxLives = 3
    MaxFailures = 1
SYMMETRY ClientSymmetry
INVARIANTS
    TypeOK
    Lockstep
PROPERTIES
    RestartKeeps
CHECK_DEADLOCK FALSE
