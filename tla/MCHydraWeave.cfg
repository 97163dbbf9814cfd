SPECIFICATION Spec
CONSTANTS
    Threads = {t1, t2}
    Readers = {t1, t2}
    NoFrame = NoFrame
    Data <- MCData
    Frames <- MCFrames
    MaxSeq = 3
    Window = 2
    ResyncAfter = 2
    QueueFrames = 1
    MaxLost = 1
    MaxDup = 0
    MaxEpoch = 1
    MaxFaults = 1
    SlowPaths = TRUE
SYMMETRY MCSymmetry
INVARIANTS
    EgressInOrder
    OneSender
    SentIsBehind
    QueueBytesIsBacklog
PROPERTY IsOrderedChannel
CHECK_DEADLOCK FALSE
