SPECIFICATION DeliverySpec
CONSTANTS
    Threads = {t1, t2}
    Readers = {t1, t2}
    NoFrame = NoFrame
    Data <- MCData
    Frames <- MCFrames
    MaxSeq = 4
    Window = 2
    ResyncAfter = 3
    QueueFrames = 1
    MaxLost = 0
    MaxDup = 1
    MaxEpoch = 0
    MaxFaults = 0
    SlowPaths = FALSE
PROPERTY LostOnlyWhenFull
CHECK_DEADLOCK FALSE
