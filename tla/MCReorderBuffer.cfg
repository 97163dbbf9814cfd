SPECIFICATION ReorderSpec
CONSTANTS
    Data = {d1}
    Window = 3
    ResyncAfter = 2
    Seqs <- MCSeqs
    MaxReceived = 7
INVARIANTS
    ReorderTypeOK
    WithinWindow
    EveryPacketCounted
    EverySequenceExplained
    ReleasedInOrder
CHECK_DEADLOCK FALSE
