SPECIFICATION FairSpec
CONSTANTS
    N = 1
    Clients = {r1, r2}
    Ops <- MCAllOps
    ImportStatuses = {"issued", "suspended"}
    MaxRequests = 3
    MaxTicks = 1
    MaxFaults = 2
INVARIANTS
    AnswersHold
PROPERTIES
    DueIsMarked
CHECK_DEADLOCK FALSE
