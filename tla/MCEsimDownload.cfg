SPECIFICATION Spec
CONSTANTS
    Codes = {c1}
    Setups <- MCAllSetups
    Euiccs = {e1, e2}
    Allowed <- MCAnyEuicc
    Again = TRUE
    DiskFails = TRUE
    MaxSessions = 3
    MaxFaults = 2
INVARIANTS
    FailedLeavesNothing
    SuccessIsConfirmed
    ServedIsMarked
PROPERTIES
    SessionsMoveForward
CHECK_DEADLOCK FALSE
