SPECIFICATION FairSpec
CONSTANTS
    Codes = {c1}
    Setups <- MCPlain
    Euiccs = {e1, e2}
    Allowed <- MCOneEuicc
    Again = FALSE
    DiskFails = TRUE
    MaxSessions = 5
    MaxFaults = 3
PROPERTIES
    DeviceGetsProfile
CHECK_DEADLOCK FALSE
