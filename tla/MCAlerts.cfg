SPECIFICATION AlertsFairSpec
CONSTANTS
    Nodes = {n1}
    Complaints = {"sdr-temp"}
    Sims = {s1}
    AlertsEnabled = TRUE
    StaleAfter = 0
    MaxTime = 1
    MaxBeats = 2
    MaxChanges = 1
    MaxLives = 2
    MaxFailures = 1
INVARIANTS
    FiredIsActive
    OneAlertPerRun
PROPERTIES
    SilentNodeReported
CHECK_DEADLOCK FALSE
