SPECIFICATION MCSpec
CONSTANTS
    Nodes = {}
    Complaints = {}
    Sims = {s1}
    AlertsEnabled = TRUE
    StaleAfter = 0
    MaxTime = 0
    MaxBeats = 0
    MaxChanges = 0
    MaxLives = 2
    MaxFailures = 1
    Imsis = {s1, s2}
    Teids = {t1}
    Sources = {"upf", "live", "cdr"}
    MaxBytes = 2
    MaxMishaps = 1
    Enabled = TRUE
    Quotas = {2}
    Corrections = {1}
    Clients = {c1}
    MaxRequests = 2
    MaxEvents = 3
INVARIANTS
    TypeOK
    BytesConserved
    ChargedPerReading
    ReadIsCharged
    OverQuotaStopped
CHECK_DEADLOCK FALSE
