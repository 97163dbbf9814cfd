SPECIFICATION Spec
CONSTANTS
    None = None
    Clients = {a1, b1}
    Scoped = {b1}
    Secrets = {s1, s2}
    Ids = {i1}
    IdOf <- MCIdOf
    Roles = {"operator", "viewer"}
    Peers = {n1}
    MaxUEs = {0}
    MaxChanges = 3
    MaxBackups = 1
    MaxRestores = 1
    MaxLives = 2
    MaxFailures = 1
INVARIANTS
    TypeOK
    AuditNeverAhead
    AnsweredIsKept
PROPERTIES
    RevokedStaysOut
CHECK_DEADLOCK FALSE
