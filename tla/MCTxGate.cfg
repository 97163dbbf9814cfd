SPECIFICATION Spec
CONSTANTS
    Clients = {c1, c2}
    Nodes = {n1, n2}
    Modes = {"lab", "rf"}
    Archives <- MCArchives
    MaxRequests = 5
    MaxRestarts = 1
    MaxFailures = 1
SYMMETRY ClientSymmetry
INVARIANTS
    TypeOK
    
    DisarmSurvives
CHECK_DEADLOCK FALSE
