SPECIFICATION FairProbeSpec
CONSTANTS
    ProbeFailures = 2
    Probing = TRUE
    SeqMod = 3
INVARIANTS
    OneProbeOutstanding
PROPERTIES
    GoodPathComesBack
    BlackPathGoesDown
