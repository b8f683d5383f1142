SPECIFICATION FairSpec
CONSTANTS
    a1 = a1
    a2 = a2
    Appliers = {a1}
    Chunks = 2
    Scenarios <- Updates
CHECK_DEADLOCK FALSE
INVARIANTS UpgradeIsWhole TruthAtRest
PROPERTIES ApplyEnds
