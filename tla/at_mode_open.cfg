SPECIFICATION Spec
CONSTANTS
    Builds <- AllBuilds
    FieldWrites <- SomeFieldWrites
    P2pWrites <- SomeP2pWrites
    MaxCommands = 4
    MaxBoots = 3
CHECK_DEADLOCK FALSE
INVARIANTS LimitsRefused ModeAlwaysSurvives
PROPERTIES BusyInLorawan
