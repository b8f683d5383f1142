SPECIFICATION LwFairSpec
CONSTANTS
    Attempts = 1
    HostWaits = TRUE
    Inputs <- AllInputs
    MaxLines = 3
    MaxDownlinks = 2
    QueueSize = 2
    MaxResets = 1
CHECK_DEADLOCK FALSE
INVARIANTS HostAnswersMatch JoinsAreAskedFor
PROPERTIES JoinAnswered
