SPECIFICATION Spec
CONSTANTS
    app = app
    disp = disp
    Threads = {app, disp}
    Clients <- AllClients
    Payloads = {101, 102}
    Rates = {0, 3, 12}
    Region = "EU_868"
    NonceModulus = 16
    ClockTries = 1
    MaxCalls = 5
    MaxFails = 2
CHECK_DEADLOCK FALSE
INVARIANTS LeaveCancels AcceptedJoinRuns ResultDropped RateIsCurrent FragRuns
