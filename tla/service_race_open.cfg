SPECIFICATION Spec
CONSTANTS
    t1 = t1
    t2 = t2
    Threads = {t1, t2}
    Ops <- Pair
    Attempts = {1}
    Creds = {"c1", "c2"}
    QueueSize = 2
    MaxResets = 0
    MaxFails = 0
    Backoff = TRUE
    Faults = FALSE
    StartMayFail = FALSE
CHECK_DEADLOCK FALSE
INVARIANT CredentialsStored
