SPECIFICATION Spec
CONSTANTS
    t1 = t1
    t2 = t2
    Threads = {t1}
    Ops <- Alone
    Attempts = {1}
    Creds = {"c1"}
    QueueSize = 1
    MaxResets = 1
    MaxFails = 0
    Backoff = FALSE
    Faults = TRUE
    StartMayFail = TRUE
CHECK_DEADLOCK FALSE
INVARIANTS ServiceConsistent LossReported
