\* A delivered alert recorded as failed.
SPECIFICATION Spec
CONSTANTS
    a1 = a1   a2 = a2   w1 = w1   w2 = w2
    Alerts = {a1}
    Workers = {w1}
    Webhook = TRUE
    MaxAttempts = 2
    MaxStalls = 1
    MaxMishaps = 0
    Faults = {"insert"}
INVARIANT FailureMeansUndelivered
CHECK_DEADLOCK FALSE
