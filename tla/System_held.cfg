\* A memory cooldown taken by an alert that failed.
SPECIFICATION SystemSpec
CONSTANTS
    i1 = i1   s1 = s1   r1 = r1   r2 = r2
    Instances = {i1}
    Services = {s1}
    Requests = {r1, r2}
    InstanceOf <- OneProcess
    ServiceOf <- OneService
    Cooldown = 1
    MaxTime = 2
    Faults = {}
    Webhook = TRUE
    MaxAttempts = 1
    MaxStalls = 1
    MaxMishaps = 0
    DeliveryFaults = {}
PROPERTY HeldMeansSent
CHECK_DEADLOCK FALSE
