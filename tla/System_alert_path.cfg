\* Two requests from the gate to the tables, in one process that may die, within one
\* cooldown: that cooldowns expire is the subject of the runs of Detector.
SPECIFICATION SystemFairSpec
CONSTANTS
    i1 = i1   s1 = s1   r1 = r1   r2 = r2
    Instances = {i1}
    Services = {s1}
    Requests = {r1, r2}
    InstanceOf <- OneProcess
    ServiceOf <- OneService
    Cooldown = 1
    MaxTime = 1
    Faults = {"restart"}
    Webhook = FALSE
    MaxAttempts = 1
    MaxStalls = 1
    MaxMishaps = 1
    DeliveryFaults = {"insert", "record", "redis", "stop"}
INVARIANT NoneVanishes
PROPERTY EveryIncidentIsEntered
CHECK_DEADLOCK FALSE
