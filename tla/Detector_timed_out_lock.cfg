\* The plan's claim about a lock taken by a timed-out SET NX.
SPECIFICATION Spec
CONSTANTS
    i1 = i1   i2 = i2   s1 = s1
    r1 = r1   r2 = r2   r3 = r3
    Instances = {i1}
    Services = {s1}
    Requests = {r1, r2}
    InstanceOf <- OneProcess
    ServiceOf <- OneService
    Cooldown = 2
    MaxTime = 3
    Faults = {}
SYMMETRY AllAlike
INVARIANT TimedOutLockStillAlerts
