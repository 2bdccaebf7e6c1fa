\* Two processes behind one Redis lock; Redis is down, slow or back at any moment.
SPECIFICATION Spec
CONSTANTS
    i1 = i1   i2 = i2   s1 = s1
    r1 = r1   r2 = r2   r3 = r3
    Instances = {i1, i2}
    Services = {s1}
    Requests = {r1, r2, r3}
    InstanceOf <- TwoProcesses
    ServiceOf <- OneService
    Cooldown = 2
    MaxTime = 3
    Faults = {}
SYMMETRY FirstTwoAlike
INVARIANTS
    TypeOK
    DirectAlertsSpaced
    QueuedAlertsSpaced
    SilenceTracesToAlert
PROPERTY LocalNeverShrinks
