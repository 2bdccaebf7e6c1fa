\* Two requests with every fault: restarts, Redis data loss, database errors;
\* only the awaits of a response are fair.
SPECIFICATION FairSpec
CONSTANTS
    i1 = i1   i2 = i2   s1 = s1
    r1 = r1   r2 = r2   r3 = r3
    Instances = {i1}
    Services = {s1}
    Requests = {r1, r2}
    InstanceOf <- OneProcess
    ServiceOf <- OneService
    Cooldown = 2
    MaxTime = 4
    Faults = {"db", "restart", "dataLoss"}
INVARIANTS
    DirectAlertsSpaced
    QueuedAlertsSpaced
    SilenceTracesToAlert
PROPERTY ResponseSent
