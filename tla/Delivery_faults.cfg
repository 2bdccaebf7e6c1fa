\* Two alerts, two processes and every fault.
SPECIFICATION FairSpec
CONSTANTS
    a1 = a1   a2 = a2   w1 = w1   w2 = w2
    Alerts = {a1, a2}
    Workers = {w1, w2}
    Webhook = TRUE
    MaxAttempts = 2
    MaxStalls = 1
    MaxMishaps = 2
    Faults = {"insert", "record", "redis", "lostReply", "stop"}
INVARIANTS
    TypeOK
    OneEntry
    DeliveriesBounded
    RowsHaveReceipts
    QueueSurvivesStops
PROPERTY ImplementsLedger
CHECK_DEADLOCK FALSE
