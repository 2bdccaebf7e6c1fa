\* The code's times in ticks of 500 ms: 5 s, 500 ms, and ioredis's 2 s between attempts,
\* 1.5 s for the SELECT of GET /health, node-redis's 2.2 s between attempts rounded up.
SPECIFICATION EndpointSpec
CONSTANTS
    Interval = 10
    Timeout = 1
    Retry = 4
    Callers = {1}
    Deadline = 3
    SessionRetry = 5
INVARIANTS
    DownIsNoticed
    UpIsNoticed
    EndpointTypeOK
    AnsweredInTime
    NoTimeoutLeft
PROPERTY AnswerIsCurrent
