\* Each panel by itself, against the tables it reads.
SPECIFICATION Spec
CONSTANTS
    a = a   b = b   None = None
    Services = {a, b}
    Selections <- Views
    Start <- All
    Bucket = 2
    Limit = 2
    Day = 3
    Sec = 2
    Cooldown = 2
    Pages <- EachAlone
    MaxTime <- Clocks
    MaxRows <- Rows
    MaxMishaps <- Budgets
    Reporters <- Senders
INVARIANTS
    TypeOK
    ChartShowsTheLog
    LatestAlertsShown
    CountdownHolds
    BannerFollowsHealth
PROPERTIES
    AnnouncesNews
    PanelsHeal
    NoSessionLeadsToLogin
CHECK_DEADLOCK FALSE
