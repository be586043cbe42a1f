SPECIFICATION MCSpec
CONSTANTS
    NoHitDays = 1
    None = None
    MaxTime = 4
    MaxHits = 2
    MaxResets = 1
    MaxReadings = 3
    Threads = {t1, t2}
    Main = t1
    Ids = {1, 2}
    Nobody = Nobody
    RetryMax = 1
    RealizeAttempts = 2
    CallRetries = 1
    Interval = 2
    MaxClock = 6
    Troubles <- MCTroubles
INVARIANTS
    UnusedIsUnhit
    QuietRuleQualifies
    AnswersAreWhole
    RequestsPaced
CHECK_DEADLOCK FALSE
