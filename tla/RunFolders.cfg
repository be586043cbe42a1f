SPECIFICATION MCSpec
CONSTANTS
    f1 = f1
    f2 = f2
    c1 = c1
    bad = bad
    x1 = x1
    x2 = x2
    ServerFacts = {f1, f2}
    Rest = {c1, bad}
    WithErrors = {bad}
    PanObjects <- MCPan
    FirstStates <- MCFirst
    MaxRefreshes = 2
    MaxApplies = 2
    MaxChanges = 1
    MaxFaults = 1
    Retain = 2
    MaxRuns = 6
    Threads = {t1, t2}
    Torn = Torn
    MaxPulls = 3
    MaxStarts = 5
    MaxSecond = 2
SYMMETRY Symmetry
INVARIANTS
    ServersAsApproved
    RollbackUndoes
    CacheSound
PROPERTIES
    SnapshotsKept
    RunsTell
\* After the last apply, run, report and request nothing is left to do.
CHECK_DEADLOCK FALSE
