SPECIFICATION FairSpec
CONSTANTS
    Managers = {m1, m2}
    Services <- MCServices
    Contents <- MCContents
    Absent = Absent
    None = None
    Nests <- MCNests
    Noted <- MCNoted
    Bundles <- MCBundles
    FirstStates <- MCFirstStates
    RetryRounds = 5
    MaxPushes = 2
    MaxEdits = 1
    MaxFaults = 1
INVARIANTS
    AllUndone
PROPERTIES
    PushLands
    IsAnUndoStack
    RevertsFinish
CHECK_DEADLOCK FALSE
