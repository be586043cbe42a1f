SPECIFICATION MCSpec
CONSTANTS
    Rules = {r1, r2}
    Bodies = {b1, b2}
    None = None
    MaxHits = 1
    Bounds <- MCBounds
    Sources <- MCSources
    FirstHeld <- MCFirst
    WholeCategories = {"Infrastructure"}
    HitCategories = {"Application"}
    MinHits = 0
    MaxScripts = 4
    MaxFailures = 1
    MaxMoves = 1
SYMMETRY Symmetry
INVARIANTS
    Recorded
    FaultCostsOneRule
    UndoRestoresPlan
    CopyIsExact
    RevertReturns
PROPERTIES
    DisablesOnlyReviewed
    EnablesOnlyRecorded
    NeverDisabledAgain
\* After the last script of a copy nothing is left to do.
CHECK_DEADLOCK FALSE
