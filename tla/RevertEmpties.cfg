SPECIFICATION MCSpec
CONSTANTS
    Rules = {r1}
    Bodies = {b1}
    None = None
    MaxHits = 0
    Bounds <- MCBounds
    Sources <- MCSources
    FirstHeld <- MCFirst
    WholeCategories = {"Infrastructure"}
    HitCategories = {"Application"}
    MinHits = 0
    MaxScripts = 4
    MaxFailures = 1
    MaxMoves = 1
INVARIANT RevertEmpties
CHECK_DEADLOCK FALSE
