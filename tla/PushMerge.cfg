SPECIFICATION Spec
CONSTANTS
    Groups <- MCGroups
    Rules <- MCRules
    Addresses = {"x", "y"}
    AnyGroup = "ANY"
    Gone = Gone
    Policies <- MCPolicies
    Sibling <- MCSibling
    Bundles <- MCBundles
    FirstState <- MCFirstState
    RetryRounds = 5
    MaxPushes = 3
    MaxEdits = 1
    MaxFaults = 1
PROPERTIES
    AreUndoStacks
    TakesNothing
    DeletesOnlyCreated
CHECK_DEADLOCK FALSE
