SPECIFICATION MCSpec
CONSTANTS
    Rules <- MCRules
    Policies <- MCPolicies
    Groups <- MCGroups
    Bodies = {"old", "new"}
    FirstBody = "old"
    None = None
    PolicyOf <- MCPolicyOf
    RefsOf <- MCRefsOf
    AppliedTo <- MCAppliedTo
    Nests <- MCNests
    SystemPolicies = {}
    SystemGroups = {}
    Bounds <- MCBounds
PROPERTIES
    DeletesNothingUnlisted
