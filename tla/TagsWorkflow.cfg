SPECIFICATION MCSpec
CONSTANTS
    VMs = {"v1", "v2", "e"}
    Groups = {"g", "h"}
    Tags = {"x", "net", "ha", "hb"}
    Gone = Gone
    VmType <- MCVmType
    SupportedTypes = {"REGULAR"}
    NameTag <- MCNameTag
    Excluded = {"hb"}
    Cap = 2
    HostTags = {"ha", "hb"}
    Criteria <- MCCriteria
    MatchTags = {"net"}
    SystemOwned = {}
    FirstState <- MCFirstState
    MaxStarts = 3
    MaxEdits = 1
    MaxFaults = 1
    TaggedGroups = {"ga"}
    Budgets <- MCBudgets
    ServiceIds = {"s"}
    GroupIds = {"a", "b", "c", "k", "z"}
    PolicyIds = {"p", "q", "d"}
    RuleIds = {"r", "e"}
    PolicyOf <- MCPolicyOf
    NamesOf <- MCNamesOf
    Ips <- MCIps
    System = {"z", "d"}
    SkipPolicies = {"d"}
    DirName <- MCDirName
    Place <- MCPlace
    Exported = {"s", "a", "b", "c", "p", "r", "d", "e"}
    Transformed = {"a", "b", "c"}
    Changed = {"b", "k"}
    Missing = "gone"
    Sites <- MCSites
    PayloadBudgets <- MCPayloadBudgets
INVARIANTS
    TagsAccountedFor
    AppliedIsCaptured
    PhasesUndo
PROPERTIES
    TakesOnlyOwn
    PayloadPromises
\* Tools end, and runs are bounded.
CHECK_DEADLOCK FALSE
