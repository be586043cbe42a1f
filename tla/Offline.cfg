INIT Init
NEXT Next
CONSTANTS
    Width = 3
    MapOlds = 4
    MaxOperands = 3
    SpanEnd = 5
    MaxHoles = 2
    Segments = {"s1", "s2"}
    Fabric = {"f"}
    OtherPaths = {"seg"}
    Untouched = {"def"}
    AllAddresses = {0, 1, 2, 3, 4, 5, 6, 7}
    Web = 80
    Secure = 443
    Proxy = 8080
    BucketSize = 2
    ExpandLimit = 1
    MaxPerDg = 1
    Cleaned <- CleanedNames
    Unusable = {0}
    GroupSuffix = "_np_ips"
INVARIANTS
    RemapIsSound
    RequestIsComplete
    PolicyToolsAgree
    MirrorIsExact
\* One input is read; the tools end.
CHECK_DEADLOCK FALSE
