INIT Init
NEXT PanoramaNext
CONSTANTS
    AllAddresses = {0, 1, 2, 3, 4, 5, 6, 7}
    Web = 80
    Secure = 443
    Proxy = 8080
    BucketSize = 2
    ExpandLimit = 1
    MaxPerDg = 1
    Cleaned <- CleanedNames
    Unusable = {0}
    GroupSuffix = "_np_ips"
INVARIANT NegatedNeverWider
CHECK_DEADLOCK FALSE
