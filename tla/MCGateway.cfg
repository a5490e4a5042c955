SPECIFICATION FairSpec
CONSTANTS
    c1 = c1
    c2 = c2
    home = home
    proxy = proxy
    Clients = {c1, c2}
    Pagers = {c1}
    IPs = {home, proxy}
    Origin <- MCOrigin
    TrustedProxies = {proxy}
    NoHeader = NoHeader
    NoBucket = NoBucket
    Buckets = {1, 2}
    Rate = 1
    Burst = 2
    CleanupInterval = 1
    MaxStall = 1
    MaxWindow = 1
    Folders = {1}
    Kinds = {"assistant", "garbage", "custom-title", "huge"}
    DefaultLimit = 1
    MaxLimit = 2
    Limits = {0, 3}
    MaxLines = 3
INVARIANTS
    AdmittedBounded
    PagesAreWhole
PROPERTIES
    ListedIsFetchable
    OverviewCoversPages
    BucketsAreIdeal
    PagingEnds
