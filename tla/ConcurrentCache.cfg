SPECIFICATION MCFairSpec
CONSTANTS
    t1 = t1
    t2 = t2
    join = join
    scan = scan
    service = service
    NoThread = NoThread
    TopLevel = TopLevel
    Thread <- MCThread
    Key <- MCKey
    Size <- MCSize
    InitLimits <- MCLimits
    EntryLimits = {}
    SizeLimits = {1}
    Child <- MCChild
    Uncacheable = {service}
    Requests = {"pin", "read"}
    Commands = TRUE
INVARIANTS
    InProgressOwned
    WaitersHaveOwner
PROPERTIES
    PinnedWhenReturned
    QueriesEnd
