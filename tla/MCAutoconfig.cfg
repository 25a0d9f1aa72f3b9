SPECIFICATION FairSpec
CONSTANTS
    None = None
    R1 = R1
    R2 = R2
    Repos <- MCRepos
    Service <- MCSame
    LocalPrefixes = {"local"}
    RoutedPrefixes = {}
    Global = FALSE
    Routing = FALSE
    Timeout = 4
    Wants <- MCWants
    MaxRetry = 2
    Lossy <- MCClients
    MaxStarts <- MCOnce
    MaxAsks <- MCAsks
    MaxLost = 1
CHECK_DEADLOCK FALSE
INVARIANTS RouteToOwner StillRegistered NoneDropped
PROPERTY Told
