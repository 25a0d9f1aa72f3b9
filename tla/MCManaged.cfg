\* Two clients, two faces with a backlog of one, two packets, one restart.
CONSTANTS
    c1 = c1
    c2 = c2
    None = None
    Clients = {c1, c2}
    Components = {"a"}
    Names <- MCNames
    Prefixes <- MCNames
    Faces = {0, 1, 2, 3}
    AppIds = {}
    Data = {"slash", "escaped"}
    Scenes <- MCScenes
    Addresses = {"x", "y"}
    Interfaces = 1
    Backlog = 1
    Servers = 2
    Packets <- MCPackets
    MaxArrivals = 2
    MaxStarts = 2
SPECIFICATION FairSpec
CHECK_DEADLOCK FALSE
INVARIANTS
    RulesLead
    Durable
PROPERTY Served
