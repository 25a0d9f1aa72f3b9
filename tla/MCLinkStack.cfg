\* Faces for two of three peers, up to two inserted layers, three kinds of traffic.
CONSTANTS
    None = None
    x = x
    y = y
    z = z
    Addresses = {x, y, z}
    Callers = {linklayer}
    MaxEntries = 2
    LastFaceId = 6
    Layers = {"icn", "encoding", "link", "autoconfig", "routing"}
    Node = node
    Nowhere = nowhere
    Scenes <- MCScenes
SPECIFICATION LinkSpec
CHECK_DEADLOCK FALSE
INVARIANTS
    HandedUpRight
    PeersServedRight
    NothingLeft
PROPERTY IsFaceMap
