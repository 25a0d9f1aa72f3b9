\* An ICN forwarder: no higher layer.
CONSTANTS
    None = None
    Components <- MCComponents
    Names <- MCOneName
    Prefixes <- MCPrefixes
    Faces = {1, 2, 3}
    AppIds = {}
    Data = {d1, d2}
    MgmtData = {d2}
    HasApp = FALSE
    InterestToApp = FALSE
    ThunkNames = {}
    Rules <- MCRules
    InitialFibs <- MCForwarderFibs
    PitRetransmits = 1
    MaxRetransmits = 2
SPECIFICATION Spec
INVARIANTS
    NobodyForgotten
    NobodyAnsweredTwice
    CounterWithinFaces
    NoHairpin
    CachedNotPending
