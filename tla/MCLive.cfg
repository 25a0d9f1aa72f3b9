\* An NFN node: interests go up first, and the ids of the higher layer overlap
\* with the face ids.
CONSTANTS
    None = None
    Components <- MCComponents
    Names <- MCNames
    Prefixes <- MCPrefixes
    Faces = {1, 2}
    AppIds = {2, 3}
    Data = {d1}
    MgmtData = {}
    HasApp = TRUE
    InterestToApp = TRUE
    ThunkNames <- MCThunks
    Rules <- MCRules
    InitialFibs <- MCFibs
    PitRetransmits = 1
    MaxRetransmits = 2
SPECIFICATION LSpec
INVARIANTS
    NoAppForgotten
PROPERTIES
    EntriesResolved
    AppsTold
