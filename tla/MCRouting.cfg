\* A prefix and one below it, two peers, and a rule for one of the prefixes.
CONSTANTS
    None = None
    Components <- MCComponents
    Names <- MCAnnounced
    Prefixes <- MCPrefixes
    Announced <- MCAnnounced
    Faces = {1, 2}
    Distances = {2}
    AppIds = {}
    Data = {}
    Rules <- MCRules
SPECIFICATION Spec
INVARIANTS
    RoutesOffered
    DistanceHonest
PROPERTY StaticStay
