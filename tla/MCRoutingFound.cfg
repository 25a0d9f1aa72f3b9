\* Two prefixes without a common component, two peers, and a rule for one of
\* the prefixes.
CONSTANTS
    None = None
    Components <- MCComponents
    Names <- MCApart
    Prefixes <- MCApartPrefixes
    Announced <- MCApart
    Faces = {1, 2}
    Distances = {2}
    AppIds = {}
    Data = {}
    Rules <- MCRules
SPECIFICATION Spec
INVARIANT RoutesFound
