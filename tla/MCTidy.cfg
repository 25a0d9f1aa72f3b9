\* Consumers downstream, disjoint routes upstream.
CONSTANTS
    None = None
    Components <- MCComponents
    Names <- MCTwoNames
    Prefixes <- MCPrefixes
    Faces = {1, 2, 3, 4, 5}
    Consumers = {1, 2}
    MaxOwed = 1
    LateAnswers = FALSE
    AppIds = {}
    Data = {d1}
    MgmtData = {}
    HasApp = FALSE
    InterestToApp = FALSE
    ThunkNames = {}
    Rules <- MCNoRules
    InitialFibs <- MCTidyFibs
    PitRetransmits = 3
    MaxRetransmits = 4
SPECIFICATION NSpec
INVARIANT NeverStuck
PROPERTY NackMeansExhausted
