CONSTANTS
    None = None
    Elements <- MCData
    Data <- MCData
    Costs = {1, 3}
    MaxCost = 100
    Short = {"/v"}
    Scenes <- MCScenes
SPECIFICATION FairSpec
CHECK_DEADLOCK FALSE
INVARIANTS CheapestPlan
PROPERTY Answered
