CONSTANTS
    None = None
    Elements <- MCElements
    Data <- MCData
    Optimizers = {"ToDataFirst"}
    Broken = {}
    WholeRounds = TRUE
    Scenes <- MCScenes
    MaxQueue = 1
SPECIFICATION FairSpec
CHECK_DEADLOCK FALSE
INVARIANTS ResultsRight WaitsForSomething NotRunningIsTrue RunningIsTrue
PROPERTY Answered
