SPECIFICATION FairSpec
CONSTANTS
    Parts = 3
    Scenes <- MCScenes
    Computations = 1
    Others = {1, 2}
    MaxRefused = 1
CHECK_DEADLOCK FALSE
INVARIANTS InOrder OthersKept
PROPERTY Returns
