SPECIFICATION CaFairSpec
CONSTANTS
    None = None
    PerMetadata = 2
    num_of_forwards = 1
    Scenes <- MCScenes
CHECK_DEADLOCK FALSE
INVARIANTS NothingMissing VehicleLast
PROPERTY Fetched
