CONSTANTS
    None = None
    Names = {"long", "short", "missing"}
    Versions = {1, 2}
    NumChunks <- MCSizes
    PerMetadata = 2
    Stored = {"long", "short"}
    Repeated <- OnlyChunks
    Wanted <- MCWanted
    MaxLost = 1
    MaxRepeats = 1
    MaxUpdates = 1
SPECIFICATION FairSpec
CHECK_DEADLOCK FALSE
INVARIANTS AwaitedIsAsked
PROPERTIES IsFetch Answered
