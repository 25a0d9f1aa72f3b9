\* The link layer and the management interface; the table is never full.
CONSTANTS
    None = None
    Addresses = {x, y}
    Callers = {linklayer, mgmt}
    MaxEntries = 5
    LastFaceId = 2
SPECIFICATION Spec
INVARIANT FaceMeansOneAddress
CHECK_DEADLOCK FALSE
