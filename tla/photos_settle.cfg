SPECIFICATION FairPhotosSpec
CONSTANTS
    house = house
    p1 = p1
    p2 = p2
    Homes = {house}
    Photos = {p1}
    Calls = {}
    Jobs = {j1, j2}
    PhotoHome <- OnePhoto
    MaxEdits = 0
    MaxSubmissions = 1
    MaxPhotos = 2
INVARIANTS
    ReadyHasImage
    ProcessingIsHandled
PROPERTIES
    PhotoSettles
CHECK_DEADLOCK FALSE
