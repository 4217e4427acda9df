SPECIFICATION PhotosSpec
CONSTANTS
    house = house
    p1 = p1
    p2 = p2
    Homes = {house}
    Photos = {p1, p2}
    Calls = {c1}
    Jobs = {j1}
    PhotoHome <- TwoPhotos
    MaxEdits = 0
    MaxSubmissions = 1
    MaxPhotos = 2
INVARIANTS
    ShownPhotosReviewed
CHECK_DEADLOCK FALSE
