SPECIFICATION ListingSpec
CONSTANTS
    house = house
    p1 = p1
    Homes = {house}
    Photos = {p1}
    Calls = {c1, c2}
    PhotoHome <- OnePhoto
    MaxEdits = 2
    MaxSubmissions = 2
INVARIANTS
    ArchivedCanBeRestored
CHECK_DEADLOCK FALSE
