SPECIFICATION HomesSpec
CONSTANTS
    house = house
    p1 = p1
    Homes = {house}
    Photos = {p1}
    Calls = {c1, c2, c3}
    PhotoHome <- OnePhoto
    MaxEdits = 2
    MaxSubmissions = 2
    Saves = {s1, s2}
    MaxHomes = 1
    MaxTexts = 3
    MaxTrouble = 1
SYMMETRY Symmetry
INVARIANTS
    OneDecisionPerSubmission
    
    
PROPERTIES
    UnseenNeverPublished
CHECK_DEADLOCK FALSE
