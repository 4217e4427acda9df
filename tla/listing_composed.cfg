SPECIFICATION Spec
CONSTANTS
    ann = ann
    bob = bob
    flat = flat
    house = house
    none = none
    f1 = f1
    f2 = f2
    None = none
    Users = {ann, bob}
    Properties = {flat, house}
    Requests = {r1}
    Calls = {c1}
    Owner <- SwapOwner
    Homes <- SwapHomes
    Trips <- OneNight
    Parties = {1}
    Rates = {1}
    Bonuses = {1}
    Adjustments <- Charge
    Verifiers = {}
    LastDay = 0
    MaxAdjust = 0
    OwnerCalls = {o1}
    Photos = {f1, f2}
    PhotoHome <- SwapPhotos
    MaxEdits = 0
    MaxSubmissions = 1
INVARIANTS
    NoRequestWithoutHome
PROPERTIES
    ImplementsExchanges
    ImplementsListings
CHECK_DEADLOCK FALSE
