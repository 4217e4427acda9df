SPECIFICATION Spec
CONSTANTS
    ann = ann
    bob = bob
    host = host
    flat = flat
    house = house
    none = none
    None = none
    Users = {ann, bob, host}
    Properties = {house}
    Requests = {r1, r2}
    Calls = {c1}
    Owner <- GuestOwner
    Homes <- GuestHomes
    Trips <- OneNight
    Parties = {1}
    Rates = {2}
    Bonuses = {2}
    Adjustments <- Charge
    Verifiers = {ann}
    LastDay = 1
    MaxAdjust = 1
SYMMETRY RequestSymmetry
INVARIANTS
    TypeOK
    ReservedIsHeld
    JournalGivesBalances
PROPERTIES
    PointsConserved
    ImplementsEscrow
CHECK_DEADLOCK FALSE
