SPECIFICATION Spec
CONSTANTS
    ann = ann
    bob = bob
    host = host
    flat = flat
    house = house
    none = none
    None = none
    Users = {ann, bob}
    Properties = {flat, house}
    Requests = {r1, r2}
    Calls = {c1}
    Owner <- SwapOwner
    Homes <- SwapHomes
    Trips <- TwoStays
    Parties = {1}
    Rates = {1}
    Bonuses = {2}
    Adjustments <- Credit
    Verifiers = {}
    LastDay = 1
    MaxAdjust = 0
SYMMETRY RequestSymmetry
INVARIANTS
    NightsSoldOnce
CHECK_DEADLOCK FALSE
