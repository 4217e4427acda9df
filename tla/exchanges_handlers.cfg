SPECIFICATION FairSpec
CONSTANTS
    ann = ann
    bob = bob
    host = host
    flat = flat
    house = house
    none = none
    None = none
    Users = {ann, host}
    Properties = {house}
    Requests = {r1}
    Calls = {c1, c2}
    Owner <- GuestOwner
    Homes <- GuestHomes
    Trips <- OneNight
    Parties = {1}
    Rates = {1, 2}
    Bonuses = {2}
    Adjustments <- Charge
    Verifiers = {}
    LastDay = 1
    MaxAdjust = 0
INVARIANTS
    UntoldIsBeingTold
PROPERTIES
    StatusFollowsLifecycle
    StatusIsTold
CHECK_DEADLOCK FALSE
