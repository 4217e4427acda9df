SPECIFICATION PartsSpec
CONSTANTS
    People = {u1, u2}
    FirstAdmin = u1
    Addresses = {e1, e2}
    HomeAddress = e1
    Requests = {r1, r2}
    AttemptLimit = 1
    MaxCodes = 2
    MaxMade = 3
    Periods = {p1, p2}
    Lasts = 4
    Inputs <- SmallInputs
    Patches <- SmallPatches
    Home <- SmallHome
    Parties = {1, 2}
    MaxChanges = 3
    Calls = {c1}
    MaxMessages = 2
    ListLimit = 2
    MaxMoves = 3
    Tabs = {t1, t2}
    Pictures = {f1, f2}
    Links = {link}
    NoAvatar = NoAvatar
    MaxSaves = 3
    ann = ann
    bob = bob
    eve = eve
    a = a
    b = b
    Members = {ann, bob, eve}
    Stays = {a, b}
    Bookings <- BothWays
    Ratings = {2, 5}
    y = y
    Visitors = {ann, bob}
    Nobody = Nobody
    Cards = {y}
    Hosted <- BobsHome
    IdsRequests = {i1, i2}
    Clicks = {k1}
SYMMETRY Symmetry
INVARIANTS
    EmailBonusOnce
    GuessesBounded
    PeriodsApart
    FoundIsRequestable
    OccupancyExact
    
    
    
    
    AvatarShown
    RatingIsMean
    HeartIsTrue
PROPERTIES
    LastAdminFalls
CHECK_DEADLOCK FALSE
