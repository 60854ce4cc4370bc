CONSTANTS
    Clerks = {k1, k2}
    MaxRequests = 4
    GivenCodes = {2}
    Edits = {"AUTHORIZED", "AUDIT_REQUIRED"}
    Kinds = {"RECEIVED", "IN_TRANSIT", "LOADED"}
    Moves <- MCMoves
    Nil = Nil
    MaxTrips = 3
    Window = 2
    Share = 35
    Level = 5
    Given <- MCGiven
    Users <- MCUsers
    Role <- MCRole
    None = None
    MaxLogins = 2
    MaxMoves = 2
    Agreed = {"t1", "t2"}
    TripStation <- MCTripStation
    TripCistern <- MCTripCistern
    PostOf <- MCPostOf
    DrivenBy <- MCDrivenBy
    Samples <- MCSamples
    MaxStored = 5
    Recent = 3
    Leg = 3
    Few = 2
    Unknown <- MCUnknown
    Wallets = {w1, w2}
    Holders = {w1}
    NoWallet = NoWallet
    MaxChecks = 4
    MaxStarts = 2
    MaxTouches = 2
    Cities = {d1, d2}
    MaxLoads = 4
    Signs = {"sticker", "plate", "baton"}
    StickerOf <- MCStickerOf
    NoSign = NoSign
    MaxKept = 2
    MaxVisits = 2
    MaxRuns = 3
    MaxTold = 3
SPECIFICATION PortalSpec
INVARIANTS FreshCode AnomalyFollows MapAndPanelAgree ContractsHold JourneyAddsUp OfferedIsAllowed MembershipIsOwn SeededWorldAddsUp ScreensKeepUp
PROPERTIES BackOnlyForAReason GateSettles
CHECK_DEADLOCK FALSE
