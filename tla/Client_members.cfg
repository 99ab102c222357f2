SPECIFICATION ClientSpec
CONSTANTS
    Rooms = {r1}
    MaxLog = 0
    NoToken = NoToken
    PersistAfter = TRUE
    Gaps = {"initial", "limited", "hidden", "detached"}
    Faults = {"listener", "batch"}
    Me = Me
    Other = Other
    Others = {Other}
    Nothing = Nothing
    Objects = {o1, o2}
    Values = {Data}
    Calls = {c1, c2}
    Blank = Blank
    Keys = {"filter"}
    StoredRooms = {Lobby}
    MaxInMemory = 1
    MaxWrites = 3
    StoreFaults = {"write", "tables"}
    MaxProfiles = 2
    ProfileFaults = {"read", "evict"}
    EngineFaults = {"request", "keys", "unsupported"}
    Levels = {0, 50, 100}
    Actions = {"ban"}
    PowerCalls = {Data}
    MaxPowers = 1
    VersionsCacheMs = 1
    Timeout = 1
    MaxTime = 2
    MaxImpersonations = 2
    LoginFaults = {"lost", "refused", "store", "crash"}
    MaxFaults = 1
    MaxLogins = 3
    MaxSendTime = 1
    MaxSends = 2
    MaxRepeats = 1
    Searches <- MCSearches
    MaxMoves = 1
    Lobby = Lobby
    MaxUpgrades = 1
    MaxFailures = 1
    Senders = {"@a", "@b"}
    Texts <- MCTexts
    Arrows = {"->"}
    MaxEvents = 3
    MaxServerChanges = 1
    MaxRequestTime = 1
    MaxRequests = 2
SYMMETRY Symmetry
INVARIANT NotSearchedFor
CHECK_DEADLOCK FALSE
