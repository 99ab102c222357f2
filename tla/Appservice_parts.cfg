SPECIFICATION AppserviceSpec
CONSTANTS
    Reqs = {r1, r2, r3}
    MaxTxn = 2
    Parts = 2
    NoReq = NoReq
    Faults = {"check", "part", "mark", "net", "crash"}
    Durable = FALSE
    MaxTracked = 1
    DiesOnUnhandled = FALSE
    Nothing = Nothing
    Rooms = {r1, r2}
    PublicRooms = {r1}
    Slots = {o1, o2}
    Calls = {c1, c2}
    Handler = Handler
    IntentFaults = {"register", "read", "join", "evict", "crash"}
    MaxMoves = 1
    Schedule = 5
    Objects = {o1, o2}
    Devices = {c1, c2}
    SetUpFaults = {"request", "token", "crash", "delete"}
    MaxAnswers = 2
    MatrixIds = {o1, o2}
    RemoteIds = {c1, c2}
    Setters = {c1, c2}
    MapFaults = {"register", "write", "lost"}
    Bot = Bot
    Users = {o1, o2}
    Stranger = Stranger
    MaxRemovals = 1
    MaxEdus = 2
    MaxFailures = 1
SYMMETRY Symmetry
INVARIANTS
    OneAtATime
    HungIsNotAcked
    KnownIsTrue
    SendsFromInside
    JoinIsTold
    DeviceAgrees
    AnsweredOnce
    MappedBack
PROPERTIES
    OncePerProcess
    StreamRefined
\* the homeserver may have delivered everything, or be stuck for good; a part
\* may have nothing left to do
CHECK_DEADLOCK FALSE
