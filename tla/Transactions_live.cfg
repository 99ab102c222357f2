SPECIFICATION TransientSpec
CONSTANTS
    Reqs = {r1, r2}
    MaxTxn = 3
    Parts = 1
    NoReq = NoReq
    Faults = {"check", "part", "mark", "net", "crash"}
    Durable = TRUE
    MaxTracked = 1
    DiesOnUnhandled = TRUE
    r1 = r1
    r2 = r2
PROPERTY NoReplay
PROPERTY HandlersEnd
PROPERTY StreamMoves
\* the homeserver may have delivered every transaction, or be stuck for good
CHECK_DEADLOCK FALSE
