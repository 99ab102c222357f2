SPECIFICATION Spec
CONSTANTS
    Slots = {s1}
    MaxPos = 2
    Filters = {NoFilter}
    NoFilter = NoFilter
    NoToken = NoToken
    Faults = {"handler"}
    PersistAfter = TRUE
    s1 = s1
INVARIANT AckedIsDelivered
