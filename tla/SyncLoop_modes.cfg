SPECIFICATION ModesSpec
CONSTANTS
    Slots = {s1}
    MaxPos = 2
    Filters = {f1, f2}
    NoFilter = NoFilter
    NoToken = NoToken
    Faults = {"start", "sync", "store", "handler"}
    PersistAfter = FALSE
    AfterSlots = {s1, s2}
    AfterFilters = {f1}
    AfterFaults = {"start", "sync", "store"}
    s1 = s1
    s2 = s2
    f1 = f1
    f2 = f2
INVARIANT TypeOK
INVARIANT NotTwice
INVARIANT TokenMatchesFilter
PROPERTY StreamRefined
INVARIANT AckedIsDeliveredAfter
PROPERTY StopEndsAfter
PROPERTY EventuallyDeliveredAfter
