SPECIFICATION Spec
CONSTANTS
    Calls = {c1, c2, c3}
    Visibilities = {shared, joined}
    MaxChanges = 1
    None = None
    Unknown = Unknown
    Faults = {"state"}
    c1 = c1
    c2 = c2
    c3 = c3
    shared = shared
    joined = joined
INVARIANT EncryptsWhenEncrypted
SYMMETRY Interchangeable
