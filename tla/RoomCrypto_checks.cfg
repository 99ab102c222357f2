SPECIFICATION Spec
CONSTANTS
    Calls = {c1, c2, c3}
    Visibilities = {shared, joined}
    MaxChanges = 2
    None = None
    Unknown = Unknown
    Faults = {"state", "gap", "crash"}
    c1 = c1
    c2 = c2
    c3 = c3
    shared = shared
    joined = joined
INVARIANT TypeOK
INVARIANT KnownStaysEncrypted
INVARIANT ClearForAReason
INVARIANT EncryptionIsNoticed
INVARIANT StoredWhenEncrypted
SYMMETRY Interchangeable
