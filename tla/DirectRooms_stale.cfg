SPECIFICATION Spec
CONSTANTS
    Users = {u1, u2}
    Rooms = {q1, q2}
    Calls = {c1, c2}
    Gets = {g1, g2}
    None = None
    Undefined = Undefined
    InOrder = FALSE
    Faults = {"create"}
    u1 = u1
    u2 = u2
    q1 = q1
    q2 = q2
    c1 = c1
    c2 = c2
    g1 = g1
    g2 = g2
INVARIANT Reflected
SYMMETRY Interchangeable
