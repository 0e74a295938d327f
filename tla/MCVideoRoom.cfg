SPECIFICATION Spec
CONSTANTS
    Handle = {h1, h2}
    User = {u1, u2}
    Publisher = {p1, p2}
    BackendRoom = {b1, b2}
    Server = {s1}
    MaxPublishers = 1
    None = None
    Faults = {"refuse", "close", "detach", "stall"}
SYMMETRY Symmetry
VIEW View
CHECK_DEADLOCK FALSE
INVARIANTS TypeOK NoLostHandle ActiveIsUsable IdsAreTrue
