SPECIFICATION FairSpec
CONSTANTS
    Handle = {h1, h2}
    User = {u1}
    Publisher = {p1, p2}
    BackendRoom = {b1, b2}
    Server = {s1}
    MaxPublishers = 1
    None = None
    Faults = {"refuse", "stall"}
CHECK_DEADLOCK FALSE
VIEW View
PROPERTY EverythingEnds
