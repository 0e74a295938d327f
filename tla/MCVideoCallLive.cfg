SPECIFICATION FairSpec
CONSTANTS
    User = {u1, u2}
    Handle = {h1, h2, h3}
    Backend = {b1, b2}
    Server = {s1}
    None = None
    Faults = {"detach"}
CHECK_DEADLOCK FALSE
INVARIANT CallsAreReal
PROPERTY EverythingEnds
