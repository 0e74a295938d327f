SPECIFICATION Spec
CONSTANTS
    User = {u1}
    Publisher = {p1, p2}
    Remote = {r1, r2}
    Subscriber = {c1, c2}
    BackendRoom = {b1, b2}
    Home = Home
    None = None
    Faults = {"refuse", "timeout", "backend", "rejoin", "again", "idle"}
SYMMETRY Symmetry
INVARIANTS TypeOK TreeIsSound FeedsMutual WatchedIsCounted
