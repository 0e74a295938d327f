SPECIFICATION FairSpec
CONSTANTS
    User = {u1}
    Publisher = {p1}
    Remote = {r1, r2}
    Subscriber = {c1, c2}
    BackendRoom = {b1}
    Home = Home
    None = None
    Faults = {"refuse", "backend", "idle"}
INVARIANT ServerAgrees
PROPERTY EverythingEnds
