SPECIFICATION FairSpec
CONSTANTS
    Child = {c1, c2, c3, c4}
    Poller = {g1, g2, g3}
    Caller = {a1, a2}
    Main = Main
    None = None
    MaxFailures = 1
CHECK_DEADLOCK FALSE
INVARIANTS TypeOK CanStart
PROPERTIES NeverForgotten KeptRunning RequestsEnd
