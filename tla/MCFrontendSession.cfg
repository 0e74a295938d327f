SPECIFICATION FairSpec
CONSTANTS
    Transport = {t1, t2}
    Session = {s1, s2}
    Handle = {h1, h2}
    Request = {r1}
    Checker = Checker
    None = None
    Faults = {"raise", "stall"}
INVARIANTS TypeOK DetachedOnce AvoidFutureUsage
PROPERTY SessionsEnd
