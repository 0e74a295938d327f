SPECIFICATION FairSpec
CONSTANTS
    Client = {c1, c2}
    Session = {s1, s2}
    Handle = {h1}
    None = None
    AutoDestroy = TRUE
    ListenersBlock = TRUE
PROPERTY EverythingEnds
