SPECIFICATION Spec
CONSTANTS
    Handle = {h1, h2}
    Control = {c1}
    User = {u1, u2}
    Participant = {p1, p2}
    Backend = {b1, b2}
    Server = {s1}
    None = None
    Faults = {"refuse", "close", "detach", "stall", "late"}
CHECK_DEADLOCK FALSE
VIEW View
CONSTRAINT Bound
SYMMETRY Symmetry
INVARIANTS TypeOK NoLostHandle WhatIsTakenIsFreed ListedIsThere
