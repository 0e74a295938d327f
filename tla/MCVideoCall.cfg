SPECIFICATION Spec
CONSTANTS
    User = {u1, u2, u3}
    Handle = {h1, h2, h3}
    Backend = {b1, b2}
    Server = {s1}
    None = None
    Faults = {"connect", "loss", "early", "late", "namesake", "slow"}
SYMMETRY Symmetry
CHECK_DEADLOCK FALSE
INVARIANT TypeOK
PROPERTY NotTakenOver
