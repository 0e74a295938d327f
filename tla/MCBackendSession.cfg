SPECIFICATION Spec
CONSTANTS
    Client = {c1, c2}
    Session = {s1, s2}
    Handle = {h1, h2}
    None = None
    AutoDestroy = TRUE
    ListenersBlock = FALSE
SYMMETRY Symmetry
INVARIANTS TypeOK RegistryIsSound LossReported UsersAreServed NoOrphan
PROPERTY ImplementsContract
