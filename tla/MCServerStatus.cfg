SPECIFICATION FairSpec
CONSTANTS
    Proxies = 2
    Faults = {"lose", "late", "quit", "maintain", "remove"}
CHECK_DEADLOCK FALSE
INVARIANTS TypeOK NoLostWakeup StatusHeld
PROPERTIES UnfitIsDropped FitIsOffered
