SPECIFICATION Spec
CONSTANTS
    p1 = p1
    p2 = p2
    Nobody = Nobody
    Session = {p1, p2}
    Restorer = {}
    MaxId = 2
    MaxLock = 1
PROPERTY LockedStaysAttached
