SPECIFICATION Spec
CONSTANTS
    p1 = p1
    p2 = p2
    Nobody = Nobody
    Session = {p1, p2}
    Restorer = {}
    MaxId = 3
    MaxLock = 2
SYMMETRY Symmetry
INVARIANTS LinearHistory NewestIsMaxId
PROPERTIES OnlyOwnerEnds ImplementsLog
