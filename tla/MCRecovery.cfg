SPECIFICATION FairSpec
CONSTANTS
    p1 = p1
    p2 = p2
    Nobody = Nobody
    Session = {p1, p2}
    Restorer = {p1, p2}
    MaxId = 2
    MaxLock = 1
INVARIANTS Numbering
PROPERTIES AppendOnly CallsReturn
