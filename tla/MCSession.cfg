SPECIFICATION Spec
CONSTANTS
    p1 = p1
    p2 = p2
    Session = {p1, p2}
    NoSnapshot = NoSnapshot
    MaxAnswers = 4
SYMMETRY Symmetry
INVARIANTS AutocommitStores FrozenIsReadOnly
