SPECIFICATION Spec
CONSTANTS
    p1 = p1
    p2 = p2
    t1 = t1
    t2 = t2
    None = None
    Partial = Partial
    Foreign = Foreign
    Session = {p1, p2}
    Changeset = {t1, t2}
    Forcing = {}
    MaxEdits = 1
    MaxLock = 1
    MaxGit = 3
SYMMETRY Symmetry
INVARIANTS FreshMeansGenerated ScmInRevisionOrder
PROPERTIES OnlyResetLosesOutput
