SPECIFICATION Spec
CONSTANTS
    Paths = {p1, p2}
    NoRow = NoRow
    Tasks = {t1, t2}
    RecentLimit = 3
SYMMETRY Symmetry
INVARIANTS TypeOK UniquePaths SettledFile
PROPERTY InterruptedSave
