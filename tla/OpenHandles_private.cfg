CONSTANTS
    Threads = {t1, t2}
    Paths = {p1, p2}
    Files = {f1, f2, f3, f4, f5, f6}
    Absent = Absent
    PrivateCopies = TRUE
SPECIFICATION Spec
SYMMETRY HandleSymmetry
INVARIANTS
    RegistryIsExact
    HandlesKeepTheirFiles
    CallsLandWhole
