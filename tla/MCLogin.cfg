\* Attempts that race, follow each other in the window or outlast it, and restarts.
SPECIFICATION Spec
CONSTANTS
    t1 = t1
    t2 = t2
    t3 = t3
    Threads = {t1, t2}
    RawNames = {"ann"}
    NormName <- MCNormName
    MaxFailed = 2
    Window = 2
    MaxTime = 3
    MaxRejected = 4
SYMMETRY Symmetry
INVARIANTS
    TypeOK
    FailuresAreLimited
    LockoutIsEarned
    FailuresAreReal
