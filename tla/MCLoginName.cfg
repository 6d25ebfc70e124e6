\* A user registers with a capital letter in his name.
SPECIFICATION Spec
CONSTANTS
    t1 = t1
    t2 = t2
    t3 = t3
    Threads = {t1}
    RawNames = {"ann", "Ann"}
    NormName <- MCNormName
    MaxFailed = 2
    Window = 2
    MaxTime = 2
    MaxRejected = 3
INVARIANTS
    AnnouncedNameLogsIn
