\* Ann and Bob share a browser: one message, one file.
SPECIFICATION Spec
CONSTANTS
    ann = ann
    bob = bob
    f1 = f1
    Ids = {ann, bob}
    NoId = NoId
    MaxId = 1
    NoRow = NoRow
    Files = {f1}
    NoFile = NoFile
    NotLoaded = NotLoaded
    TokenLife = 0
    MaxAttempts = 2
    Lockout = 2
    Faults = {"error", "lost"}
SYMMETRY Symmetry
INVARIANTS
    TypeOK
    NothingIsLeftBehind
    ErasedStaysHidden
    FailuresAreBounded
    DeliveriesAreBacked
