\* Ann logs out, Bob logs in.
SPECIFICATION Spec
CONSTANTS
    ann = ann
    bob = bob
    f1 = f1
    Ids = {ann, bob}
    NoId = NoId
    MaxId = 1
    NoRow = NoRow
    Files = {f1}
    NoFile = NoFile
    NotLoaded = NotLoaded
    TokenLife = 0
    MaxAttempts = 2
    Lockout = 2
    Faults = {"error", "lost"}
SYMMETRY Symmetry
INVARIANT
    FileListIsOwn
