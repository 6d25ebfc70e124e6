\* A message is read and the audit row names a file.
SPECIFICATION Spec
CONSTANTS
    t1 = t1
    t2 = t2
    a = a
    b = b
    c = c
    Threads = {t1, t2}
    Ids = {a, b}
    NoId = NoId
    MaxId = 1
    FileIds = {}
    NoRow = NoRow
    Faults = {}
SYMMETRY Symmetry
INVARIANT
    AuditRowsReferToFiles
