\* One message, three users: sends, reads and deletions under every failure.
SPECIFICATION Spec
CONSTANTS
    t1 = t1
    t2 = t2
    a = a
    b = b
    c = c
    Threads = {t1, t2}
    Ids = {a, b, c}
    NoId = NoId
    MaxId = 1
    FileIds = {}
    NoRow = NoRow
    Faults = {"crypto", "db", "refresh", "audit", "damage", "crash"}
SYMMETRY Symmetry
INVARIANTS
    TypeOK
    InboxIsReadable
    ReceiverCanOpen
    ReadsAreOnRecord
    DeletedStaysUnread
    SendsAreTold
PROPERTIES
    OnlyPartiesDelete
    ImplementsMailbox
