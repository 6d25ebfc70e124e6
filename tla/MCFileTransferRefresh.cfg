\* The refresh after a commit fails.
SPECIFICATION Spec
CONSTANTS
    t1 = t1
    t2 = t2
    p1 = p1
    p2 = p2
    f1 = f1
    f2 = f2
    hodCS = hodCS
    nextCS = nextCS
    facCS = facCS
    facEE = facEE
    Threads = {t1, t2}
    Procs = {p1}
    ProcOf <- OneProcess
    Ids = {hodCS, facCS}
    NoId = NoId
    MaxPairs = 2
    Names = {"h", "n", "f", "e"}
    Roles = {"HOD", "FACULTY"}
    Depts = {"CS", "EE"}
    HOD = "HOD"
    Profile <- MCProfile
    Posted = {"RESULT"}
    Files = {f1}
    NoFile = NoFile
    NoRow = NoRow
    Faults = {"refresh"}
INVARIANTS
    EveryRowHasItsBlob
