\* Exam papers of a department with two would-be HODs and of one without any: what
\* every upload and download comes to when no process dies and no unlink fails.
SPECIFICATION FairSpec
CONSTANTS
    t1 = t1
    t2 = t2
    p1 = p1
    p2 = p2
    f1 = f1
    f2 = f2
    hodCS = hodCS
    nextCS = nextCS
    facCS = facCS
    facEE = facEE
    Threads = {t1, t2}
    Procs = {p1}
    ProcOf <- OneProcess
    Ids = {hodCS, nextCS, facCS, facEE}
    NoId = NoId
    MaxPairs = 2
    Names = {"h", "n", "f", "e"}
    Roles = {"HOD", "FACULTY"}
    Depts = {"CS", "EE"}
    HOD = "HOD"
    Profile <- MCProfile
    Posted = {"EXAM_PAPER"}
    Files = {f1}
    NoFile = NoFile
    NoRow = NoRow
    Faults = {"keygen", "db", "refresh", "disk", "write"}
PROPERTIES
    ExamPaperReachesHod
    UploadSettles
    DeliveryIsAudited
    PlaintextIsRemoved
