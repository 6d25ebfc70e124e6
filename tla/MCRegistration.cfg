\* Safety, refinement and liveness: racing registrations, failures and restarts.
SPECIFICATION FairSpec
CONSTANTS
    r1 = r1
    r2 = r2
    Requests = {r1, r2}
    Names = {"ann", "bob"}
    Roles = {"HOD", "FACULTY"}
    Depts = {"CS", "EE"}
    HOD = "HOD"
    NoRow = NoRow
    RawNames = {"Ann", "ann", "bob"}
    RawDepts = {"cs", "CS", "EE"}
    NormName <- MCNormName
    NormDept <- MCNormDept
INVARIANTS
    TypeOK
    OneHodPerDepartment
    CreatedMeansStored
    RefusalHasCause
PROPERTIES
    ImplementsDirectory
    EveryRequestEnds
