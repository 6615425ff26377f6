SPECIFICATION Spec
CONSTANTS
    w = w
    d = d
    f = f
    t = t
    n = n
    v = v
    x = x
    k = k
    Absent = Absent
    NoField = NoField
    NoFact = NoFact
    Entity <- MCEntity
    TableOf <- MCTableOf
    WorkspaceOf <- MCWorkspaceOf
    Field <- f
    Dependent <- d
INVARIANTS
    TypeOK
    OneRoundSettles
    EmptyDiffMeansAgreement
    PlanIsConsistent
    FollowsMatrix
