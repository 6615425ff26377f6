SPECIFICATION FairSpec
CONSTANTS
    d1 = d1
    worker = worker
    w = w
    f = f
    t = t
    n = n
    x = x
    Absent = Absent
    NoField = NoField
    NoFact = NoFact
    Entity <- MCEntity
    TableOf <- MCTableOf
    WorkspaceOf <- MCWorkspaceOf
    Parents <- MCParents
    Device <- MCDevice
    Cycle <- MCCycle
    Owner <- MCOwner
    Kinds <- AnyKind
    Table <- MCTable
    SeedDb <- MCSeedDb
    SeedRemote <- EmptySnapshot
    MaxFacts = 5
    MaxAborts = 1
    EditDuringCycle = FALSE
    OverlapCycles = FALSE
    SameSecond = FALSE
INVARIANTS
    TypeOK
PROPERTIES
    VerifiedAgreement
    Settles
