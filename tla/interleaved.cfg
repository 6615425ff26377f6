SPECIFICATION Spec
CONSTANTS
    d1 = d1
    d2 = d2
    w1 = w1
    w2 = w2
    f = f
    t = t
    n = n
    x = x
    Absent = Absent
    NoField = NoField
    NoFact = NoFact
    Entity <- NoteAndRelation
    TableOf <- MCTableOf
    WorkspaceOf <- MCWorkspaceOf
    Parents <- MCParents
    Device <- MCDevice
    Cycle <- MCCycle
    Owner <- MCOwner
    Kinds <- MixedKinds
    Table <- MCTable
    SeedDb <- ApartSeedDb
    SeedRemote <- InSyncSeed
    MaxFacts = 5
    MaxAborts = 0
    EditDuringCycle = TRUE
    OverlapCycles = TRUE
    SameSecond = TRUE
INVARIANTS
    KnownFactsAreStored
PROPERTIES
    ImplementsFactLog
    DeletionHasTombstone
    AcknowledgedFacts
