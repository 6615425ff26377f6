SPECIFICATION Spec
CONSTANTS
    d1 = d1
    d2 = d2
    w1 = w1
    w2 = w2
    f = f
    t = t
    n = n
    x = x
    Absent = Absent
    NoField = NoField
    NoFact = NoFact
    Entity <- NoteAndField
    TableOf <- MCTableOf
    WorkspaceOf <- MCWorkspaceOf
    Parents <- MCParents
    Device <- MCDevice
    Cycle <- MCCycle
    Owner <- MCOwner
    Kinds <- MixedKinds
    Table <- MCTable
    SeedDb <- MCSeedDb
    SeedRemote <- InSyncSeed
    MaxFacts = 4
    MaxAborts = 0
    EditDuringCycle = TRUE
    OverlapCycles = TRUE
    SameSecond = FALSE
INVARIANTS
    NoDanglingReference
PROPERTIES
    VisibleNotesKeepField
