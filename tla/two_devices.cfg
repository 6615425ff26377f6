SPECIFICATION FairSpec
CONSTANTS
    d1 = d1
    d2 = d2
    w1 = w1
    w2 = w2
    f = f
    t = t
    n = n
    x = x
    Absent = Absent
    NoField = NoField
    NoFact = NoFact
    Entity <- TaggedNote
    TableOf <- MCTableOf
    WorkspaceOf <- MCWorkspaceOf
    Parents <- MCParents
    Device <- MCDevice
    Cycle <- MCCycle
    Owner <- MCOwner
    Kinds <- RunOnly
    Table <- MCTable
    SeedDb <- MCSeedDb
    SeedRemote <- InSyncSeed
    MaxFacts = 6
    MaxAborts = 0
    EditDuringCycle = FALSE
    OverlapCycles = FALSE
    SameSecond = FALSE
PROPERTIES
    NotesNeverGoBack
    Settles
