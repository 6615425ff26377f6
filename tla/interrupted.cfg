SPECIFICATION FairSpec
CONSTANTS
    d1 = d1
    d2 = d2
    w1 = w1
    w2 = w2
    f = f
    t = t
    n = n
    x = x
    Absent = Absent
    NoField = NoField
    NoFact = NoFact
    Entity <- BareNote
    TableOf <- MCTableOf
    WorkspaceOf <- MCWorkspaceOf
    Parents <- MCParents
    Device <- MCDevice
    Cycle <- MCCycle
    Owner <- MCOwner
    Kinds <- RunOnly
    Table <- MCTable
    SeedDb <- MCSeedDb
    SeedRemote <- InSyncSeed
    MaxFacts = 4
    MaxAborts = 2
    EditDuringCycle = FALSE
    OverlapCycles = FALSE
    SameSecond = FALSE
INVARIANTS
    LatestWriteWins
    LastWriteIsKept
PROPERTIES
    Settles
