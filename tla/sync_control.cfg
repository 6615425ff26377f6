\* Two saves that may overlap, the worker and one cycle by hand; one kill and
\* one failing write or call.
CONSTANTS
    Put = {s1, s2}
    Manual = {run}
    Worker = worker
    a = a
    b = b
    ka = ka
    kb = kb
    Project = {a, b}
    Key = {ka, kb}
    KeyOf <- MCKeyOf
    NoUrl = noUrl
    NoKey = noKey
    Keep = keep
    NoPassword = noPassword
    NoSection = noSection
    Garbled = garbled
    Body <- MCBody
    SeedFile <- MCSeedFile
    SeedRemote <- MCSeedRemote
    MaxCrashes = 1
    MaxFaults = 1

SPECIFICATION FairSpec

INVARIANTS
    TypeOK
    FileIsInForce
    RowsMeetContract

PROPERTIES
    CyclesUseSavedSettings
    WorkerKeepsSyncing

CHECK_DEADLOCK FALSE
